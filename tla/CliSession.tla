----------------------------- MODULE CliSession -----------------------------
(***************************************************************************)
(* The command line tool over its life: sessions that load the data store, *)
(* open the device, run commands and save the store again (cli/src/main.c, *)
(* cli.c, datastore.c), any of which may die at any moment.                *)
(*                                                                         *)
(* The data store file is a sequence of items: pairing data, a terminator, *)
(* records, a terminator.  Templates are kept on the sensor by the DLL's   *)
(* storage adapter if it has one, else in the list of RecordStore; which   *)
(* one is a fact of the installed driver.  The tool waits for every        *)
(* capture it starts, so the DLL's engine uses the list only while the     *)
(* main thread does not.                                                   *)
(***************************************************************************)
EXTENDS RecordStore

CONSTANTS Names, Values,  \* sensor names and pairing data
          NoValue,        \* no pairing data
          NoRecord,       \* no enrolment
          MaxSessions,    \* bound: sessions
          MaxCmds,        \* bound: commands
          MaxSets         \* bound: pairing data the DLL writes in a session

ASSUME CliAssumption ==
    /\ NoValue \notin Values /\ NoRecord \notin Record
    /\ MaxSessions \in Nat /\ MaxCmds \in Nat /\ MaxSets \in Nat

Pair(n, v) == [kind |-> "pair", name |-> n, val |-> v]
Rec(r)     == [kind |-> "rec", rec |-> r]
End        == [kind |-> "end"]

(* Pairing data and records; exact: no step has lost records since. *)
Knowledge == [pairs : [Names -> Values \cup {NoValue}], recs : SUBSET Record, exact : BOOLEAN]

VARIABLES pc,        \* where main() is
          dll,       \* use_dll_storage
          db,        \* the list of struct tudor_device
          sensor,    \* templates on the sensor (DLL storage)
          pdata,     \* pdata_head: pairing data, first match wins
          enroll,    \* enrolling, with the record asked for
          half,      \* a reopen failed: the pipeline is freed
          abort,     \* abort_cmd_loop
          tries,     \* verify_retries, identify_retries
          file,      \* the data store on disk: items, and is the last one cut off?
          pos,       \* items of the file read so far
          out,       \* items written since the file was truncated
          used,      \* what the bounds count
          mem,       \* what a session should know: pairing data and records
          durable    \* the same of what is on disk

memory == <<db, pdata, enroll, half, abort, tries>>
disk   == <<file, pos, out>>
ghosts == <<mem, durable>>
vars   == <<pc, dll, sensor, memory, disk, used, ghosts>>

(* The DLL's threads may write to the registry from the open to the end,   *)
(* while the tool opens it again or saves the data store too.              *)
Running == pc # "down"

TypeOK ==
    /\ pc \in {"down", "opening", "loading", "prompt", "enroll", "commit", "reopen",
               "identify", "truncated", "pairs_out", "records_out", "closing"}
    /\ dll \in BOOLEAN /\ db \in Heap /\ sensor \subseteq Record
    /\ pdata \in Seq([kind : {"pair"}, name : Names, val : Values])
    /\ enroll \in Record \cup {NoRecord}
    /\ half \in BOOLEAN /\ abort \in BOOLEAN /\ tries \in 0..4
    /\ file.cut \in BOOLEAN /\ pos \in 0..Len(file.items)
    /\ used.sessions \in 0..MaxSessions /\ used.cmds \in 0..MaxCmds /\ used.sets \in 0..MaxSets
    /\ {mem, durable} \subseteq Knowledge

(* The first entry of that name *)
get_pair_data(pd, n) ==
    IF \E i \in DOMAIN pd : pd[i].name = n
    THEN pd[CHOOSE i \in DOMAIN pd : pd[i].name = n /\ \A j \in 1..(i-1) : pd[j].name # n].val
    ELSE NoValue

SavedPairs   == {<<>>} \cup {<<Pair(n, v)>> : n \in Names, v \in Values}
SavedRecords == {recs \in UNION {[1..k -> Record] : k \in 0..MaxNodes} : IsInjective(recs)}

(* What a session that saved pd and recs leaves; one that saved nothing *)
(* may not have been.                                                   *)
Left(pd, recs) ==
    /\ file = [items |-> IF pd = <<>> /\ recs = <<>> THEN <<>>
                         ELSE pd \o <<End>> \o [i \in DOMAIN recs |-> Rec(recs[i])] \o <<End>>,
               cut |-> FALSE]
    /\ mem = [pairs |-> [n \in Names |-> get_pair_data(pd, n)], recs |-> ToSet(recs),
              exact |-> TRUE]

(* A tool that was never used, or that saved records and pairing data. *)
Init ==
    /\ pc = "down" /\ dll \in BOOLEAN /\ db = EmptyDb /\ sensor = {}
    /\ pdata = <<>> /\ enroll = NoRecord /\ half = FALSE /\ abort = FALSE /\ tries = 0
    /\ \E pd \in SavedPairs, recs \in SavedRecords : Left(pd, recs)
    /\ durable = mem /\ pos = 0 /\ out = <<>>
    /\ used = [sessions |-> 0, cmds |-> 0, sets |-> 0]

-----------------------------------------------------------------------------
(* Pairing data *)

(* Mutant: an entry that exists is not replaced, a new one shadows it. *)
mut_set_pair_data(pd, n, v) == <<Pair(n, v)>> \o pd

(* The entry of that name gets new data, or a new entry is put in front. *)
set_pair_data(pd, n, v) ==
    IF get_pair_data(pd, n) = NoValue THEN <<Pair(n, v)>> \o pd
    ELSE LET i == CHOOSE i \in DOMAIN pd : pd[i].name = n /\ \A j \in 1..(i-1) : pd[j].name # n
         IN  [pd EXCEPT ![i] = Pair(n, v)]

(* The DLL writes pairing data to the registry: tudor_reg_handler keeps it *)
(* in memory, where it stays until the session ends.                       *)
WritePairingData(n, v) ==
    /\ Running /\ used.sets < MaxSets
    /\ used' = [used EXCEPT !.sets = @ + 1]
    /\ pdata' = set_pair_data(pdata, n, v)
    /\ mem' = [mem EXCEPT !.pairs[n] = v]
    /\ UNCHANGED <<pc, dll, db, sensor, enroll, half, abort, tries, disk, durable>>

-----------------------------------------------------------------------------
(* Reading the data store *)

(* Entries are read up to a terminator or the end of the file; an entry    *)
(* that is cut off is an error, and the tool exits.                        *)
Section(items, kind) == SelectInSeq(items, LAMBDA x : x.kind # kind)
Entries(items, kind) ==
    IF Section(items, kind) = 0 THEN items ELSE SubSeq(items, 1, Section(items, kind) - 1)
CutOff(items, kind) == file.cut /\ Section(items, kind) = 0

(* The process is gone, and its memory with it; left is still known. *)
Exit(left) ==
    /\ pc' = "down"
    /\ db' = EmptyDb /\ pdata' = <<>> /\ enroll' = NoRecord /\ half' = FALSE
    /\ abort' = FALSE /\ tries' = 0 /\ pos' = 0 /\ out' = <<>>
    /\ mem' = left /\ durable' = left

(* main up to tudor_open: every entry read becomes the head of the list. *)
load_datastore_pair_data ==
    /\ pc = "down" /\ used.sessions < MaxSessions
    /\ used' = [used EXCEPT !.sessions = @ + 1, !.sets = 0]
    /\ UNCHANGED <<dll, sensor, file, durable>>
    /\ LET new == Entries(file.items, "pair")
       IN  IF CutOff(file.items, "pair") THEN Exit(durable)
           ELSE /\ pdata' = Reverse(new)
                /\ pos' = IF Len(new) < Len(file.items) THEN Len(new) + 1 ELSE Len(new)
                /\ pc' = "opening"
                /\ UNCHANGED <<db, enroll, half, abort, tries, out, mem>>

(* The device comes up without records, or the tool exits. *)
tudor_open ==
    /\ pc = "opening"
    /\ \/ /\ pc' = "loading" /\ db' = EmptyDb /\ enroll' = NoRecord
          /\ UNCHANGED <<pdata, half, abort, tries, disk, mem>>
       \/ Exit(durable) /\ UNCHANGED file
    /\ UNCHANGED <<dll, sensor, used, durable>>

(* A duplicate or a record cut off is an error, and the tool exits. *)
load_datastore_records ==
    /\ pc = "loading"
    /\ UNCHANGED <<dll, sensor, used, file, durable>>
    /\ LET rest == SubSeq(file.items, pos + 1, Len(file.items))
           new  == Entries(rest, "rec")
           load[k \in 0..Len(new)] ==
               IF k = 0 THEN EmptyDb ELSE tudor_add_record(load[k-1], new[k].rec)
       IN  IF CutOff(rest, "rec") \/ ~IsInjective(new) THEN Exit(durable)
           ELSE /\ db' = load[Len(new)] /\ pos' = Len(file.items) /\ pc' = "prompt"
                /\ UNCHANGED <<pdata, enroll, half, abort, tries, out, mem>>

-----------------------------------------------------------------------------
(* Commands.  A command that would use a freed pipeline ends in a crash. *)

Command ==
    /\ pc = "prompt" /\ ~abort /\ ~half /\ used.cmds < MaxCmds
    /\ used' = [used EXCEPT !.cmds = @ + 1]

(* tudor_enroll_start: refused while enrolling, and it may fail. *)
cmd_enroll(r) ==
    /\ Command /\ UNCHANGED <<dll, db, sensor, pdata, half, abort, tries, disk, ghosts>>
    /\ \/ pc' = "enroll" /\ enroll' = r /\ enroll = NoRecord
       \/ UNCHANGED <<pc, enroll>>

(* tudor_enroll_discard: if the DLL fails, the device stays enrolling. *)
Discard ==
    /\ enroll' \in {NoRecord, enroll} /\ pc' = "prompt"
    /\ UNCHANGED <<dll, db, sensor, pdata, half, abort, tries, disk, used, ghosts>>

(* A sample is taken: more are needed or it failed and is tried again, for *)
(* ever; or it was the last; or the capture could not be started.          *)
EnrollCapture ==
    /\ pc = "enroll"
    /\ \/ pc' = "commit" /\ UNCHANGED <<dll, sensor, memory, disk, used, ghosts>>
       \/ Discard

(* tudor_enroll_commit.  With DLL storage the record is put in the list by *)
(* the intercepted AddRecord whether or not the DLL then stores it.        *)
tudor_enroll_commit ==
    /\ pc = "commit"
    /\ HasRoom(db)
    /\ \/ Discard
       \/ /\ dll /\ db' = tudor_add_record(db, enroll) /\ mem' = [mem EXCEPT !.recs = @ \cup {enroll}]
          /\ \/ sensor' = sensor \cup {enroll} /\ enroll' = NoRecord /\ pc' = "reopen"
             \/ sensor' = sensor /\ enroll' \in {NoRecord, enroll} /\ pc' = "prompt"
          /\ UNCHANGED <<dll, pdata, half, abort, tries, disk, used, durable>>
       \/ /\ ~dll /\ ~Duplicate(db, enroll)
          /\ db' = tudor_add_record(db, enroll) /\ mem' = [mem EXCEPT !.recs = @ \cup {enroll}]
          /\ enroll' = NoRecord /\ pc' = "reopen"
          /\ UNCHANGED <<dll, sensor, pdata, half, abort, tries, disk, used, durable>>

(* After an enrolment the device is closed and opened again: the list is   *)
(* freed and not loaded again, so that the records are lost.  If the close *)
(* fails nothing has happened; if the open fails the device is unusable.   *)
tudor_reopen ==
    /\ pc = "reopen" /\ pc' = "prompt"
    /\ \/ UNCHANGED <<db, half, mem>>
       \/ db' = EmptyDb /\ mem' = [mem EXCEPT !.exact = FALSE] /\ half' \in BOOLEAN
    /\ UNCHANGED <<dll, sensor, pdata, enroll, abort, tries, disk, used, durable>>

(* 'i' identifies; 'v' does if it finds a record of the identity.  (If not *)
(* it has done what 'q' does.)                                             *)
cmd_identify ==
    /\ Command /\ enroll = NoRecord /\ pc' = "identify" /\ tries' = 0
    /\ \/ UNCHANGED db
       \/ \E g \in Guids :
             /\ ~dll /\ db' = tudor_enumerate_records(db, g, Wild).db
             /\ db'.result # Null
    /\ UNCHANGED <<dll, sensor, pdata, enroll, half, abort, disk, ghosts>>

(* The DLL's engine looks through the list during a capture. *)
EngineUsesStorage ==
    /\ pc = "identify" /\ ~dll
    /\ \/ \E g \in Guids \cup {Wild} : db' = storage_QueryBySubject(db, g, Wild)
       \/ db' = storage_FirstRecord(db)
       \/ db' = storage_NextRecord(db)
    /\ UNCHANGED <<pc, dll, sensor, pdata, enroll, half, abort, tries, disk, used, ghosts>>

(* A bad capture is tried again, five times at most. *)
IdentifyEnds ==
    /\ pc = "identify"
    /\ \/ tries < 4 /\ tries' = tries + 1 /\ UNCHANGED pc
       \/ pc' = "prompt" /\ tries' = 0
    /\ UNCHANGED <<dll, db, sensor, pdata, enroll, half, abort, disk, used, ghosts>>

cmd_query(g) ==
    /\ Command
    /\ db' = IF dll THEN db ELSE tudor_enumerate_records(db, g, Wild).db
    /\ UNCHANGED <<pc, dll, sensor, pdata, enroll, half, abort, tries, disk, ghosts>>

(* tudor_wipe_records: with DLL storage the templates go, if the DLL can   *)
(* delete them, and the list stays; else the list's records go.            *)
cmd_wipe(g, f) ==
    /\ Command
    /\ IF dll
       THEN /\ sensor' \in {{r \in sensor : ~Matches(r, g, f)}, sensor}
            /\ UNCHANGED <<db, mem>>
       ELSE /\ db' = storage_DeleteRecord(db, g, f)
            /\ mem' = [mem EXCEPT !.recs = {r \in @ : ~Matches(r, g, f)}]
            /\ UNCHANGED sensor
    /\ UNCHANGED <<pc, dll, pdata, enroll, half, abort, tries, disk, durable>>

(* 's', or the first SIGINT: the loop ends at its next turn, so a signal   *)
(* during a command is as good as one after it.                            *)
Interrupt ==
    /\ pc = "prompt" /\ ~abort
    /\ abort' = TRUE
    /\ UNCHANGED <<pc, dll, db, sensor, pdata, enroll, half, tries, disk, used, ghosts>>

-----------------------------------------------------------------------------
(* Saving.  The file is truncated at once; what is written after that may  *)
(* or may not be on disk until it is closed.                               *)

Truncate ==
    /\ pc = "prompt" /\ abort /\ pc' = "truncated"
    /\ file' = [items |-> <<>>, cut |-> FALSE] /\ pos' = 0 /\ out' = <<>>
    /\ UNCHANGED <<dll, sensor, memory, used, ghosts>>

(* Under pdata_lock; what the DLL writes after it is not saved. *)
save_datastore_pair_data ==
    /\ pc = "truncated" /\ pc' = "pairs_out"
    /\ out' = pdata \o <<End>> /\ durable' = [durable EXCEPT !.pairs = mem.pairs]
    /\ UNCHANGED <<dll, sensor, memory, file, pos, used, mem>>

save_datastore_records ==
    /\ pc = "pairs_out" /\ pc' = "records_out"
    /\ out' = out \o [i \in DOMAIN List(db) |-> Rec(db.rec[List(db)[i]])] \o <<End>>
    /\ UNCHANGED <<dll, sensor, memory, file, pos, used, ghosts>>

CloseStore ==
    /\ pc = "records_out" /\ pc' = "closing"
    /\ file' = [items |-> out, cut |-> FALSE] /\ out' = <<>>
    /\ durable' = [mem EXCEPT !.pairs = durable.pairs]
    /\ UNCHANGED <<dll, sensor, memory, pos, used, mem>>

(* tudor_close, tudor_shutdown, free_pair_data. *)
CloseDevice ==
    /\ pc = "closing" /\ Exit(durable)
    /\ UNCHANGED <<dll, sensor, file, used, durable>>

(* What a crash leaves of a save: any prefix, perhaps with its last item   *)
(* cut off.  A second SIGINT exits at once: a crash that flushes.          *)
Torn(i) == [pairs |-> [n \in Names |-> IF \E x \in ToSet(i) : x.kind = "pair" /\ x.name = n
                                       THEN durable.pairs[n] ELSE NoValue],
            recs  |-> mem.recs, exact |-> FALSE]

Saving == pc \in {"truncated", "pairs_out", "records_out"}

Crash ==
    /\ pc # "down"
    /\ UNCHANGED <<dll, sensor, used>>
    /\ IF Saving
       THEN \E i \in Prefixes(out), c \in BOOLEAN :
               /\ c => (i # <<>> /\ Last(i) # End)
               /\ file' = [items |-> i, cut |-> c]
               /\ Exit(Torn(i))
       ELSE UNCHANGED file /\ Exit(durable)

-----------------------------------------------------------------------------
Next ==
    \/ \E n \in Names, v \in Values : WritePairingData(n, v)
    \/ load_datastore_pair_data \/ tudor_open \/ load_datastore_records
    \/ \E r \in Record : cmd_enroll(r)
    \/ EnrollCapture \/ tudor_enroll_commit \/ tudor_reopen
    \/ cmd_identify \/ EngineUsesStorage \/ IdentifyEnds
    \/ \E g \in Guids \cup {Wild} : cmd_query(g)
    \/ \E g \in Guids \cup {Wild}, f \in Fingers \cup {Wild} : cmd_wipe(g, f)
    \/ Interrupt
    \/ Truncate \/ save_datastore_pair_data \/ save_datastore_records
    \/ CloseStore \/ CloseDevice
    \/ Crash

Spec == Init /\ [][Next]_vars

-----------------------------------------------------------------------------
(* Storage stays sound through any sequence of commands and sessions: the  *)
(* list, the results the DLL may still walk (storage.c frees a node only   *)
(* after it forgot them), and what an enumeration reports.                 *)
SessionSound == TypeOK /\ ListSound(db) /\ ResultsAlive(db) /\ EnumerationExact(db)

(* Pairing data read by the driver (get_pair_data) is the data last        *)
(* written, in this session or, if it was saved, in an earlier one,        *)
(* although every load turns the list round and a crash may leave only     *)
(* part of the file.                                                       *)
PairingKept == pc # "down" => \A n \in Names : get_pair_data(pdata, n) = mem.pairs[n]

(* The list a session works with and saves holds exactly the records that  *)
(* were enrolled and not wiped, in this session and the earlier ones, until *)
(* a reopen after an enrolment (tudor_reopen starts from an empty list) or *)
(* a crash in the middle of a save loses some; even then it never holds a  *)
(* record that was wiped or never enrolled.                                *)
RecordsKept == pc \notin {"down", "opening", "loading"} =>
    /\ RecordsOf(db) \subseteq mem.recs
    /\ mem.exact => RecordsOf(db) = mem.recs
=============================================================================
