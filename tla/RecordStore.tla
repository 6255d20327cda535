---------------------------- MODULE RecordStore ----------------------------
(***************************************************************************)
(* The in-memory template store of libtudor (tudor/storage.c): a doubly    *)
(* linked list of records, a chain of query results threaded through the   *)
(* same nodes, and a cursor on that chain.  Every operation runs under     *)
(* records_lock and is one operator on the heap db.                        *)
(*                                                                         *)
(* A node is an address.  malloc hands out the lowest free one, so that a  *)
(* freed address is reused as soon as possible, and leaves its fields as   *)
(* they are; free marks the node free and leaves its fields too.           *)
(***************************************************************************)
EXTENDS Naturals, Sequences, SequencesExt

CONSTANTS Guids, Fingers,  \* identities and sub-factors of records
          Wild,            \* the wildcard of either (guid NULL, TUDOR_FINGER_ANY)
          Free,            \* the content of a node that is not allocated
          MaxNodes         \* bound: records allocated at the same time

ASSUME RecordAssumption ==
    /\ Wild \notin Guids /\ Wild \notin Fingers
    /\ Free \notin [guid : Guids, finger : Fingers]
    /\ MaxNodes \in Nat \ {0}

Null  == 0
Nodes == 1..MaxNodes

Record == [guid : Guids, finger : Fingers]

(* struct tudor_record for each node, and the list of struct tudor_device *)
Heap == [head : Nodes \cup {Null}, result : Nodes \cup {Null}, cursor : Nodes \cup {Null},
         next : [Nodes -> Nodes \cup {Null}], prev : [Nodes -> Nodes \cup {Null}],
         res : [Nodes -> Nodes \cup {Null}], rec : [Nodes -> Record \cup {Free}]]

(* tudor_open: no records and no results *)
EmptyDb ==
    LET none == [n \in Nodes |-> Null]
    IN  [head |-> Null, result |-> Null, cursor |-> Null, next |-> none, prev |-> none,
         res |-> none, rec |-> [n \in Nodes |-> Free]]

-----------------------------------------------------------------------------
(* The nodes met on the way from n along link, as far as there are addresses *)
Path(n, link) ==
    LET at[k \in 0..MaxNodes] ==
            IF k = 0 THEN n ELSE IF at[k-1] = Null THEN Null ELSE link[at[k-1]]
    IN  [k \in 1..Cardinality({j \in 0..MaxNodes : at[j] # Null}) |-> at[k-1]]

List(db)    == Path(db.head, db.next)
Results(db) == Path(db.result, db.res)

RecordsOf(db) == {db.rec[n] : n \in ToSet(List(db))}

HasRoom(db) == \E n \in Nodes : db.rec[n] = Free

(* guid NULL or WINBIO_ID_TYPE_WILDCARD, and TUDOR_FINGER_ANY, match all *)
Matches(r, g, f) == g \in {Wild, r.guid} /\ f \in {Wild, r.finger}

Duplicate(db, r) == r \in RecordsOf(db)

(* A new node becomes the head of the list. *)
Push(db, r) ==
    LET n == CHOOSE m \in Nodes : db.rec[m] = Free /\ \A k \in 1..(m-1) : db.rec[k] # Free
    IN  [db EXCEPT !.rec[n] = r, !.next[n] = db.head, !.head = n,
                   !.prev = [m \in Nodes |-> CASE m = n -> Null
                                               [] m = db.head -> n
                                               [] OTHER -> @[m]]]

(* tudor_add_record; storage_AddRecord for records it finds valid.  A      *)
(* duplicate changes nothing and is an error of the call.                  *)
tudor_add_record(db, r) == IF Duplicate(db, r) THEN db ELSE Push(db, r)

(* Mutant: the results survive the deletion of a record. *)
mut_Unlink(db, n) ==
    LET p == db.prev[n] nx == db.next[n]
    IN  [db EXCEPT !.rec[n] = Free,
                   !.head = IF p = Null THEN nx ELSE @,
                   !.next = [m \in Nodes |-> IF m = p THEN nx ELSE @[m]],
                   !.prev = [m \in Nodes |-> IF m = nx THEN p ELSE @[m]]]

(* One node leaves the list and is freed: the results are forgotten, since *)
(* the node may be one of them.                                            *)
Unlink(db, n) ==
    LET p == db.prev[n] nx == db.next[n]
    IN  [db EXCEPT !.rec[n] = Free,
                   !.head = IF p = Null THEN nx ELSE @,
                   !.next = [m \in Nodes |-> IF m = p THEN nx ELSE @[m]],
                   !.prev = [m \in Nodes |-> IF m = nx THEN p ELSE @[m]],
                   !.result = Null, !.cursor = Null]

(* The nodes of the list whose records match, in its order *)
Matching(db, g, f) ==
    LET l == List(db)
        found[k \in 0..Len(l)] ==
            IF k = 0 THEN <<>>
            ELSE IF Matches(db.rec[l[k]], g, f) THEN Append(found[k-1], l[k])
            ELSE found[k-1]
    IN  found[Len(l)]

(* Mutant: the loop stops at the first record it deletes. *)
mut_storage_DeleteRecord(db, g, f) ==
    IF Matching(db, g, f) = <<>> THEN db ELSE Unlink(db, Matching(db, g, f)[1])

(* storage_DeleteRecord, and tudor_wipe_records without DLL storage: the   *)
(* loop over the list, which holds the next node before it frees one       *)
storage_DeleteRecord(db, g, f) ==
    LET l == List(db)
        loop[k \in 0..Len(l)] ==
            IF k = 0 THEN db
            ELSE IF Matches(loop[k-1].rec[l[k]], g, f) THEN Unlink(loop[k-1], l[k])
            ELSE loop[k-1]
    IN  loop[Len(l)]

-----------------------------------------------------------------------------
(* storage_QueryBySubject; storage_QueryByContent asks with g = Wild *)
storage_QueryBySubject(db, g, f) ==
    LET m == Matching(db, g, f)
        first == IF m = <<>> THEN Null ELSE m[1]
    IN  [db EXCEPT !.result = first, !.cursor = first,
                   !.res = [n \in Nodes |->
                               IF n \notin ToSet(m) THEN @[n]
                               ELSE IF n = Last(m) THEN Null
                               ELSE m[(CHOOSE i \in DOMAIN m : m[i] = n) + 1]]]

storage_GetRecordCount(db) == Len(Results(db))

storage_FirstRecord(db) == [db EXCEPT !.cursor = db.result]

(* The cursor stays on the last result; the answer tells whether it moved. *)
NextResult(db) == IF db.result = Null \/ db.cursor = Null THEN Null ELSE db.res[db.cursor]
storage_NextRecord(db) == IF NextResult(db) = Null THEN db ELSE [db EXCEPT !.cursor = NextResult(db)]

(* tudor_enumerate_records: the records reported, in turn, and the heap    *)
(* afterwards.  The loop ends when NextRecord does not move; the bound     *)
(* only matters if it always does.                                         *)
tudor_enumerate_records(db, g, f) ==
    LET start == storage_FirstRecord(storage_QueryBySubject(db, g, f))
        loop[k \in 0..(MaxNodes + 1)] ==
            IF k = 0 THEN [db |-> start, seen |-> <<>>, more |-> start.result # Null]
            ELSE LET s == loop[k-1] IN
                 IF ~s.more THEN s
                 ELSE [db |-> storage_NextRecord(s.db),
                       seen |-> Append(s.seen, s.db.rec[s.db.cursor]),
                       more |-> NextResult(s.db) # Null]
    IN  loop[MaxNodes + 1]

-----------------------------------------------------------------------------
(* The list read forwards and backwards is the same, holds every allocated *)
(* node once, and no record twice.                                         *)
ListSound(db) ==
    LET l == List(db)
    IN  /\ IsInjective(l)
        /\ ToSet(l) = {n \in Nodes : db.rec[n] # Free}
        /\ \A i \in DOMAIN l : db.prev[l[i]] = IF i = 1 THEN Null ELSE l[i-1]
        /\ IsInjective([i \in DOMAIN l |-> db.rec[l[i]]])

(* A query's results outlive it: what the DLL reaches from the result head *)
(* and the cursor is still allocated, however the list changed since.      *)
ResultsAlive(db) ==
    /\ \A i \in DOMAIN Results(db) : db.rec[Results(db)[i]] # Free
    /\ IsInjective(Results(db))
    /\ (db.result = Null) <=> (db.cursor = Null)
    /\ db.cursor # Null => db.cursor \in ToSet(Results(db))

(* An enumeration reports every matching record once and nothing else. *)
EnumerationExact(db) ==
    \A g \in Guids \cup {Wild}, f \in Fingers \cup {Wild} :
        LET e == tudor_enumerate_records(db, g, f)
        IN  /\ ~e.more
            /\ IsInjective(e.seen)
            /\ ToSet(e.seen) = {r \in RecordsOf(db) : Matches(r, g, f)}
            /\ storage_GetRecordCount(e.db) = Len(e.seen)
=============================================================================
