----------------------------- MODULE HostSlots -----------------------------
(***************************************************************************)
(* What the host launcher promises its D-Bus clients, without the table,   *)
(* the process ids and the child watches: one slot per hidraw device.  A   *)
(* slot is free, or it names a host that a client holds, that waits as an  *)
(* orphan to be adopted, or that died while it was held and is kept until  *)
(* its client lets go of it.                                               *)
(***************************************************************************)
EXTENDS Naturals, Sequences

CONSTANTS Paths, MaxId

VARIABLES slot,     \* [Paths -> [id, st]]
          issued,   \* the host ids handed out so far; an id is never handed out again
          signals,  \* HostDied signals emitted
          reply     \* the last reply

svars == <<slot, issued, signals, reply>>

Free == [id |-> 0, st |-> "free"]

Answer(res, id) == reply' = [res |-> res, id |-> id]

Init ==
    /\ slot = [p \in Paths |-> Free]
    /\ issued = {}
    /\ signals = <<>>
    /\ reply = [res |-> "none", id |-> 0]

(* LaunchHost: an orphan in the slot is given up even if the launch fails. *)
Launch(p) ==
    \/ /\ slot[p].st \in {"held", "dead"}
       /\ Answer("in_use", 0)
       /\ UNCHANGED <<slot, issued, signals>>
    \/ /\ slot[p].st \in {"free", "orphan"}
       /\ slot' = [slot EXCEPT ![p] = Free]
       /\ Answer("failed", 0)
       /\ UNCHANGED <<issued, signals>>
    \/ /\ slot[p].st \in {"free", "orphan"}
       /\ \E id \in (1..MaxId) \ issued :
             /\ slot' = [slot EXCEPT ![p] = [id |-> id, st |-> "held"]]
             /\ issued' = issued \cup {id}
             /\ Answer("ok", id)
       /\ UNCHANGED signals

Adopt(p) ==
    \/ /\ slot[p].st = "orphan"
       /\ slot' = [slot EXCEPT ![p].st = "held"]
       /\ Answer("ok", slot[p].id)
       /\ UNCHANGED <<issued, signals>>
    \/ /\ slot[p].st # "orphan"
       /\ Answer("ok", 0)
       /\ UNCHANGED <<slot, issued, signals>>

Kill(id) ==
    /\ \/ \E p \in Paths : /\ slot[p].id = id
                           /\ slot' = [slot EXCEPT ![p] = Free]
                           /\ Answer("ok", id)
       \/ /\ \A p \in Paths : slot[p].id # id
          /\ Answer("unknown", id)
          /\ UNCHANGED slot
    /\ UNCHANGED <<issued, signals>>

Orphan(id) ==
    /\ \/ \E p \in Paths :
             /\ slot[p].id = id
             /\ \/ /\ slot[p].st = "held"
                   /\ slot' = [slot EXCEPT ![p].st = "orphan"]
                   /\ Answer("ok", id)
                \/ /\ slot[p].st = "dead"
                   /\ slot' = [slot EXCEPT ![p] = Free]
                   /\ Answer("ok", id)
                \/ /\ slot[p].st = "orphan"
                   /\ Answer("already_orphan", id)
                   /\ UNCHANGED slot
       \/ /\ \A p \in Paths : slot[p].id # id
          /\ Answer("unknown", id)
          /\ UNCHANGED slot
    /\ UNCHANGED <<issued, signals>>

(* A host dies: its holder is told; an orphan just disappears. *)
Die(p) ==
    /\ \/ /\ slot[p].st = "held"
          /\ slot' = [slot EXCEPT ![p].st = "dead"]
          /\ signals' = Append(signals, slot[p].id)
       \/ /\ slot[p].st = "orphan"
          /\ slot' = [slot EXCEPT ![p] = Free]
          /\ UNCHANGED signals
    /\ UNCHANGED <<issued, reply>>

Next == \/ \E p \in Paths : Launch(p) \/ Adopt(p) \/ Die(p)
        \/ \E id \in 1..MaxId : Kill(id) \/ Orphan(id)

Spec == Init /\ [][Next]_svars
=============================================================================
