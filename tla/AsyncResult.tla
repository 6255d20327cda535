---------------------------- MODULE AsyncResult ----------------------------
(***************************************************************************)
(* What an overlapped operation with a completion callback promises: it is *)
(* started, completes once with one status, and its callback is told that  *)
(* status once.                                                            *)
(***************************************************************************)
CONSTANTS Outcomes, None

VARIABLES phase,   \* "idle", "pending" or "done"
          result,  \* the status it completed with
          told     \* the status its callback was called with

vars == <<phase, result, told>>

Init == phase = "idle" /\ result = None /\ told = None

(* Another operation starts when the last one was told to its callback. *)
Start ==
    /\ phase = "idle" \/ (phase = "done" /\ told = result)
    /\ phase' = "pending" /\ result' = None /\ told' = None

Complete(s) ==
    /\ phase = "pending"
    /\ phase' = "done" /\ result' = s
    /\ UNCHANGED told

Tell ==
    /\ phase = "done" /\ told = None
    /\ told' = result
    /\ UNCHANGED <<phase, result>>

Next == Start \/ (\E s \in Outcomes : Complete(s)) \/ Tell

Spec == Init /\ [][Next]_vars
=============================================================================
