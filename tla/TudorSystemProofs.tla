------------------------- MODULE TudorSystemProofs -------------------------
(***************************************************************************)
(* Proofs about TudorSystem, for any number of hosts and records.  First   *)
(* the libfprint module against the launcher: what the module believes of  *)
(* its host, and what keeps the machine awake while that host is in use,   *)
(* with crashes, timeouts, sleeps, cancels and exits of fprintd at any     *)
(* time.  Then the conversation of module and host.                        *)
(***************************************************************************)
EXTENDS TudorSystem, SequenceTheorems, TLAPS

(* The module never orphans a host: both callers of close_device pass FALSE. *)
SlotStates == {"free", "held", "dead"}

DevShape ==
    /\ slot \in [{"hidraw"} -> [id : Nat, st : SlotStates]]
    /\ hasId \in BOOLEAN /\ hostDead \in BOOLEAN /\ inhib \in BOOLEAN
    /\ exiting \in BOOLEAN /\ closeTimeout \in BOOLEAN
    /\ sus \in [waiting : BOOLEAN, inhib : BOOLEAN, timeout : BOOLEAN]

(* InhibitsSleep is not inductive: a suspend that waits for an action ends  *)
(* without closing the device if there was no inhibitor to hand over.       *)
SleepInv ==
    /\ InhibitsSleep
    /\ HostUsable /\ sus.waiting /\ ~sus.inhib => inhib \/ closeTask # "none"

(* fprintd does not exit with a host, not even if its close task got lost. *)
ExitInv ==
    /\ exiting /\ (closeTask = "none" \/ cbCalled) => ~hasId
    /\ ~exiting => ~cbCalled /\ closeTask # "exit"

DevInv == DevShape /\ KnowsItsHost /\ SleepInv /\ ExitInv

(* Without a suspend no assertion fails. *)
CalmInv ==
    /\ abort = "none" /\ sleeps = 0 /\ ~sus.waiting
    /\ closeTask # "suspend"
    /\ closeTimeout => exiting

(* An open that forgets the host it started (ipc.c:274-276). *)
Forgets == issued' # issued /\ ~hasId' /\ "no_fd" \in Events

-----------------------------------------------------------------------------
(* What a step may do to the device.  Most steps leave it alone, ...       *)
Untouched == UNCHANGED <<slot, hasId, hostId, hostDead, inhib, closeTask, closeTimeout, sus,
                         exiting, cbCalled, sleeps, abort>>

(* ... some end in dispose_dev, which gives the host back to the launcher, *)
GivenBack ==
    /\ hasId' = FALSE /\ hostId' = hostId /\ inhib' = FALSE
    /\ closeTask' = "none" /\ closeTimeout' = FALSE
    /\ hasId => slot'["hidraw"].st = "free"
    /\ ~hasId => slot' = slot
    /\ slot' \in [{"hidraw"} -> [id : Nat, st : SlotStates]]

(* ... and close_device either does that at once or starts a close task.   *)
CloseStarts(who, left) ==
    /\ closeTask' = who /\ closeTimeout' = TRUE /\ inhib' = left
    /\ abort' = (IF closeTimeout THEN "close_timeout" ELSE abort)
    /\ UNCHANGED <<slot, hasId, hostId, cbCalled>>

-----------------------------------------------------------------------------
LEMMA Killed ==
    ASSUME DevShape, KnowsItsHost, hasId, Launcher!Kill(hostId)
    PROVE  /\ slot' \in [{"hidraw"} -> [id : Nat, st : SlotStates]]
           /\ slot'["hidraw"].st = "free"
  <1>1. slot' = [slot EXCEPT !["hidraw"] = [id |-> 0, st |-> "free"]]
    BY DEF DevShape, KnowsItsHost, Slot, Launcher!Kill, Launcher!Free
  <1>2. QED
    BY <1>1 DEF DevShape, SlotStates

LEMMA Disposes == ASSUME DevShape, KnowsItsHost, dispose_dev PROVE GivenBack
  <1>1. CASE hasId
    <2>1. Launcher!Kill(hostId)
      BY <1>1 DEF dispose_dev, KillHost
    <2>2. QED
      BY <1>1, <2>1, Killed DEF dispose_dev, ClearDev, GivenBack
  <1>2. CASE ~hasId
    BY <1>2 DEF dispose_dev, ClearDev, DevShape, launcherVars, GivenBack
  <1>3. QED
    BY <1>1, <1>2

LEMMA Opens ==
    ASSUME DevShape, KnowsItsHost, NEW a, open_device(a)
    PROVE  /\ ~hasId /\ UNCHANGED <<sus, sleeps, abort>>
           /\ \/ /\ hasId' = TRUE /\ hostDead' = FALSE /\ inhib' = TRUE
                 /\ slot'["hidraw"] = [id |-> hostId', st |-> "held"]
                 /\ UNCHANGED <<closeTask, closeTimeout, exiting, cbCalled>>
              \/ /\ hasId' = FALSE /\ inhib' = FALSE
                 /\ closeTask' = "none" /\ closeTimeout' = FALSE
                 /\ Forgets \/ (Slot.st = "free" => slot'["hidraw"].st = "free")
                 /\ UNCHANGED <<hostDead, exiting, cbCalled>>
           /\ slot' \in [{"hidraw"} -> [id : Nat, st : SlotStates]]
  <1>1. ~hasId /\ UNCHANGED <<sus, sleeps, abort>>
    BY DEF open_device
  <1>2. \/ /\ reply'.res # "ok"
           /\ \/ slot' = slot
              \/ slot' = [slot EXCEPT !["hidraw"] = [id |-> 0, st |-> "free"]]
        \/ \E id \in Nat : /\ slot' = [slot EXCEPT !["hidraw"] = [id |-> id, st |-> "held"]]
                           /\ reply' = [res |-> "ok", id |-> id] /\ issued' # issued
    <2>1. Launcher!Launch("hidraw")
      BY DEF open_device
    <2>2. (1..MaxId) \ issued \subseteq Nat
      BY PluginAssumption
    <2>3. QED
      BY <2>1, <2>2 DEF Launcher!Launch, Launcher!Answer, Launcher!Free
  <1>3. CASE reply'.res # "ok"
    <2>1. OpenFailed(a) /\ ClearDev /\ UNCHANGED hostDead
      BY <1>3 DEF open_device, NoDescriptor
    <2>2. \/ slot' = slot
          \/ slot' = [slot EXCEPT !["hidraw"] = [id |-> 0, st |-> "free"]]
      BY <1>2, <1>3
    <2>3. /\ slot' \in [{"hidraw"} -> [id : Nat, st : SlotStates]]
          /\ Slot.st = "free" => slot'["hidraw"].st = "free"
      BY <2>2 DEF DevShape, SlotStates, Slot
    <2>4. QED
      BY <1>1, <2>1, <2>3 DEF OpenFailed, ClearDev
  <1>4. CASE reply'.res = "ok" /\ ~NoDescriptor(a)
    <2>1. /\ hasId' = TRUE /\ hostId' = reply'.id /\ hostDead' = FALSE /\ inhib' = TRUE
          /\ UNCHANGED <<closeTask, closeTimeout, exiting, cbCalled>>
      BY <1>4 DEF open_device, libVars
    <2>2. PICK id \in Nat : /\ slot' = [slot EXCEPT !["hidraw"] = [id |-> id, st |-> "held"]]
                            /\ reply' = [res |-> "ok", id |-> id]
      BY <1>2, <1>4
    <2>3. /\ slot' \in [{"hidraw"} -> [id : Nat, st : SlotStates]]
          /\ slot'["hidraw"] = [id |-> hostId', st |-> "held"]
      BY <2>1, <2>2 DEF DevShape, SlotStates
    <2>4. QED
      BY <1>1, <2>1, <2>3
  <1>5. CASE reply'.res = "ok" /\ NoDescriptor(a)
    <2>1. /\ hasId' = FALSE /\ inhib' = FALSE /\ closeTask' = "none" /\ closeTimeout' = FALSE
          /\ "no_fd" \in Events /\ UNCHANGED <<hostDead, exiting, cbCalled>>
      BY <1>5 DEF NoDescriptor, OpenFailed
    <2>2. PICK id \in Nat : /\ slot' = [slot EXCEPT !["hidraw"] = [id |-> id, st |-> "held"]]
                            /\ issued' # issued
      BY <1>2, <1>5
    <2>3. slot' \in [{"hidraw"} -> [id : Nat, st : SlotStates]]
      BY <2>2 DEF DevShape, SlotStates
    <2>4. QED
      BY <1>1, <2>1, <2>2, <2>3 DEF Forgets
  <1>6. QED
    BY <1>3, <1>4, <1>5

LEMMA Closes ==
    ASSUME DevShape, KnowsItsHost, NEW who, NEW valid, NEW left, close_device(who, valid, left)
    PROVE  \/ GivenBack /\ TaskReturns(who, valid)
           \/ CloseStarts(who, left)
  <1>1. CASE dispose_dev /\ TaskReturns(who, valid)
    BY <1>1, Disposes
  <1>2. CASE ~(dispose_dev /\ TaskReturns(who, valid))
    BY <1>2 DEF close_device, CloseStarts, launcherVars
  <1>3. QED
    BY <1>1, <1>2

(* The steps that leave the device alone but for a dispose_dev.            *)
Ordinary == \/ Untouched
            \/ GivenBack /\ UNCHANGED <<hostDead, sus, exiting, cbCalled, sleeps, abort>>

LEMMA QuietCalls ==
    ASSUME \/ fpi_device_tudor_close \/ fpi_device_tudor_enroll \/ fpi_device_tudor_verify
           \/ fpi_device_tudor_identify \/ fpi_device_tudor_delete \/ fpi_device_clear_storage
           \/ UserCancels
    PROVE  Untouched
  <1>1. CASE fpi_device_tudor_close
    BY <1>1 DEF fpi_device_tudor_close, Untouched, launcherVars, devVars, closeVars, sleepVars
  <1>2. CASE StartAction
    BY <1>2 DEF StartAction, Untouched, launcherVars, devVars, closeVars, sleepVars, libVars
  <1>3. CASE UserCancels
    BY <1>3 DEF UserCancels, Untouched, launcherVars, devVars, closeVars, sleepVars, libVars
  <1>4. QED
    BY <1>1, <1>2, <1>3 DEF fpi_device_tudor_enroll, fpi_device_tudor_verify,
       fpi_device_tudor_identify, fpi_device_tudor_delete, fpi_device_clear_storage

LEMMA InitHost ==
    ASSUME DevShape, KnowsItsHost, init_host_proc
    PROVE  Ordinary
  <1>1. UNCHANGED <<hostDead, sus, sleeps, abort>>
    BY DEF init_host_proc
  <1>2. CASE OpenFailed(action) /\ dispose_dev
    BY <1>1, <1>2, Disposes DEF OpenFailed, Ordinary
  <1>3. CASE UNCHANGED <<launcherVars, libVars, hasId, hostId, closeTask, closeTimeout, inhib>>
    BY <1>1, <1>3 DEF Ordinary, Untouched, launcherVars, libVars
  <1>4. QED
    BY <1>2, <1>3 DEF init_host_proc

LEMMA Fails ==
    ASSUME DevShape, KnowsItsHost, RecvFails
    PROVE  Ordinary
  <1>1. UNCHANGED <<hostDead, sus, exiting, cbCalled, sleeps, abort>>
    BY DEF RecvFails
  <1>2. CASE dispose_dev
    BY <1>1, <1>2, Disposes DEF Ordinary
  <1>3. CASE UNCHANGED <<launcherVars, hasId, hostId, closeTask, closeTimeout, inhib>>
    BY <1>1, <1>3 DEF Ordinary, Untouched, launcherVars
  <1>4. QED
    BY <1>2, <1>3 DEF RecvFails

LEMMA Receives ==
    ASSUME DevShape, KnowsItsHost, sock_ready
    PROVE  Ordinary
  <1>1. UNCHANGED <<hostDead, sus, exiting, cbCalled, sleeps, abort>>
    BY DEF sock_ready
  <1>2. CASE dispose_dev
    BY <1>1, <1>2, Disposes DEF Ordinary
  <1>3. CASE KeepDev
    BY <1>1, <1>3 DEF Ordinary, Untouched, KeepDev, launcherVars
  <1>4. ASSUME NEW m, init_recv_cb(m)
        PROVE  KeepDev \/ dispose_dev
    BY <1>4 DEF init_recv_cb, InitFails
  <1>5. QED
    BY <1>2, <1>3, <1>4 DEF sock_ready

LEMMA HostKeepsDevice ==
    ASSUME UNCHANGED pluginVars
    PROVE  Untouched
  BY DEF pluginVars, Untouched, launcherVars, libVars, devVars, closeVars, sleepVars

-----------------------------------------------------------------------------
(* Each way a step may treat the device keeps the invariant.               *)
LEMMA UntouchedKeeps == ASSUME DevInv, Untouched PROVE DevInv'
  BY DEF DevInv, DevShape, KnowsItsHost, SleepInv, InhibitsSleep, ExitInv, HostUsable, Slot,
         Untouched

LEMMA GivenBackKeeps ==
    ASSUME DevInv, GivenBack, hostDead' \in BOOLEAN, exiting' \in BOOLEAN,
           ~exiting' => ~cbCalled',
           sus' \in [waiting : BOOLEAN, inhib : BOOLEAN, timeout : BOOLEAN]
    PROVE  DevInv'
  <1>1. hasId' = FALSE /\ closeTask' = "none" /\ DevShape'
    BY DEF DevInv, DevShape, GivenBack
  <1>2. QED
    BY <1>1 DEF DevInv, KnowsItsHost, SleepInv, InhibitsSleep, ExitInv, HostUsable

LEMMA OrdinaryKeeps == ASSUME DevInv, Ordinary PROVE DevInv'
  <1>1. CASE Untouched
    BY <1>1, UntouchedKeeps
  <1>2. CASE GivenBack /\ UNCHANGED <<hostDead, sus, exiting, cbCalled, sleeps, abort>>
    BY <1>2, GivenBackKeeps DEF DevInv, DevShape, ExitInv
  <1>3. QED
    BY <1>1, <1>2 DEF Ordinary

LEMMA CloseStartsKeeps ==
    ASSUME DevInv, NEW who \in {"suspend", "exit"}, NEW left \in BOOLEAN, CloseStarts(who, left),
           hostDead' = hostDead, exiting' \in BOOLEAN,
           (exiting' = exiting /\ who # "exit") \/ (exiting' = TRUE /\ ~exiting),
           sus' \in [waiting : BOOLEAN, inhib : BOOLEAN, timeout : BOOLEAN]
    PROVE  DevInv'
  <1>1. closeTask' # "none" /\ closeTask' = who /\ UNCHANGED <<slot, hasId, hostId, cbCalled>>
    BY DEF CloseStarts
  <1>2. DevShape'
    BY <1>1 DEF DevInv, DevShape, CloseStarts
  <1>3. KnowsItsHost'
    BY <1>1 DEF DevInv, KnowsItsHost, Slot
  <1>4. SleepInv'
    BY <1>1 DEF SleepInv, InhibitsSleep
  <1>5. ExitInv'
    BY <1>1 DEF DevInv, ExitInv
  <1>6. QED
    BY <1>2, <1>3, <1>4, <1>5 DEF DevInv

LEMMA OpenKeeps ==
    ASSUME DevInv, Idle, NEW a, open_device(a)
    PROVE  DevInv'
  <1>1. DevShape /\ KnowsItsHost
    BY DEF DevInv
  <1>2. /\ ~hasId /\ UNCHANGED <<sus, exiting, cbCalled>>
        /\ closeTask' \in {closeTask, "none"}
        /\ slot' \in [{"hidraw"} -> [id : Nat, st : SlotStates]]
        /\ \/ /\ hasId' = TRUE /\ hostDead' = FALSE /\ inhib' = TRUE /\ closeTimeout' = closeTimeout
              /\ slot'["hidraw"] = [id |-> hostId', st |-> "held"]
           \/ hasId' = FALSE /\ inhib' = FALSE /\ closeTimeout' = FALSE /\ hostDead' = hostDead
    BY <1>1, Opens
  <1>3. DevShape'
    BY <1>1, <1>2 DEF DevShape
  <1>4. exiting' = FALSE /\ ExitInv'
    BY <1>1, <1>2 DEF Idle, DevInv, DevShape, ExitInv
  <1>5. CASE hasId' = TRUE
    <2>1. inhib' = TRUE /\ slot'["hidraw"].id = hostId' /\ slot'["hidraw"].st = "held"
      BY <1>2, <1>5
    <2>2. QED
      BY <1>3, <1>4, <2>1 DEF DevInv, KnowsItsHost, SleepInv, InhibitsSleep, Slot
  <1>6. CASE hasId' = FALSE
    BY <1>3, <1>4, <1>6 DEF DevInv, KnowsItsHost, SleepInv, InhibitsSleep, HostUsable
  <1>7. QED
    BY <1>2, <1>5, <1>6

LEMMA HostDiedKeeps == ASSUME DevInv, host_died_signal_cb PROVE DevInv'
  <1>1. CASE /\ UNCHANGED <<launcherVars, libVars, devVars, closeVars, sleepVars, sleeps, abort>>
    <2>1. Untouched
      BY <1>1 DEF Untouched, launcherVars, libVars, devVars, closeVars, sleepVars
    <2>2. QED
      BY <2>1, UntouchedKeeps
  <1>2. CASE hostDead' = TRUE /\ CloseReturns
    <2>1. GivenBack
      BY <1>2, Disposes DEF CloseReturns, DevInv
    <2>2. UNCHANGED <<exiting, sus>> /\ (~exiting' => ~cbCalled')
      BY <1>2 DEF CloseReturns, TaskReturns, DevInv, ExitInv
    <2>3. QED
      BY <1>2, <2>1, <2>2, GivenBackKeeps DEF DevInv, DevShape
  <1>3. CASE /\ hostDead' = TRUE
             /\ UNCHANGED <<launcherVars, libVars, hasId, hostId, closeVars, sleepVars, abort>>
    <2>1. UNCHANGED <<slot, hasId, hostId, inhib, closeTask, closeTimeout, sus, exiting, cbCalled>>
      BY <1>3 DEF launcherVars, libVars, closeVars, sleepVars
    <2>2. QED
      BY <1>3, <2>1 DEF DevInv, DevShape, KnowsItsHost, SleepInv, InhibitsSleep, ExitInv,
                        HostUsable, Slot
  <1>4. QED
    BY <1>1, <1>2, <1>3 DEF host_died_signal_cb

LEMMA ShutdownTimeoutKeeps == ASSUME DevInv, shutdown_timeout_cb PROVE DevInv'
  <1>1. GivenBack
    BY Disposes DEF shutdown_timeout_cb, CloseReturns, DevInv
  <1>2. UNCHANGED <<exiting, sus, hostDead>> /\ (~exiting' => ~cbCalled')
    BY DEF shutdown_timeout_cb, CloseReturns, TaskReturns, DevInv, ExitInv
  <1>3. QED
    BY <1>1, <1>2, GivenBackKeeps DEF DevInv, DevShape

LEMMA EnsureClosedKeeps == ASSUME DevInv, ensure_closed PROVE DevInv'
  <1>1. ~exiting /\ exiting' = TRUE /\ UNCHANGED <<hostDead, sus>>
    BY DEF ensure_closed
  <1>2. CASE close_device("exit", FALSE, inhib)
    <2>1. GivenBack \/ CloseStarts("exit", inhib)
      BY <1>2, Closes DEF DevInv
    <2>2. QED
      BY <1>1, <2>1, GivenBackKeeps, CloseStartsKeeps DEF DevInv, DevShape
  <1>3. CASE ~hasId /\ UNCHANGED <<launcherVars, hasId, hostId, closeVars, inhib>>
    <2>1. ~hasId /\ UNCHANGED <<slot, hasId, closeTimeout, inhib>>
      BY <1>3 DEF launcherVars, closeVars
    <2>2. QED
      BY <1>1, <2>1 DEF DevInv, DevShape, KnowsItsHost, SleepInv, InhibitsSleep, ExitInv, HostUsable
  <1>4. QED
    BY <1>2, <1>3 DEF ensure_closed

LEMMA StartsKeeps == ASSUME DevInv, PluginStarts PROVE DevInv'
  <1>1. /\ hasId' = FALSE /\ exiting' = FALSE /\ hostDead' = FALSE /\ inhib' = FALSE
        /\ cbCalled' = FALSE /\ closeTask' = "none" /\ closeTimeout' = FALSE /\ sus' = NoSuspend /\ slot' = slot
    BY DEF PluginStarts, launcherVars
  <1>2. QED
    BY <1>1 DEF DevInv, DevShape, KnowsItsHost, SleepInv, InhibitsSleep, ExitInv, HostUsable,
                NoSuspend

LEMMA SuspendDevKeeps ==
    ASSUME DevInv, NEW valid \in BOOLEAN, NEW left \in BOOLEAN, suspend_dev(valid, left),
           UNCHANGED <<hostDead, exiting>>,
           sus' \in [waiting : BOOLEAN, inhib : BOOLEAN, timeout : BOOLEAN]
    PROVE  DevInv'
  <1>1. CASE close_device("suspend", valid, left)
    <2>1. GivenBack \/ CloseStarts("suspend", left)
      BY <1>1, Closes DEF DevInv
    <2>2. ~exiting' => ~cbCalled'
      BY <1>1 DEF close_device, TaskReturns, DevInv, ExitInv
    <2>3. /\ hostDead' \in BOOLEAN /\ exiting' \in BOOLEAN /\ "suspend" \in {"suspend", "exit"}
          /\ (exiting' = exiting /\ "suspend" # "exit") \/ (exiting' = TRUE /\ ~exiting)
      BY DEF DevInv, DevShape
    <2>4. CASE GivenBack
      BY <2>2, <2>3, <2>4, GivenBackKeeps
    <2>5. CASE CloseStarts("suspend", left)
      BY <2>3, <2>5, CloseStartsKeeps
    <2>6. QED
      BY <2>1, <2>4, <2>5
  <1>2. CASE ~HostUsable /\ inhib' = left /\ UNCHANGED <<launcherVars, hasId, hostId, closeVars, cbCalled>>
    <2>1. UNCHANGED <<slot, hasId, hostId, closeTask, closeTimeout, hostDead, exiting, cbCalled>>
      BY <1>2 DEF launcherVars, closeVars
    <2>2. ~HostUsable'
      BY <1>2, <2>1 DEF HostUsable
    <2>3. DevShape'
      BY <1>2, <2>1 DEF DevInv, DevShape
    <2>4. QED
      BY <2>1, <2>2, <2>3 DEF DevInv, KnowsItsHost, SleepInv, InhibitsSleep, ExitInv, Slot
  <1>3. QED
    BY <1>1, <1>2 DEF suspend_dev

LEMMA SuspendSignalKeeps == ASSUME DevInv, suspend_signal_cb PROVE DevInv'
  <1>1. exiting' = exiting
    BY DEF suspend_signal_cb, libVars
  <1>2. CASE action # "none"
    <2>1. /\ ~sus.waiting /\ inhib' = FALSE
          /\ sus' = [waiting |-> TRUE, inhib |-> inhib, timeout |-> TRUE]
          /\ UNCHANGED <<slot, hasId, hostId, hostDead, closeTask, closeTimeout, cbCalled>>
      BY <1>2 DEF suspend_signal_cb, launcherVars, devVars, closeVars
    <2>2. DevShape' /\ sus'.waiting = TRUE /\ sus'.inhib = inhib
      BY <1>1, <2>1 DEF DevInv, DevShape
    <2>3. SleepInv'
      BY <2>1, <2>2 DEF DevInv, SleepInv, InhibitsSleep, HostUsable
    <2>4. QED
      BY <1>1, <2>1, <2>2, <2>3 DEF DevInv, KnowsItsHost, ExitInv, Slot
  <1>3. CASE action = "none"
    <2>1. suspend_dev(inhib, FALSE) /\ UNCHANGED <<hostDead, sus>>
      BY <1>3 DEF suspend_signal_cb
    <2>2. inhib \in BOOLEAN /\ sus' \in [waiting : BOOLEAN, inhib : BOOLEAN, timeout : BOOLEAN]
      BY <2>1 DEF DevInv, DevShape
    <2>3. QED
      BY <1>1, <2>1, <2>2, SuspendDevKeeps
  <1>4. QED
    BY <1>2, <1>3

LEMMA SuspendMonitorKeeps == ASSUME DevInv, suspend_monitor_cb PROVE DevInv'
  <1>1. sus.waiting /\ sus' = NoSuspend /\ UNCHANGED <<hostDead, exiting>>
    BY DEF suspend_monitor_cb, libVars
  <1>2. sus' \in [waiting : BOOLEAN, inhib : BOOLEAN, timeout : BOOLEAN] /\ ~sus'.waiting
    BY <1>1 DEF NoSuspend
  <1>3. CASE suspend_dev(TRUE, inhib)
    <2>1. inhib \in BOOLEAN
      BY DEF DevInv, DevShape
    <2>2. QED
      BY <1>1, <1>2, <1>3, <2>1, SuspendDevKeeps
  <1>4. CASE ~sus.inhib /\ UNCHANGED <<launcherVars, cbCalled, hasId, hostId, closeVars, inhib>>
    <2>1. UNCHANGED <<slot, cbCalled, hasId, hostId, closeTask, closeTimeout, inhib>>
      BY <1>4 DEF launcherVars, closeVars
    <2>2. SleepInv'
      BY <1>1, <1>2, <1>4, <2>1 DEF DevInv, SleepInv, InhibitsSleep, HostUsable
    <2>3. QED
      BY <1>1, <1>2, <2>1, <2>2 DEF DevInv, DevShape, KnowsItsHost, ExitInv, Slot
  <1>5. QED
    BY <1>3, <1>4 DEF suspend_monitor_cb

LEMMA SuspendTimeoutKeeps == ASSUME DevInv, suspend_timeout_cb PROVE DevInv'
  <1>1. /\ sus' = [sus EXCEPT !.timeout = FALSE]
        /\ UNCHANGED <<hostDead, exiting, cbCalled, closeTask, closeTimeout, inhib>>
    BY DEF suspend_timeout_cb, libVars, closeVars
  <1>2. sus' \in [waiting : BOOLEAN, inhib : BOOLEAN, timeout : BOOLEAN]
    BY <1>1 DEF DevInv, DevShape
  <1>3. hasId' = FALSE
    BY DEF suspend_timeout_cb, DevInv, DevShape
  <1>4. slot' \in [{"hidraw"} -> [id : Nat, st : SlotStates]]
    <2>1. CASE hasId
      BY <2>1, Killed DEF suspend_timeout_cb, KillHost, DevInv
    <2>2. CASE ~hasId
      BY <2>2 DEF suspend_timeout_cb, launcherVars, DevInv, DevShape
    <2>3. QED
      BY <2>1, <2>2
  <1>5. DevShape'
    BY <1>1, <1>2, <1>3, <1>4 DEF DevInv, DevShape
  <1>6. QED
    BY <1>1, <1>3, <1>5 DEF DevInv, KnowsItsHost, SleepInv, InhibitsSleep, ExitInv, HostUsable

LEMMA NoticesKeeps == ASSUME DevInv, LauncherNotices PROVE DevInv'
  <1>1. UNCHANGED <<hasId, hostId, hostDead, inhib, closeTask, closeTimeout, sus, exiting, cbCalled>>
    BY DEF LauncherNotices, libVars, devVars, closeVars, sleepVars
  <1>2. Launcher!Die("hidraw")
    BY DEF LauncherNotices
  <1>3. /\ slot' \in [{"hidraw"} -> [id : Nat, st : SlotStates]]
        /\ slot'["hidraw"] = [id |-> Slot.id, st |-> "dead"]
    BY <1>2 DEF DevInv, DevShape, SlotStates, Slot, Launcher!Die, Launcher!Free
  <1>4. DevShape'
    BY <1>1, <1>3 DEF DevInv, DevShape
  <1>5. SleepInv' /\ ExitInv'
    BY <1>1 DEF DevInv, SleepInv, InhibitsSleep, ExitInv, HostUsable
  <1>6. QED
    BY <1>1, <1>3, <1>4, <1>5 DEF DevInv, KnowsItsHost, Slot

-----------------------------------------------------------------------------
LEMMA InitDev == Init => DevInv
  <1> SUFFICES ASSUME Init PROVE DevInv
    OBVIOUS
  <1>1. PluginInit
    BY DEF Init
  <1>2. slot = [p \in {"hidraw"} |-> [id |-> 0, st |-> "free"]]
    BY <1>1 DEF PluginInit, Launcher!Init, Launcher!Free
  <1>3. /\ hasId = FALSE /\ exiting = FALSE /\ hostDead = FALSE /\ inhib = FALSE
        /\ cbCalled = FALSE /\ closeTask = "none" /\ closeTimeout = FALSE /\ sus = NoSuspend
    BY <1>1 DEF PluginInit
  <1>4. DevShape
    BY <1>2, <1>3 DEF DevShape, NoSuspend, SlotStates
  <1>5. QED
    BY <1>3, <1>4 DEF DevInv, KnowsItsHost, SleepInv, InhibitsSleep, ExitInv, HostUsable

(* The calls and callbacks that treat the device in an ordinary way.       *)
LEMMA OrdinarySteps ==
    ASSUME DevInv,
           \/ init_host_proc \/ sock_ready \/ RecvError \/ RecvTimeout
           \/ LibfprintCalls
    PROVE  \/ Ordinary
           \/ Idle /\ \E a \in {"probe", "open"} : open_device(a)
  <1>1. CASE init_host_proc
    BY <1>1, InitHost DEF DevInv
  <1>2. CASE sock_ready
    BY <1>2, Receives DEF DevInv
  <1>3. CASE RecvError \/ RecvTimeout
    BY <1>3, Fails DEF DevInv, RecvError, RecvTimeout
  <1>4. CASE fpi_device_tudor_probe
    BY <1>4 DEF fpi_device_tudor_probe
  <1>5. CASE fpi_device_tudor_open
    <2>1. CASE open_device("open")
      BY <1>5, <2>1 DEF fpi_device_tudor_open
    <2>2. CASE ~open_device("open")
      BY <1>5, <2>2 DEF fpi_device_tudor_open, Ordinary, Untouched, launcherVars, devVars,
                        closeVars, sleepVars
    <2>3. QED
      BY <2>1, <2>2
  <1>6. CASE LibfprintCalls /\ ~fpi_device_tudor_probe /\ ~fpi_device_tudor_open
    BY <1>6, QuietCalls DEF LibfprintCalls, Ordinary
  <1>7. QED
    BY <1>1, <1>2, <1>3, <1>4, <1>5, <1>6

LEMMA StepKeepsDev == ASSUME DevInv, [Next]_vars PROVE DevInv'
  <1>1. CASE UNCHANGED pluginVars
    BY <1>1, HostKeepsDevice, UntouchedKeeps
  <1>2. CASE LauncherNotices
    BY <1>2, NoticesKeeps
  <1>3. CASE init_host_proc \/ sock_ready \/ RecvError \/ RecvTimeout \/ LibfprintCalls
    BY <1>3, OrdinarySteps, OrdinaryKeeps, OpenKeeps
  <1>4. CASE \/ host_died_signal_cb \/ shutdown_timeout_cb \/ suspend_monitor_cb
             \/ suspend_timeout_cb \/ suspend_signal_cb \/ ensure_closed
    BY <1>4, HostDiedKeeps, ShutdownTimeoutKeeps, SuspendMonitorKeeps, SuspendTimeoutKeeps,
       SuspendSignalKeeps, EnsureClosedKeeps
  <1>5. CASE FprintdExits \/ FprintdRestarts
    BY <1>5, StartsKeeps DEF FprintdExits, FprintdRestarts
  <1>6. QED
    BY <1>1, <1>2, <1>3, <1>4, <1>5 DEF Next, PluginNext, MainLoop, vars

LEMMA DevInvHolds == Spec => []DevInv
  <1>1. QED
    BY InitDev, StepKeepsDev, PTL DEF Spec

(* The module never takes for its own a host that the launcher does not     *)
(* hold for it: no death, failed open, timeout, suspend, exit or restart of *)
(* fprintd leaves it with the id of a host that was given up or replaced    *)
(* (open.c:10-76, suspend.c:70-81).                                         *)
THEOREM SystemKnowsItsHost == Spec => []KnowsItsHost
  <1>1. DevInv => KnowsItsHost
    BY DEF DevInv
  <1>2. QED
    BY <1>1, DevInvHolds, PTL

(* The machine never suspends under a host that may be used: its module has *)
(* an inhibitor, or a suspend that waits will close the device, or a close  *)
(* is under way (suspend.c:97-99, open.c:275).                              *)
THEOREM SystemInhibitsSleep == Spec => []InhibitsSleep
  <1>1. DevInv => InhibitsSleep
    BY DEF DevInv, SleepInv
  <1>2. QED
    BY <1>1, DevInvHolds, PTL

-----------------------------------------------------------------------------
(* Nobody but the module reaches a host of the launcher.                   *)
Reachable == Slot.st # "free" => hasId

LEMMA OrdinaryReaches ==
    ASSUME DevInv, Reachable,
           \/ Ordinary
           \/ Idle /\ \E a \in {"probe", "open"} : open_device(a)
    PROVE  Reachable' \/ Forgets
  <1>1. CASE Untouched
    BY <1>1 DEF Reachable, Slot, Untouched
  <1>2. CASE GivenBack
    BY <1>2 DEF Reachable, Slot, GivenBack
  <1>3. CASE \E a \in {"probe", "open"} : open_device(a)
    <2>1. \/ hasId' = TRUE
          \/ ~hasId /\ (Slot.st = "free" => slot'["hidraw"].st = "free")
          \/ Forgets
      BY <1>3, Opens DEF DevInv
    <2>2. QED
      BY <2>1 DEF Reachable, Slot
  <1>4. QED
    BY <1>1, <1>2, <1>3 DEF Ordinary

LEMMA CloseReaches ==
    ASSUME DevInv, Reachable,
           \/ ensure_closed \/ suspend_signal_cb \/ suspend_monitor_cb \/ shutdown_timeout_cb
           \/ host_died_signal_cb
    PROVE  Reachable'
  <1>1. CASE GivenBack
    BY <1>1 DEF Reachable, Slot, GivenBack
  <1>2. CASE UNCHANGED <<slot, hasId>>
    BY <1>2 DEF Reachable, Slot
  <1>3. ASSUME NEW who, NEW valid, NEW left, close_device(who, valid, left)
        PROVE  GivenBack \/ UNCHANGED <<slot, hasId>>
    BY <1>3, Closes DEF DevInv, CloseStarts
  <1>4. ASSUME NEW valid, NEW left, suspend_dev(valid, left)
        PROVE  GivenBack \/ UNCHANGED <<slot, hasId>>
    BY <1>3, <1>4 DEF suspend_dev, launcherVars
  <1>5. CASE ensure_closed \/ suspend_signal_cb \/ suspend_monitor_cb
    BY <1>1, <1>2, <1>3, <1>4, <1>5 DEF ensure_closed, suspend_signal_cb, suspend_monitor_cb,
                                        launcherVars, devVars
  <1>6. CASE CloseReturns
    BY <1>1, <1>6, Disposes DEF CloseReturns, DevInv
  <1>7. QED
    BY <1>2, <1>5, <1>6 DEF shutdown_timeout_cb, host_died_signal_cb, launcherVars, devVars

LEMMA StepReaches ==
    ASSUME DevInv, Reachable, abort = "none", [Next]_vars
    PROVE  Reachable' \/ Forgets
  <1>1. CASE UNCHANGED pluginVars
    BY <1>1, HostKeepsDevice DEF Reachable, Slot, Untouched
  <1>2. CASE LauncherNotices
    <2>1. Slot.st = "held" /\ hasId' = hasId
      BY <1>2 DEF LauncherNotices, devVars, Launcher!Die, Slot, DevInv, DevShape, SlotStates
    <2>2. QED
      BY <2>1 DEF Reachable
  <1>3. CASE init_host_proc \/ sock_ready \/ RecvError \/ RecvTimeout \/ LibfprintCalls
    BY <1>3, OrdinarySteps, OrdinaryReaches
  <1>4. CASE \/ ensure_closed \/ suspend_signal_cb \/ suspend_monitor_cb \/ shutdown_timeout_cb
             \/ host_died_signal_cb
    BY <1>4, CloseReaches
  <1>5. CASE suspend_timeout_cb
    <2>1. CASE hasId
      BY <1>5, <2>1, Killed DEF suspend_timeout_cb, KillHost, DevInv, Reachable, Slot
    <2>2. CASE ~hasId
      <3>1. UNCHANGED <<slot, hasId>>
        BY <1>5, <2>2 DEF suspend_timeout_cb, launcherVars
      <3>2. QED
        BY <3>1 DEF Reachable, Slot
    <2>3. QED
      BY <2>1, <2>2
  <1>6. CASE FprintdExits
    <2>1. ~hasId /\ slot' = slot
      BY <1>6 DEF FprintdExits, PluginStarts, launcherVars, DevInv, ExitInv
    <2>2. QED
      BY <2>1 DEF Reachable, Slot
  <1>7. QED
    BY <1>1, <1>2, <1>3, <1>4, <1>5, <1>6 DEF Next, PluginNext, MainLoop, FprintdRestarts, vars

LEMMA HoldsIsReachable == DevInv => (HoldsItsHost <=> Reachable)
  BY DEF DevInv, KnowsItsHost, HoldsItsHost, Reachable

(* The module loses a host it holds in two ways only: an assertion takes    *)
(* fprintd down, and the next fprintd knows nothing of that host            *)
(* (suspend.h:13, open.c:350, ipc.c:284), or the open that started the host *)
(* gets no descriptor for it (ipc.c:274-276).  No other failed open, death, *)
(* timeout, close, suspend or exit does.                                    *)
THEOREM SystemStrandsNoHost == Spec => StrandsNoHost
  <1> DEFINE Kept == HoldsItsHost => \/ HoldsItsHost'
                                     \/ abort # "none"
                                     \/ issued' # issued /\ ~hasId' /\ "no_fd" \in Events
  <1>1. DevInv /\ DevInv' /\ [Next]_vars => [Kept]_vars
    <2> SUFFICES ASSUME DevInv, DevInv', [Next]_vars, HoldsItsHost, abort = "none", ~Forgets
                 PROVE  HoldsItsHost'
      BY DEF Forgets
    <2>1. Reachable
      BY HoldsIsReachable
    <2>2. Reachable'
      BY <2>1, StepReaches
    <2>3. QED
      BY <2>2 DEF DevInv, KnowsItsHost, HoldsItsHost, Reachable
  <1>2. QED
    BY <1>1, DevInvHolds, PTL DEF Spec, StrandsNoHost

-----------------------------------------------------------------------------
(* Without a suspend.                                                      *)
LEMMA CalmStep ==
    ASSUME MaxSleeps = 0, DevInv, CalmInv, [Next]_vars
    PROVE  CalmInv'
  <1>a. abort = "none" /\ sleeps = 0 /\ ~sus.waiting /\ closeTask # "suspend" /\ (closeTimeout => exiting)
    BY DEF CalmInv
  <1>1. CASE UNCHANGED pluginVars
    BY <1>1, <1>a, HostKeepsDevice DEF CalmInv, Untouched
  <1>2. CASE LauncherNotices
    BY <1>2, <1>a DEF LauncherNotices, CalmInv, libVars, closeVars, sleepVars
  <1>3. CASE init_host_proc \/ sock_ready \/ RecvError \/ RecvTimeout \/ LibfprintCalls
    <2>1. CASE Ordinary
      BY <1>a, <2>1 DEF Ordinary, Untouched, GivenBack, CalmInv
    <2>2. CASE \E a \in {"probe", "open"} : open_device(a)
      BY <1>a, <2>2, Opens DEF DevInv, CalmInv
    <2>3. QED
      BY <1>3, <2>1, <2>2, OrdinarySteps
  <1>4. CASE ensure_closed
    <2>1. exiting' = TRUE /\ ~exiting /\ UNCHANGED <<sus, sleeps>>
      BY <1>4 DEF ensure_closed
    <2>2. CASE close_device("exit", FALSE, inhib)
      <3>1. \/ GivenBack /\ TaskReturns("exit", FALSE)
            \/ CloseStarts("exit", inhib)
        BY <2>2, Closes DEF DevInv
      <3>2. closeTask' # "suspend" /\ abort' = abort
        BY <1>a, <2>1, <3>1 DEF GivenBack, TaskReturns, CloseStarts
      <3>3. QED
        BY <1>a, <2>1, <3>2 DEF CalmInv
    <2>3. CASE UNCHANGED <<closeVars, abort>>
      BY <1>a, <2>1, <2>3 DEF CalmInv, closeVars
    <2>4. QED
      BY <1>4, <2>2, <2>3 DEF ensure_closed
  <1>5. CASE shutdown_timeout_cb \/ host_died_signal_cb
    <2>1. CASE CloseReturns
      <3>1. GivenBack /\ UNCHANGED <<sus, sleeps>> /\ TaskReturns(closeTask, closeInhib)
        BY <2>1, Disposes DEF CloseReturns, DevInv
      <3>2. closeTask' = "none" /\ closeTimeout' = FALSE /\ abort' = abort
        BY <1>a, <3>1 DEF GivenBack, TaskReturns
      <3>3. QED
        BY <1>a, <3>1, <3>2 DEF CalmInv
    <2>2. CASE UNCHANGED <<libVars, closeVars, sleepVars, sleeps, abort>>
      BY <1>a, <2>2 DEF CalmInv, libVars, closeVars, sleepVars
    <2>3. QED
      BY <1>5, <2>1, <2>2 DEF shutdown_timeout_cb, host_died_signal_cb
  <1>6. CASE suspend_monitor_cb \/ suspend_timeout_cb \/ suspend_signal_cb
    <2>1. sus.waiting \/ sleeps < MaxSleeps
      BY <1>6 DEF suspend_monitor_cb, suspend_timeout_cb, suspend_signal_cb
    <2>2. QED
      BY <1>a, <2>1
  <1>7. CASE FprintdExits
    BY <1>7, <1>a DEF FprintdExits, PluginStarts, CalmInv, NoSuspend
  <1>8. QED
    BY <1>1, <1>2, <1>3, <1>4, <1>5, <1>6, <1>7, <1>a
       DEF Next, PluginNext, MainLoop, FprintdRestarts, vars

(* Unless the machine suspends or a descriptor cannot be taken, the module  *)
(* has a host id exactly while the launcher has that host in its table: no  *)
(* crash, other failed open, timeout or exit of fprintd leaves a host that  *)
(* nobody can reach (open.c:11).                                            *)
THEOREM SystemHoldsItsHost ==
    ASSUME MaxSleeps = 0, "no_fd" \notin Events
    PROVE  Spec => []HoldsItsHost
  <1> DEFINE Inv == DevInv /\ CalmInv /\ Reachable
  <1>1. Init => Inv
    <2>1. ASSUME Init PROVE CalmInv /\ Reachable
      <3>1. PluginInit
        BY <2>1 DEF Init
      <3>2. CalmInv
        BY <3>1 DEF PluginInit, CalmInv, NoSuspend
      <3>3. slot["hidraw"].st = "free"
        BY <3>1 DEF PluginInit, Launcher!Init, Launcher!Free
      <3>4. QED
        BY <3>2, <3>3 DEF Reachable, Slot
    <2>2. QED
      BY <2>1, InitDev
  <1>2. Inv /\ [Next]_vars => Inv'
    <2> SUFFICES ASSUME Inv, [Next]_vars PROVE Inv'
      OBVIOUS
    <2>1. abort = "none"
      BY DEF CalmInv
    <2>2. QED
      BY <2>1, StepKeepsDev, CalmStep, StepReaches DEF Forgets
  <1>3. Inv => HoldsItsHost
    BY HoldsIsReachable
  <1>4. QED
    BY <1>1, <1>2, <1>3, PTL DEF Spec

-----------------------------------------------------------------------------
(***************************************************************************)
(* The conversation between the libfprint module and its host.  As long as *)
(* nothing is cancelled, the machine does not suspend, no answer comes     *)
(* late and no descriptor is lost, it is one of questions and answers: at  *)
(* most one request is under way, and what the host has to say belongs to  *)
(* the action that asked.  Hosts may crash and fprintd may exit at any     *)
(* time.                                                                   *)
(***************************************************************************)

Undisturbed == MaxCancels = 0 /\ MaxSleeps = 0 /\ {"slow", "no_fd"} \cap Events = {}

Live == proc \in {"spawned", "running"}

-----------------------------------------------------------------------------
Proper(q) == q \in Seq(Range(q))

LinkInv == Proper(toHost) /\ Proper(toPlugin)

(* The module knows of a host's death only after the death.                *)
DeathInv ==
    /\ hasId => sock /\ proc \in {"spawned", "running", "dead"}
    /\ ~hasId => proc = "none"
    /\ Slot.st = "dead" => proc = "dead"
    /\ hasId /\ hostDead => proc = "dead"
    /\ \A i \in DOMAIN signals :
          signals[i] \in issued /\ (hasId /\ signals[i] = hostId => proc = "dead")

(* HostDied signals are of hosts the launcher started, and the device is   *)
(* closed only when fprintd exits.                                         *)
WatchInv ==
    /\ heard \in Nat /\ signals \in Seq(Nat)
    /\ Slot.st # "free" => Slot.id \in issued
    /\ closeTask # "none" => exiting

(* The receives that an action may wait for. *)
Fits(on, a) ==
    /\ on = "init" => a \in {"probe", "open"}
    /\ on = "probe" => a = "probe"
    /\ on = "add" => a \in {"verify", "identify"}
    /\ on \in {"start", "resp"} => a \in {"enroll", "verify", "identify"}
    /\ on = "del" => a = "delete"
    /\ on = "clear" => a = "clear"

RecvKinds == {"none", "init", "probe", "add", "start", "resp", "del", "clear"}

(* A receive belongs to the action under way; while fprintd is not exiting, *)
(* it is of the socket of the host, and cancelled only when that is dead.   *)
RecvInv ==
    /\ recv \in [on : RecvKinds, stale : BOOLEAN, cancelled : BOOLEAN]
    /\ Fits(recv.on, action)
    /\ inOpen \in BOOLEAN
    /\ inOpen => ~exiting /\ hasId /\ recv.on = "none" /\ action \in {"probe", "open"}
    /\ ~exiting => /\ ~recv.stale
                   /\ recv.cancelled => proc = "dead"
                   /\ ~hasId => recv.on = "none"
    /\ userCancelled = FALSE /\ hasCanceled = FALSE /\ cancels = 0

-----------------------------------------------------------------------------
(* Where the conversation is: the phases of an open and of each action.    *)
Silent   == toHost = <<>> /\ toPlugin = <<>>
HostIdle == proc = "running" /\ hpc = "loop" /\ asyncRes = "none"

One(q)   == q # <<>> /\ q = <<q[1]>>
Is(q, t) == One(q) /\ q[1].type = t

(* The host starts and has not read INIT.                                  *)
Fresh == proc = "running" => hpc = "recv_init" /\ asyncRes = "none"

Opening == inOpen /\ Silent /\ Fresh

Question(t, u) == \/ Is(toHost, t) /\ toPlugin = <<>>
                  \/ toHost = <<>> /\ Is(toPlugin, u)

Initialising ==
    /\ recv.on = "init" /\ ~inOpen /\ action \in {"probe", "open"}
    /\ \/ Is(toHost, "INIT") /\ toPlugin = <<>> /\ Fresh
       \/ /\ proc = "running" /\ asyncRes = "none"
          /\ \/ hpc = "open" /\ Silent
             \/ hpc = "load_pdata" /\ Question("RESP_LOAD_PDATA", "LOAD_PDATA")
             \/ hpc = "store_pdata" /\ Question("ACK", "STORE_PDATA")
             \/ hpc = "loop" /\ toHost = <<>> /\ Is(toPlugin, "READY")

Asking ==
    /\ HostIdle /\ ~inOpen
    /\ \/ recv.on = "probe" /\ action = "probe" /\ Question("PROBE", "RESP_PROBE")
       \/ recv.on = "add" /\ action \in {"verify", "identify"} /\ Question("ADD_RECORD", "ACK")
       \/ recv.on = "del" /\ action = "delete" /\ Question("DEL_RECORD", "ACK")
       \/ recv.on = "clear" /\ action = "clear" /\ Question("CLEAR_RECORDS", "ACK")

(* The answers q to a capture: an enrollment may ask for more captures     *)
(* before it ends.                                                         *)
More   == {Msg("RESP_ENROLL", a) : a \in {"retry", "more"}}
Finals == {Msg("RESP_ENROLL", a) : a \in {"done", "duplicate"}}

Capturing == /\ proc = "running"
             /\ actionKind = action /\ ~cancelled
             /\ \/ hpc = "loop" /\ asyncRes = "armed"
                \/ hpc = "set_callback" /\ asyncRes \in {"started", "early"}

(* The last capture was committed and its answer is due. *)
Committing(q) == /\ proc = "running" /\ hpc = "committed" /\ asyncRes = "none"
                 /\ action = "enroll" /\ q \in Seq(More)

Streaming(q) == /\ Capturing
                /\ hpc = "set_callback" => ~ackAfter
                /\ q \in Seq(More)
                /\ action # "enroll" => q = <<>>

Ended(q) == /\ HostIdle
            /\ action # "enroll" => One(q)
            /\ action = "enroll" => /\ q \in Seq(More \cup Finals) /\ q # <<>>
                                    /\ \A i \in 1..Len(q) : q[i] \in Finals <=> i = Len(q)

Answered(q) == Streaming(q) \/ Committing(q) \/ Ended(q)

StartType(a) == CASE a = "enroll" -> "ENROLL" [] a = "verify" -> "VERIFY" [] OTHER -> "IDENTIFY"

CaptureTalk ==
    /\ ~inOpen /\ action \in {"enroll", "verify", "identify"}
    /\ \/ /\ recv.on = "start" /\ HostIdle
          /\ Is(toHost, StartType(action)) /\ toPlugin = <<>>
       \/ /\ recv.on = "start" /\ Silent
          /\ Capturing /\ hpc = "set_callback" /\ ackAfter
       \/ /\ recv.on = "start" /\ toHost = <<>>
          /\ toPlugin # <<>> /\ toPlugin[1] = ACK
          /\ Answered(Tail(toPlugin))
       \/ recv.on = "resp" /\ toHost = <<>> /\ Answered(toPlugin)

Resting == /\ recv.on = "none" /\ ~inOpen /\ action = "none"
           /\ Silent /\ HostIdle

Phase == Opening \/ Initialising \/ Asking \/ CaptureTalk \/ Resting

TalkInv == hasId /\ Live /\ ~exiting => Phase

(* The DLL is enrolling only during the capture of an enrollment.          *)
EnrollingInv ==
    proc = "running" /\ enrolling /\ ~DiscardFails => InAction /\ actionKind = "enroll"

-----------------------------------------------------------------------------
IsDone(m) == m.type = "RESP_ENROLL" /\ m.arg = "done"

(* The enrollment under way is of the one print of the gallery.            *)
EnrollInv ==
    action = "enroll" /\ recv.on \in {"start", "resp"} =>
        /\ \A i \in DOMAIN toHost : \/ toHost[i].type = "SHUTDOWN"
                                    \/ toHost[i].type = "ENROLL" /\ gallery = {toHost[i].arg}
        /\ proc = "running" /\ InAction /\ actionKind = "enroll" => gallery = {enrollRec}
        /\ proc = "running" /\ hpc = "committed" => gallery \subseteq sensor
        /\ \A i \in DOMAIN toPlugin : IsDone(toPlugin[i]) => gallery \subseteq sensor

KeptInv == ~DiscardFails => ProtocolKept

ProtocolInv == LinkInv /\ DeathInv /\ RecvInv /\ TalkInv /\ EnrollingInv /\ EnrollInv /\ KeptInv

-----------------------------------------------------------------------------
(* Sequences of messages.                                                  *)

LEMMA OneMessage ==
    \A m : /\ Append(<<>>, m) = <<m>> /\ Head(<<m>>) = m /\ Tail(<<m>>) = <<>>
           /\ <<m>> # <<>> /\ <<m>>[1] = m /\ <<>> \in Seq({})
  OBVIOUS

LEMMA ProperTail ==
    ASSUME NEW q, Proper(q), q # <<>>
    PROVE  /\ Proper(Tail(q)) /\ Head(q) = q[1] /\ 1 \in DOMAIN q
           /\ \A i \in DOMAIN Tail(q) : i + 1 \in DOMAIN q /\ Tail(q)[i] = q[i+1]
  <1>1. q \in Seq(Range(q))
    BY DEF Proper
  <1>2. Tail(q) \in Seq(Range(q)) /\ Head(q) = q[1] /\ 1 \in DOMAIN q
    BY <1>1
  <1>3. Proper(Tail(q))
    BY <1>2, SeqOfRange DEF Proper
  <1>4. \A i \in DOMAIN Tail(q) : i + 1 \in DOMAIN q /\ Tail(q)[i] = q[i+1]
    BY <1>1
  <1>5. QED
    BY <1>2, <1>3, <1>4

LEMMA ProperAppend ==
    ASSUME NEW q, Proper(q), NEW m
    PROVE  /\ Proper(Append(q, m))
           /\ \A i \in DOMAIN Append(q, m) : \/ Append(q, m)[i] = m
                                             \/ i \in DOMAIN q /\ Append(q, m)[i] = q[i]
  <1> DEFINE T == Range(q) \cup {m}
  <1>1. q \in Seq(T)
    BY SeqMonotonic DEF Proper
  <1>2. Append(q, m) \in Seq(T)
    BY <1>1
  <1>3. Proper(Append(q, m))
    BY <1>2, SeqOfRange DEF Proper
  <1>4. \A i \in DOMAIN Append(q, m) : \/ Append(q, m)[i] = m
                                       \/ i \in DOMAIN q /\ Append(q, m)[i] = q[i]
    BY <1>1
  <1>5. QED
    BY <1>3, <1>4

LEMMA ProperEmpty == Proper(<<>>)
  BY DEF Proper, Range

-----------------------------------------------------------------------------
(* What a step of the host may do, and what no step of it does: it reads   *)
(* one message and sends one, deletes a template only when asked to, says  *)
(* that a print is enrolled only when it commits it, and enrolls the print *)
(* it was asked to.                                                        *)
Enrolls == InAction /\ actionKind = "enroll"

HostEffect ==
    /\ Live /\ proc' \in {"running", "dead"}
    /\ \/ toHost' = toHost
       \/ toHost # <<>> /\ toHost' = Tail(toHost)
    /\ \/ toPlugin' = toPlugin
       \/ \E m : /\ toPlugin' = Append(toPlugin, m)
                 /\ IsDone(m) => proc = "running" /\ hpc = "committed"
    /\ proc' = "running" /\ hpc' = "committed" =>
          \/ proc = "running" /\ hpc = "committed"
          \/ proc = "running" /\ Enrolls /\ sensor' = sensor \cup {enrollRec}
    /\ \/ sensor \subseteq sensor'
       \/ toHost # <<>> /\ Head(toHost).type \in {"DEL_RECORD", "CLEAR_RECORDS"}
    /\ proc' = "running" /\ Enrolls' =>
          \/ proc = "running" /\ Enrolls /\ enrollRec' = enrollRec
          \/ toHost # <<>> /\ Head(toHost).type = "ENROLL" /\ enrollRec' = Head(toHost).arg
    /\ EnrollingInv => EnrollingInv'

LEMMA EndEffect ==
    ASSUME NEW why, Ends(why), proc = "running",
           \/ toHost' = toHost
           \/ toHost # <<>> /\ toHost' = Tail(toHost),
           toPlugin' = toPlugin \/ toPlugin' = Append(toPlugin, ACK)
    PROVE  HostEffect
  <1>1. proc' = "dead" /\ sensor' = sensor
    BY DEF Ends
  <1>2. ~IsDone(ACK)
    BY DEF ACK, IsDone, Plain, Msg
  <1>3. EnrollingInv'
    BY <1>1 DEF EnrollingInv
  <1>4. QED
    BY <1>1, <1>2, <1>3 DEF HostEffect, Live

(* The steps that leave the capture and the sensor alone.                  *)
LEMMA TalkEffect ==
    ASSUME proc = "running", proc' = "running", hpc' # "committed" \/ hpc' = hpc,
           UNCHANGED <<asyncRes, actionKind, enrolling, enrollRec, sensor>>,
           \/ toHost' = toHost
           \/ toHost # <<>> /\ toHost' = Tail(toHost),
           \/ toPlugin' = toPlugin
           \/ \E m : toPlugin' = Append(toPlugin, m) /\ m.type # "RESP_ENROLL"
    PROVE  HostEffect
  <1>1. \A m : IsDone(m) => m.type = "RESP_ENROLL"
    BY DEF IsDone, Msg
  <1>2. EnrollingInv => EnrollingInv'
    BY DEF EnrollingInv, InAction
  <1>3. QED
    BY <1>1, <1>2 DEF HostEffect, Live, Enrolls, InAction

LEMMA OpenEffect == ASSUME proc = "running", main_open PROVE HostEffect
  <1>1. ASSUME NEW type, NEW nextPc, nextPc # "committed", NEW cached,
               RecvExpected(type, nextPc, cached)
        PROVE  HostEffect
    <2>1. CASE Ends("type")
      BY <1>1, <2>1, EndEffect DEF RecvExpected, Consume
    <2>2. CASE ~Ends("type")
      BY <1>1, <2>2, TalkEffect DEF RecvExpected, Consume, captureVars, enrollVars
    <2>3. QED
      BY <2>1, <2>2
  <1>2. ASSUME NEW t, t # "RESP_ENROLL", HostSends(Plain(t)), hpc' # "committed",
               UNCHANGED <<toHost, proc, captureVars, enrollVars, sensor>>
        PROVE  HostEffect
    BY <1>2, TalkEffect DEF HostSends, Plain, Msg, captureVars, enrollVars
  <1>3. CASE recv_init_msg
    BY <1>1, <1>3 DEF recv_init_msg
  <1>4. CASE get_pdata_cb
    BY <1>1, <1>2, <1>4 DEF get_pdata_cb
  <1>5. CASE set_pdata_cb
    BY <1>1, <1>2, <1>5 DEF set_pdata_cb
  <1>6. CASE OpenReturns
    <2>1. CASE Ends("open_failed") /\ UNCHANGED <<toPlugin, toHost>>
      BY <2>1, EndEffect
    <2>2. CASE ~(Ends("open_failed") /\ UNCHANGED <<toPlugin, toHost>>)
      BY <1>2, <1>6, <2>2 DEF OpenReturns
    <2>3. QED
      BY <2>1, <2>2
  <1>7. QED
    BY <1>3, <1>4, <1>5, <1>6 DEF main_open

LEMMA MsgEffect == ASSUME proc = "running", handle_msg PROVE HostEffect
  <1>1. toHost # <<>>
    BY DEF handle_msg
  <1>2. CASE check_in_action \/ handle_unexpected
    BY <1>2, EndEffect DEF check_in_action, handle_unexpected
  <1>3. CASE handle_SHUTDOWN
    BY <1>3, TalkEffect DEF handle_SHUTDOWN, Accepts, Consume, captureVars, enrollVars
  <1>4. CASE handle_PROBE
    BY <1>4, TalkEffect DEF handle_PROBE, Accepts, Consume, HostSends, Plain, Msg, hostVars,
                            hostLocal, captureVars, enrollVars
  <1>5. CASE handle_CANCEL
    BY <1>5, TalkEffect DEF handle_CANCEL, Consume, HostSends, ACK, Plain, Msg, enrollVars
  <1>6. CASE handle_ADD_RECORD
    BY <1>6, TalkEffect DEF handle_ADD_RECORD, Accepts, Consume, HostSends, ACK, Plain, Msg,
                            hostVars, hostLocal, captureVars, enrollVars
  <1>7. ASSUME NEW recs, WipeRecords(recs), Consume,
               Head(toHost).type \in {"DEL_RECORD", "CLEAR_RECORDS"}
        PROVE  HostEffect
    <2>1. /\ toHost' = Tail(toHost) /\ proc' = proc
          /\ UNCHANGED <<hpc, asyncRes, actionKind, enrolling, enrollRec>>
          /\ toPlugin' = Append(toPlugin, ACK)
      BY <1>7 DEF WipeRecords, Consume, HostSends, hostLocal, captureVars, enrollVars
    <2>2. ~IsDone(ACK)
      BY DEF ACK, IsDone, Plain, Msg
    <2>3. EnrollingInv => EnrollingInv'
      BY <2>1 DEF EnrollingInv, InAction
    <2>4. QED
      BY <1>1, <1>7, <2>1, <2>2, <2>3 DEF HostEffect, Live, Enrolls, InAction
  <1>8. CASE handle_DEL_RECORD \/ handle_CLEAR_RECORDS
    BY <1>7, <1>8 DEF handle_DEL_RECORD, handle_CLEAR_RECORDS, Accepts
  <1>9. CASE handle_ENROLL
    <2>1. Head(toHost).type = "ENROLL" /\ toHost' = Tail(toHost) /\ toPlugin' = toPlugin
      BY <1>9 DEF handle_ENROLL, Accepts, Consume
    <2>2. CASE Ends("enrolling") \/ Ends("start")
      BY <1>1, <2>1, <2>2, EndEffect
    <2>3. CASE ~(Ends("enrolling") \/ Ends("start"))
      <3>1. /\ enrollRec' = Head(toHost).arg /\ UNCHANGED <<proc, sensor>>
            /\ asyncRes' = "started" /\ actionKind' = "enroll" /\ hpc' = "set_callback"
        BY <1>9, <2>3 DEF handle_ENROLL, StartCapture
      <3>2. EnrollingInv'
        BY <3>1 DEF EnrollingInv, InAction
      <3>3. QED
        BY <1>1, <2>1, <3>1, <3>2 DEF HostEffect, Live
    <2>4. QED
      BY <2>2, <2>3
  <1>10. ASSUME NEW type, NEW kind \in {"verify", "identify"}, StartIdentify(type, kind)
         PROVE  HostEffect
    <2>1. toHost' = Tail(toHost) /\ toPlugin' = toPlugin
      BY <1>10 DEF StartIdentify, Accepts, Consume
    <2>2. CASE Ends("enrolling") \/ Ends("start")
      BY <1>1, <2>1, <2>2, EndEffect
    <2>3. CASE ~(Ends("enrolling") \/ Ends("start"))
      <3>1. /\ ~enrolling /\ UNCHANGED <<proc, sensor, enrolling, enrollRec>>
            /\ asyncRes' = "started" /\ actionKind' = kind /\ hpc' = "set_callback"
        BY <1>10, <2>3 DEF StartIdentify, StartCapture, enrollVars
      <3>2. EnrollingInv'
        BY <3>1 DEF EnrollingInv
      <3>3. QED
        BY <1>1, <2>1, <3>1, <3>2 DEF HostEffect, Live, Enrolls
    <2>4. QED
      BY <2>2, <2>3
  <1>11. CASE handle_VERIFY \/ handle_IDENTIFY
    BY <1>10, <1>11 DEF handle_VERIFY, handle_IDENTIFY
  <1>12. QED
    BY <1>2, <1>3, <1>4, <1>5, <1>6, <1>8, <1>9, <1>11 DEF handle_msg

LEMMA CallbackEffect ==
    ASSUME proc = "running",
           \/ tudor_set_async_callback \/ CompletesEarly \/ CaptureCallback \/ EnrollAnswers
    PROVE  HostEffect
  <1>1. CASE tudor_set_async_callback
    <2>1. CASE Ends("reentrance") /\ UNCHANGED <<toPlugin, toHost>>
      BY <2>1, EndEffect
    <2>2. CASE ~(Ends("reentrance") /\ UNCHANGED <<toPlugin, toHost>>)
      <3>1. /\ asyncRes = "started" /\ asyncRes' = "armed" /\ hpc' = "loop"
            /\ UNCHANGED <<toHost, proc, actionKind, enrolling, enrollRec, sensor>>
            /\ toPlugin' = toPlugin \/ toPlugin' = Append(toPlugin, ACK)
        BY <1>1, <2>2 DEF tudor_set_async_callback, HostSends, enrollVars
      <3>2. ~IsDone(ACK)
        BY DEF ACK, IsDone, Plain, Msg
      <3>3. EnrollingInv => EnrollingInv'
        BY <3>1 DEF EnrollingInv, InAction
      <3>4. QED
        BY <3>1, <3>2, <3>3 DEF HostEffect, Live, Enrolls, InAction
    <2>3. QED
      BY <2>1, <2>2
  <1>2. CASE CompletesEarly
    <2>1. /\ asyncRes = "started" /\ asyncRes' = "early"
          /\ UNCHANGED <<toHost, toPlugin, proc, hpc, actionKind, enrolling, enrollRec, sensor>>
      BY <1>2 DEF CompletesEarly, ipcVars, enrollVars
    <2>2. EnrollingInv => EnrollingInv'
      BY <2>1 DEF EnrollingInv, InAction
    <2>3. QED
      BY <2>1, <2>2 DEF HostEffect, Live, Enrolls, InAction
  <1>3. CASE enroll_cb
    <2>1. hpc = "loop" /\ asyncRes = "armed" /\ actionKind = "enroll" /\ toHost' = toHost
      BY <1>3 DEF enroll_cb, Completed
    <2>2. CASE \/ Ends("discard") /\ HostSends(ACK)
               \/ Ends("commit") /\ UNCHANGED toPlugin
               \/ Ends("start") /\ UNCHANGED toPlugin
      BY <2>1, <2>2, EndEffect DEF HostSends
    <2>3. CASE CancelledResponds /\ enrolling' = FALSE /\ UNCHANGED <<enrollRec, captureFails, sensor>>
      <3>1. proc' = proc /\ hpc' = hpc /\ asyncRes' = "none" /\ toPlugin' = Append(toPlugin, ACK)
        BY <2>3 DEF CancelledResponds, Responds, NoMoreCapture, HostSends
      <3>2. ~IsDone(ACK)
        BY DEF ACK, IsDone, Plain, Msg
      <3>3. EnrollingInv'
        BY <2>3 DEF EnrollingInv
      <3>4. QED
        BY <2>1, <2>3, <3>1, <3>2, <3>3 DEF HostEffect, Live, Enrolls, InAction
    <2>4. CASE /\ asyncRes' = "none" /\ enrolling' = FALSE
               /\ sensor' = sensor \cup {enrollRec} /\ UNCHANGED <<proc, toPlugin>>
      <3>1. EnrollingInv'
        BY <2>4 DEF EnrollingInv
      <3>2. QED
        BY <2>1, <2>4, <3>1 DEF HostEffect, Live, Enrolls, InAction
    <2>5. CASE /\ Responds(Msg("RESP_ENROLL", "duplicate"))
               /\ enrolling' \in IF DiscardFails THEN BOOLEAN ELSE {FALSE}
               /\ UNCHANGED <<enrollRec, captureFails, sensor>>
      <3>1. /\ proc' = proc /\ hpc' = hpc /\ asyncRes' = "none"
            /\ toPlugin' = Append(toPlugin, Msg("RESP_ENROLL", "duplicate"))
        BY <2>5 DEF Responds, NoMoreCapture, HostSends
      <3>2. ~IsDone(Msg("RESP_ENROLL", "duplicate"))
        BY DEF IsDone, Msg
      <3>3. EnrollingInv'
        BY <2>5 DEF EnrollingInv
      <3>4. QED
        BY <2>1, <2>5, <3>1, <3>2, <3>3 DEF HostEffect, Live, Enrolls, InAction
    <2>6. CASE /\ StartCapture("enroll", FALSE)
               /\ \E a \in {"more", "retry"} : HostSends(Msg("RESP_ENROLL", a))
               /\ UNCHANGED <<proc, captureFails, enrollVars, cachedPdata, sensor, fault>>
      <3>1. /\ asyncRes' = "started" /\ actionKind' = "enroll" /\ UNCHANGED <<enrolling, enrollRec>>
            /\ hpc' = "set_callback"
            /\ \E a \in {"more", "retry"} : toPlugin' = Append(toPlugin, Msg("RESP_ENROLL", a))
        BY <2>6 DEF StartCapture, HostSends, enrollVars
      <3>2. \A a \in {"more", "retry"} : ~IsDone(Msg("RESP_ENROLL", a))
        BY DEF IsDone, Msg
      <3>3. EnrollingInv'
        BY <3>1 DEF EnrollingInv, InAction
      <3>4. QED
        BY <2>1, <2>6, <3>1, <3>2, <3>3 DEF HostEffect, Live, Enrolls, InAction
    <2>7. QED
      BY <1>3, <2>2, <2>3, <2>4, <2>5, <2>6 DEF enroll_cb, EnrollCancelled, EnrollDone, EnrollAgain
  <1>4. ASSUME NEW kind \in {"verify", "identify"}, NEW type \in {"RESP_VERIFY", "RESP_IDENTIFY"},
               NEW results, IdentifyCallback(kind, type, results)
        PROVE  HostEffect
    <2>1. /\ hpc = "loop" /\ asyncRes = "armed" /\ actionKind = kind
          /\ UNCHANGED <<toHost, enrolling, enrollRec, sensor>>
      BY <1>4 DEF IdentifyCallback, Completed, enrollVars
    <2>2. CASE Ends("captures") /\ UNCHANGED toPlugin
      BY <2>1, <2>2, EndEffect
    <2>3. ASSUME NEW m, Responds(m), m.type # "RESP_ENROLL"
          PROVE  HostEffect
      <3>1. proc' = proc /\ hpc' = hpc /\ asyncRes' = "none" /\ toPlugin' = Append(toPlugin, m)
        BY <2>3 DEF Responds, NoMoreCapture, HostSends
      <3>2. ~IsDone(m)
        BY <2>3 DEF IsDone, Msg
      <3>3. EnrollingInv => EnrollingInv'
        BY <2>1, <3>1 DEF EnrollingInv
      <3>4. QED
        BY <2>1, <3>1, <3>2, <3>3 DEF HostEffect, Live, Enrolls, InAction
    <2>4. ACK.type # "RESP_ENROLL" /\ \A a : Msg(type, a).type # "RESP_ENROLL"
      BY DEF ACK, Plain, Msg
    <2>5. QED
      BY <1>4, <2>2, <2>3, <2>4 DEF IdentifyCallback, CancelledResponds, Captured, BadCapture,
                                    CaptureError
  <1>5. CASE verify_via_identify_cb \/ identify_cb
    BY <1>4, <1>5 DEF verify_via_identify_cb, identify_cb
  <1>6. CASE EnrollAnswers
    <2>1. CASE Ends("answer") /\ UNCHANGED <<toPlugin, toHost>>
      BY <2>1, EndEffect
    <2>2. CASE ~(Ends("answer") /\ UNCHANGED <<toPlugin, toHost>>)
      <3>1. /\ hpc = "committed" /\ hpc' = "loop"
            /\ UNCHANGED <<toHost, proc, asyncRes, actionKind, enrolling, enrollRec, sensor>>
            /\ toPlugin' = Append(toPlugin, Msg("RESP_ENROLL", "done"))
        BY <1>6, <2>2 DEF EnrollAnswers, HostSends, captureVars, enrollVars
      <3>2. EnrollingInv => EnrollingInv'
        BY <3>1 DEF EnrollingInv, InAction
      <3>3. QED
        BY <3>1, <3>2 DEF HostEffect, Live, Enrolls, InAction
    <2>3. QED
      BY <2>1, <2>2
  <1>7. QED
    BY <1>1, <1>2, <1>3, <1>5, <1>6 DEF CaptureCallback

LEMMA HostEffects ==
    ASSUME HostBoot \/ HostSteps \/ HostCrash
    PROVE  HostEffect
  <1>1. CASE HostBoot
    <2>1. /\ proc = "spawned" /\ proc' = "running" /\ asyncRes' = "none" /\ enrolling' = FALSE
          /\ hpc' = "recv_init"
          /\ UNCHANGED <<toHost, toPlugin, sensor>>
      BY <1>1 DEF HostBoot
    <2>2. EnrollingInv'
      BY <2>1 DEF EnrollingInv
    <2>3. QED
      BY <2>1, <2>2 DEF HostEffect, Live, Enrolls, InAction
  <1>2. CASE HostCrash
    BY <1>2, EndEffect DEF HostCrash
  <1>3. CASE HostSteps
    <2>1. proc = "running"
      BY <1>3 DEF HostSteps
    <2>2. CASE main_close
      BY <2>1, <2>2, EndEffect DEF main_close
    <2>3. QED
      BY <1>3, <2>1, <2>2, OpenEffect, MsgEffect, CallbackEffect DEF HostSteps
  <1>4. QED
    BY <1>1, <1>2, <1>3

(* The parts of the invariant that every such step keeps.                  *)
LEMMA HostKeeps ==
    ASSUME LinkInv, DeathInv, RecvInv, EnrollingInv, EnrollInv, HostEffect, UNCHANGED pluginVars
    PROVE  LinkInv' /\ DeathInv' /\ RecvInv' /\ EnrollingInv' /\ EnrollInv'
  <1>1. UNCHANGED <<slot, issued, signals, hasId, hostId, hostDead, sock, recv, inOpen, exiting, action,
                    userCancelled, hasCanceled, cancels, gallery>>
    BY DEF pluginVars, launcherVars, libVars, actionVars, devVars
  <1>2. LinkInv'
    <2>1. Proper(toHost')
      BY ProperTail DEF LinkInv, HostEffect
    <2>2. Proper(toPlugin')
      <3>1. CASE toPlugin' = toPlugin
        BY <3>1 DEF LinkInv
      <3>2. CASE toPlugin' # toPlugin
        <4>1. PICK m : toPlugin' = Append(toPlugin, m)
          BY <3>2 DEF HostEffect
        <4>2. QED
          BY <4>1, ProperAppend DEF LinkInv
      <3>3. QED
        BY <3>1, <3>2
    <2>3. QED
      BY <2>1, <2>2 DEF LinkInv
  <1>3. DeathInv'
    BY <1>1 DEF DeathInv, HostEffect, Live, Slot
  <1>4. RecvInv'
    BY <1>1 DEF RecvInv, HostEffect, Live
  <1>5. EnrollInv'
    <2> SUFFICES ASSUME action = "enroll", recv.on \in {"start", "resp"}
                 PROVE  /\ \A i \in DOMAIN toHost' :
                              \/ toHost'[i].type = "SHUTDOWN"
                              \/ toHost'[i].type = "ENROLL" /\ gallery = {toHost'[i].arg}
                        /\ proc' = "running" /\ InAction' /\ actionKind' = "enroll" =>
                              gallery = {enrollRec'}
                        /\ proc' = "running" /\ hpc' = "committed" => gallery \subseteq sensor'
                        /\ \A i \in DOMAIN toPlugin' :
                              IsDone(toPlugin'[i]) => gallery \subseteq sensor'
      BY <1>1 DEF EnrollInv
    <2>1. \A i \in DOMAIN toHost : \/ toHost[i].type = "SHUTDOWN"
                                   \/ toHost[i].type = "ENROLL" /\ gallery = {toHost[i].arg}
      BY DEF EnrollInv
    <2>2. proc = "running" /\ Enrolls => gallery = {enrollRec}
      BY DEF EnrollInv, Enrolls
    <2>3. /\ \A i \in DOMAIN toPlugin : IsDone(toPlugin[i]) => gallery \subseteq sensor
          /\ proc = "running" /\ hpc = "committed" => gallery \subseteq sensor
      BY DEF EnrollInv, IsDone
    <2>4. toHost # <<>> => Head(toHost) = toHost[1] /\ 1 \in DOMAIN toHost
      BY ProperTail DEF LinkInv
    <2>5. sensor \subseteq sensor'
      BY <2>1, <2>4 DEF HostEffect
    <2>6. \A i \in DOMAIN toHost' : \/ toHost'[i].type = "SHUTDOWN"
                                    \/ toHost'[i].type = "ENROLL" /\ gallery = {toHost'[i].arg}
      BY <2>1, ProperTail DEF HostEffect, LinkInv
    <2>7. proc' = "running" /\ Enrolls' => gallery = {enrollRec'}
      BY <2>1, <2>2, <2>4 DEF HostEffect
    <2>8. \A i \in DOMAIN toPlugin' : IsDone(toPlugin'[i]) => gallery \subseteq sensor'
      <3>1. CASE toPlugin' = toPlugin
        BY <2>3, <2>5, <3>1
      <3>2. CASE toPlugin' # toPlugin
        <4>1. PICK m : /\ toPlugin' = Append(toPlugin, m)
                       /\ IsDone(m) => proc = "running" /\ hpc = "committed"
          BY <3>2 DEF HostEffect
        <4>2. \A i \in DOMAIN toPlugin' : \/ toPlugin'[i] = m
                                          \/ i \in DOMAIN toPlugin /\ toPlugin'[i] = toPlugin[i]
          BY <4>1, ProperAppend DEF LinkInv
        <4>3. IsDone(m) => gallery \subseteq sensor'
          BY <2>3, <2>5, <4>1
        <4>4. QED
          BY <2>3, <2>5, <4>2, <4>3
      <3>3. QED
        BY <3>1, <3>2
    <2>9. proc' = "running" /\ hpc' = "committed" => gallery \subseteq sensor'
      BY <2>2, <2>3, <2>5 DEF HostEffect
    <2>10. QED
      BY <2>6, <2>7, <2>8, <2>9 DEF Enrolls, IsDone
  <1>6. QED
    BY <1>2, <1>3, <1>4, <1>5 DEF HostEffect

-----------------------------------------------------------------------------
(* The host's side of the conversation.                                    *)
BadFaults == {"type", "unexpected", "in_action", "enrolling"}

LEMMA OneFacts ==
    ASSUME NEW q, One(q)
    PROVE  q # <<>> /\ Head(q) = q[1] /\ Tail(q) = <<>>
  <1>1. q = <<q[1]>>
    BY DEF One
  <1>2. Head(<<q[1]>>) = q[1] /\ Tail(<<q[1]>>) = <<>>
    BY OneMessage
  <1>3. QED
    BY <1>1, <1>2 DEF One

LEMMA SentFirst ==
    ASSUME NEW t, NEW a, NEW q, q = Append(<<>>, Msg(t, a))
    PROVE  Is(q, t) /\ q[1] = Msg(t, a)
  <1>1. q = <<Msg(t, a)>> /\ q[1] = Msg(t, a) /\ q # <<>>
    BY OneMessage
  <1>2. QED
    BY <1>1 DEF Is, One, Msg

(* What the module sees of its own state does not change under the host.   *)
LEMMA PluginStill ==
    ASSUME UNCHANGED pluginVars
    PROVE  UNCHANGED <<recv, inOpen, action, hasId, exiting>>
  BY DEF pluginVars, actionVars, devVars, libVars

LEMMA BootTalks ==
    ASSUME Phase, HostBoot, UNCHANGED pluginVars
    PROVE  proc' = "running" /\ Phase'
  <1>1. /\ proc = "spawned" /\ proc' = "running" /\ hpc' = "recv_init" /\ asyncRes' = "none"
        /\ UNCHANGED <<toHost, toPlugin>>
    BY DEF HostBoot
  <1>2. UNCHANGED <<recv, inOpen, action>>
    BY PluginStill
  <1>3. Opening \/ Initialising
    BY <1>1 DEF Phase, Asking, HostIdle, CaptureTalk, Capturing, Answered, Streaming, Committing, Ended, Resting
  <1>4. CASE Opening
    BY <1>1, <1>2, <1>4 DEF Opening, Silent, Fresh, Phase
  <1>5. CASE Initialising
    BY <1>1, <1>2, <1>5 DEF Initialising, Is, One, Fresh, Phase
  <1>6. QED
    BY <1>1, <1>3, <1>4, <1>5

LEMMA OpenTalks ==
    ASSUME Phase, proc = "running", main_open, UNCHANGED pluginVars
    PROVE  \/ proc' = "dead" /\ fault' \notin BadFaults
           \/ proc' = "running" /\ Phase'
  <1>1. UNCHANGED <<recv, inOpen, action>>
    BY PluginStill
  <1>2. hpc \in {"recv_init", "open", "load_pdata", "store_pdata"}
    BY DEF main_open, recv_init_msg, get_pdata_cb, set_pdata_cb, OpenReturns
  <1>3. \/ inOpen /\ toHost = <<>> /\ hpc = "recv_init"
        \/ Initialising
    BY <1>2 DEF Phase, Opening, Silent, Fresh, Asking, HostIdle, CaptureTalk, Capturing, Answered,
                Streaming, Committing, Ended, Resting
  <1>4. CASE inOpen /\ toHost = <<>> /\ hpc = "recv_init"
    BY <1>4 DEF main_open, recv_init_msg, get_pdata_cb, set_pdata_cb, OpenReturns, RecvExpected,
                Consume
  <1>5. CASE Initialising
    <2>0. recv.on = "init" /\ ~inOpen /\ action \in {"probe", "open"}
      BY <1>5 DEF Initialising
    <2>a. ASSUME NEW type, NEW nextPc, NEW cached, RecvExpected(type, nextPc, cached), Is(toHost, type)
          PROVE  /\ toHost' = <<>> /\ hpc' = nextPc
                 /\ UNCHANGED <<proc, toPlugin, asyncRes>>
      BY <2>a, OneFacts DEF RecvExpected, Consume, Is, captureVars
    <2>1. CASE hpc = "recv_init"
      <3>1. Is(toHost, "INIT") /\ toPlugin = <<>> /\ asyncRes = "none"
        BY <1>5, <2>1 DEF Initialising, Fresh
      <3>2. RecvExpected("INIT", "open", cachedPdata)
        BY <2>1 DEF main_open, recv_init_msg, get_pdata_cb, set_pdata_cb, OpenReturns
      <3>3. /\ toHost' = <<>> /\ hpc' = "open" /\ proc' = "running" /\ toPlugin' = <<>>
            /\ asyncRes' = "none"
        BY <3>1, <3>2, <2>a
      <3>4. QED
        BY <1>1, <2>0, <3>3 DEF Initialising, Silent, Phase
    <2>2. CASE hpc = "load_pdata"
      <3>1. RecvExpected("RESP_LOAD_PDATA", "open", TRUE)
        BY <2>2 DEF main_open, recv_init_msg, get_pdata_cb, set_pdata_cb, OpenReturns
      <3>2. toHost # <<>>
        BY <3>1 DEF RecvExpected, Consume
      <3>3. Is(toHost, "RESP_LOAD_PDATA") /\ toPlugin = <<>> /\ asyncRes = "none"
        BY <1>5, <2>2, <3>2 DEF Initialising, Fresh, Question, Silent
      <3>4. /\ toHost' = <<>> /\ hpc' = "open" /\ proc' = "running" /\ toPlugin' = <<>>
            /\ asyncRes' = "none"
        BY <3>1, <3>3, <2>a
      <3>5. QED
        BY <1>1, <2>0, <3>4 DEF Initialising, Silent, Phase
    <2>3. CASE hpc = "store_pdata"
      <3>1. RecvExpected("ACK", "open", cachedPdata)
        BY <2>3 DEF main_open, recv_init_msg, get_pdata_cb, set_pdata_cb, OpenReturns
      <3>2. toHost # <<>>
        BY <3>1 DEF RecvExpected, Consume
      <3>3. Is(toHost, "ACK") /\ toPlugin = <<>> /\ asyncRes = "none"
        BY <1>5, <2>3, <3>2 DEF Initialising, Fresh, Question, Silent
      <3>4. /\ toHost' = <<>> /\ hpc' = "open" /\ proc' = "running" /\ toPlugin' = <<>>
            /\ asyncRes' = "none"
        BY <3>1, <3>3, <2>a
      <3>5. QED
        BY <1>1, <2>0, <3>4 DEF Initialising, Silent, Phase
    <2>4. CASE hpc = "open"
      <3>1. toHost = <<>> /\ toPlugin = <<>> /\ asyncRes = "none"
        BY <1>5, <2>4 DEF Initialising, Fresh, Silent
      <3>2. CASE Ends("open_failed")
        BY <3>2 DEF Ends, BadFaults
      <3>3. CASE ~Ends("open_failed")
        <4>1. /\ UNCHANGED <<toHost, proc, asyncRes>>
              /\ \/ hpc' = "load_pdata" /\ toPlugin' = Append(toPlugin, Msg("LOAD_PDATA", "none"))
                 \/ hpc' = "store_pdata" /\ toPlugin' = Append(toPlugin, Msg("STORE_PDATA", "none"))
                 \/ hpc' = "loop" /\ toPlugin' = Append(toPlugin, Msg("READY", "none"))
          BY <2>4, <3>3 DEF main_open, recv_init_msg, get_pdata_cb, set_pdata_cb, OpenReturns,
                            HostSends, Plain, captureVars
        <4>2. \/ hpc' = "load_pdata" /\ Is(toPlugin', "LOAD_PDATA")
              \/ hpc' = "store_pdata" /\ Is(toPlugin', "STORE_PDATA")
              \/ hpc' = "loop" /\ Is(toPlugin', "READY")
          BY <3>1, <4>1, SentFirst
        <4>3. toHost' = <<>> /\ proc' = "running" /\ asyncRes' = "none"
          BY <3>1, <4>1
        <4>4. Initialising'
          BY <1>1, <2>0, <4>2, <4>3 DEF Initialising, Question
        <4>5. QED
          BY <4>3, <4>4 DEF Phase
      <3>4. QED
        BY <3>2, <3>3
    <2>5. QED
      BY <1>2, <2>1, <2>2, <2>3, <2>4
  <1>6. QED
    BY <1>3, <1>4, <1>5

LEMMA MsgTalks ==
    ASSUME Phase, EnrollingInv, proc = "running", handle_msg, UNCHANGED pluginVars
    PROVE  \/ proc' = "dead" /\ (~DiscardFails => fault' \notin BadFaults)
           \/ proc' = "running" /\ Phase'
  <1>1. UNCHANGED <<recv, inOpen, action>>
    BY PluginStill
  <1>2. hpc = "loop" /\ toHost # <<>>
    BY DEF handle_msg
  <1>3. \/ Asking
        \/ /\ ~inOpen /\ action \in {"enroll", "verify", "identify"} /\ recv.on = "start"
           /\ HostIdle /\ Is(toHost, StartType(action)) /\ toPlugin = <<>>
    BY <1>2 DEF Phase, Opening, Silent, Fresh, Initialising, Question, CaptureTalk, Resting
  <1>4. HostIdle /\ ~inOpen
    BY <1>3 DEF Asking
  <1>5. ~InAction
    BY <1>4 DEF HostIdle, InAction
  <1>6. CASE Asking
    <2>1. PICK t \in {"PROBE", "ADD_RECORD", "DEL_RECORD", "CLEAR_RECORDS"} :
             /\ Is(toHost, t) /\ toPlugin = <<>>
             /\ t = "PROBE" => recv.on = "probe" /\ action = "probe"
             /\ t = "ADD_RECORD" => recv.on = "add" /\ action \in {"verify", "identify"}
             /\ t = "DEL_RECORD" => recv.on = "del" /\ action = "delete"
             /\ t = "CLEAR_RECORDS" => recv.on = "clear" /\ action = "clear"
      BY <1>2, <1>6 DEF Asking, Question
    <2>2. Head(toHost).type = t /\ Tail(toHost) = <<>>
      BY <2>1, OneFacts DEF Is
    <2>3. /\ toHost' = Tail(toHost) /\ UNCHANGED <<proc, hpc, asyncRes>>
          /\ toPlugin' = Append(toPlugin, Msg(IF t = "PROBE" THEN "RESP_PROBE" ELSE "ACK", "none"))
      BY <1>2, <1>5, <2>2 DEF handle_msg, check_in_action, handle_unexpected, IdleRequests,
                              handle_SHUTDOWN, handle_PROBE, handle_CANCEL, handle_ADD_RECORD,
                              handle_DEL_RECORD, handle_CLEAR_RECORDS, WipeRecords, handle_ENROLL,
                              handle_VERIFY, handle_IDENTIFY, StartIdentify, Accepts, Consume,
                              HostSends, Plain, ACK, hostVars, hostLocal, captureVars
    <2>4. Is(toPlugin', IF t = "PROBE" THEN "RESP_PROBE" ELSE "ACK")
      BY <2>1, <2>3, SentFirst
    <2>5. HostIdle' /\ proc' = "running" /\ toHost' = <<>>
      BY <1>4, <2>2, <2>3 DEF HostIdle
    <2>6. Asking'
      BY <1>1, <1>4, <2>1, <2>4, <2>5 DEF Asking, Question
    <2>7. QED
      BY <2>5, <2>6 DEF Phase
  <1>7. CASE /\ action \in {"enroll", "verify", "identify"} /\ recv.on = "start"
             /\ Is(toHost, StartType(action)) /\ toPlugin = <<>>
    <2>1. Head(toHost).type = StartType(action) /\ Tail(toHost) = <<>>
      BY <1>7, OneFacts DEF Is
    <2>2. /\ toPlugin' = toPlugin /\ toHost' = Tail(toHost)
          /\ \/ Ends("start")
             \/ enrolling /\ Ends("enrolling")
             \/ UNCHANGED proc /\ StartCapture(action, TRUE)
      BY <1>2, <1>5, <1>7, <2>1 DEF handle_msg, check_in_action, handle_unexpected, IdleRequests,
                                    handle_SHUTDOWN, handle_PROBE, handle_CANCEL, handle_ADD_RECORD,
                                    handle_DEL_RECORD, handle_CLEAR_RECORDS, handle_ENROLL,
                                    handle_VERIFY, handle_IDENTIFY, StartIdentify, Accepts, Consume,
                                    StartType
    <2>3. CASE Ends("start") \/ (enrolling /\ Ends("enrolling"))
      BY <1>5, <2>3 DEF Ends, BadFaults, EnrollingInv
    <2>4. CASE UNCHANGED proc /\ StartCapture(action, TRUE)
      <3>1. /\ toHost' = <<>> /\ toPlugin' = <<>> /\ proc' = "running" /\ hpc' = "set_callback"
            /\ ackAfter' = TRUE /\ asyncRes' = "started" /\ actionKind' = action
            /\ cancelled' = FALSE
        BY <1>7, <2>1, <2>2, <2>4 DEF StartCapture
      <3>2. Capturing'
        BY <1>1, <3>1 DEF Capturing
      <3>3. CaptureTalk'
        BY <1>1, <1>4, <1>7, <3>1, <3>2 DEF CaptureTalk, Silent
      <3>4. QED
        BY <3>1, <3>3 DEF Phase
    <2>5. QED
      BY <2>2, <2>3, <2>4
  <1>8. QED
    BY <1>3, <1>6, <1>7

(* Answers to a capture: the one more that the host sends, and the one the *)
(* module reads.                                                           *)
LEMMA StreamGrows ==
    ASSUME NEW q \in Seq(More)
    PROVE  /\ \A m \in More : Append(q, m) \in Seq(More)
           /\ \A m \in Finals : /\ Append(q, m) \in Seq(More \cup Finals) /\ Append(q, m) # <<>>
                                /\ \A i \in 1..Len(Append(q, m)) :
                                      Append(q, m)[i] \in Finals <=> i = Len(Append(q, m))
  <1>1. \A m \in More : m \notin Finals
    BY DEF More, Finals, Msg
  <1>2. ASSUME NEW m \in Finals
        PROVE  /\ Append(q, m) \in Seq(More \cup Finals) /\ Append(q, m) # <<>>
               /\ \A i \in 1..Len(Append(q, m)) :
                     Append(q, m)[i] \in Finals <=> i = Len(Append(q, m))
    <2>1. q \in Seq(More \cup Finals)
      BY SeqMonotonic
    <2>2. Len(Append(q, m)) = Len(q) + 1 /\ Append(q, m)[Len(q) + 1] = m
      OBVIOUS
    <2>3. \A i \in 1..Len(q) : Append(q, m)[i] = q[i] /\ q[i] \in More
      BY ElementOfSeq
    <2>4. Append(q, m) \in Seq(More \cup Finals) /\ Append(q, m) # <<>>
      BY <2>1
    <2>5. QED
      BY <1>1, <2>2, <2>3, <2>4
  <1>3. QED
    BY <1>2

LEMMA Prefixed ==
    ASSUME NEW q, Proper(q), q # <<>>, NEW m
    PROVE  /\ Tail(Append(q, m)) = Append(Tail(q), m)
           /\ Append(q, m) # <<>> /\ Append(q, m)[1] = q[1]
  <1> DEFINE T == Range(q) \cup {m}
  <1>1. q \in Seq(T)
    BY SeqMonotonic DEF Proper
  <1>2. QED
    BY <1>1, HeadTailAppend

LEMMA CallbackTalks ==
    ASSUME Phase, LinkInv, proc = "running", UNCHANGED pluginVars,
           tudor_set_async_callback \/ CompletesEarly \/ CaptureCallback
    PROVE  \/ proc' = "dead" /\ fault' \notin BadFaults
           \/ proc' = "running" /\ Phase'
  <1>1. UNCHANGED <<recv, inOpen, action>>
    BY PluginStill
  <1>2. \/ hpc = "set_callback"
        \/ hpc = "loop" /\ asyncRes = "armed"
    BY DEF tudor_set_async_callback, CompletesEarly, CaptureCallback, enroll_cb,
           verify_via_identify_cb, identify_cb, IdentifyCallback, Completed
  <1>3. /\ ~inOpen /\ action \in {"enroll", "verify", "identify"} /\ toHost = <<>>
        /\ Capturing
        /\ \/ recv.on = "start" /\ toPlugin = <<>> /\ hpc = "set_callback" /\ ackAfter
           \/ recv.on = "start" /\ toPlugin # <<>> /\ toPlugin[1] = ACK /\ Streaming(Tail(toPlugin))
           \/ recv.on = "resp" /\ Streaming(toPlugin)
    BY <1>2 DEF Phase, Opening, Fresh, Initialising, Asking, HostIdle, CaptureTalk, Silent,
                Answered, Streaming, Committing, Ended, Resting
  <1>4. actionKind = action /\ ~cancelled
    BY <1>3 DEF Capturing
  <1>5. CASE tudor_set_async_callback
    <2>1. hpc = "set_callback" /\ toHost' = toHost
      BY <1>5 DEF tudor_set_async_callback
    <2>2. CASE Ends("reentrance")
      BY <2>2 DEF Ends, BadFaults
    <2>3. CASE ~Ends("reentrance")
      <3>1. /\ hpc' = "loop" /\ asyncRes' = "armed" /\ UNCHANGED <<proc, actionKind, cancelled>>
            /\ IF ackAfter THEN toPlugin' = Append(toPlugin, ACK) ELSE toPlugin' = toPlugin
        BY <1>5, <2>3 DEF tudor_set_async_callback, HostSends
      <3>2. Capturing'
        BY <1>1, <1>4, <3>1 DEF Capturing
      <3>3. \A q : q \in Seq(More) /\ (action # "enroll" => q = <<>>) => Answered(q)'
        BY <1>1, <3>1, <3>2 DEF Streaming, Answered
      <3>4. CASE ackAfter
        <4>1. recv.on = "start" /\ toPlugin = <<>>
          BY <1>3, <2>1, <3>4 DEF Streaming
        <4>2. /\ toPlugin' = <<ACK>> /\ toPlugin' # <<>> /\ toPlugin'[1] = ACK
              /\ Tail(toPlugin') = <<>>
          BY <3>1, <3>4, <4>1, OneMessage
        <4>3. <<>> \in Seq(More)
          OBVIOUS
        <4>4. CaptureTalk'
          BY <1>1, <1>3, <2>1, <3>3, <4>1, <4>2, <4>3 DEF CaptureTalk
        <4>5. QED
          BY <3>1, <4>4 DEF Phase
      <3>5. CASE ~ackAfter
        <4>1. toPlugin' = toPlugin
          BY <3>1, <3>5
        <4>2. \A q : Streaming(q) => Answered(q)'
          BY <3>3 DEF Streaming
        <4>3. CaptureTalk'
          BY <1>1, <1>3, <2>1, <3>5, <4>1, <4>2 DEF CaptureTalk
        <4>4. QED
          BY <3>1, <4>3 DEF Phase
      <3>6. QED
        BY <3>4, <3>5
    <2>4. QED
      BY <2>2, <2>3
  <1>6. CASE CompletesEarly
    <2>1. /\ hpc = "set_callback" /\ asyncRes' = "early"
          /\ UNCHANGED <<toHost, toPlugin, proc, hpc, actionKind, cancelled, ackAfter>>
      BY <1>6 DEF CompletesEarly, ipcVars
    <2>2. Capturing'
      BY <1>1, <1>4, <2>1 DEF Capturing
    <2>3. \A q : Streaming(q) => Answered(q)'
      BY <1>1, <2>1, <2>2 DEF Streaming, Answered
    <2>4. CaptureTalk'
      BY <1>1, <1>3, <2>1, <2>2, <2>3 DEF CaptureTalk, Silent
    <2>5. QED
      BY <2>1, <2>4 DEF Phase
  <1>7. CASE CaptureCallback
    <2>1. hpc = "loop" /\ toHost' = toHost
      BY <1>7 DEF CaptureCallback, enroll_cb, verify_via_identify_cb, identify_cb, IdentifyCallback,
                  Completed
    <2>2. \/ /\ recv.on = "start" /\ toPlugin # <<>> /\ toPlugin[1] = ACK
             /\ Streaming(Tail(toPlugin))
          \/ recv.on = "resp" /\ Streaming(toPlugin)
      BY <1>3, <2>1
    (* What follows an answer m that the host sends. *)
    <2>3. ASSUME NEW m, toPlugin' = Append(toPlugin, m), proc' = proc,
                 \A q : Streaming(q) => Answered(Append(q, m))'
          PROVE  Phase'
      <3>1. CASE recv.on = "start"
        <4>1. Tail(toPlugin') = Append(Tail(toPlugin), m) /\ toPlugin' # <<>> /\ toPlugin'[1] = ACK
          BY <2>2, <2>3, <3>1, Prefixed DEF LinkInv
        <4>2. CaptureTalk'
          BY <1>1, <1>3, <2>1, <2>2, <2>3, <3>1, <4>1 DEF CaptureTalk
        <4>3. QED
          BY <4>2 DEF Phase
      <3>2. CASE recv.on = "resp"
        <4>1. CaptureTalk'
          BY <1>1, <1>3, <2>1, <2>2, <2>3, <3>2 DEF CaptureTalk
        <4>2. QED
          BY <4>1 DEF Phase
      <3>3. QED
        BY <2>2, <3>1, <3>2
    <2>4. CASE enroll_cb
      <3>1. action = "enroll"
        BY <1>4, <2>4 DEF enroll_cb, Completed
      <3>2. CASE Ends("commit") \/ Ends("start")
        BY <3>2 DEF Ends, BadFaults
      <3>3. ASSUME NEW m \in Finals, Responds(m)
            PROVE  proc' = "running" /\ Phase'
        <4>1. /\ toPlugin' = Append(toPlugin, m) /\ proc' = proc
              /\ hpc' = "loop" /\ asyncRes' = "none"
          BY <2>1, <3>3 DEF Responds, NoMoreCapture, HostSends
        <4>2. \A q : Streaming(q) => Answered(Append(q, m))'
          BY <1>1, <3>1, <4>1, StreamGrows DEF Streaming, Answered, Ended, HostIdle
        <4>3. QED
          BY <2>3, <4>1, <4>2
      <3>4. ASSUME NEW m \in More, HostSends(m), StartCapture("enroll", FALSE), UNCHANGED proc
            PROVE  proc' = "running" /\ Phase'
        <4>1. /\ toPlugin' = Append(toPlugin, m) /\ proc' = proc /\ hpc' = "set_callback"
              /\ asyncRes' = "started" /\ actionKind' = "enroll" /\ cancelled' = FALSE
              /\ ackAfter' = FALSE
          BY <3>4 DEF StartCapture, HostSends
        <4>2. Capturing'
          BY <1>1, <3>1, <4>1 DEF Capturing
        <4>3. \A q : Streaming(q) => Answered(Append(q, m))'
          BY <1>1, <3>1, <4>1, <4>2, StreamGrows DEF Streaming, Answered
        <4>4. QED
          BY <2>3, <4>1, <4>3
      <3>5. CASE hpc' = "committed" /\ asyncRes' = "none" /\ UNCHANGED <<toPlugin, proc>>
        <4>1. \A q : Streaming(q) => Answered(q)'
          BY <1>1, <3>1, <3>5 DEF Streaming, Answered, Committing
        <4>2. CaptureTalk'
          BY <1>1, <1>3, <2>1, <2>2, <3>5, <4>1 DEF CaptureTalk
        <4>3. QED
          BY <3>5, <4>2 DEF Phase
      <3>6. /\ Msg("RESP_ENROLL", "duplicate") \in Finals
            /\ \A a \in {"more", "retry"} : Msg("RESP_ENROLL", a) \in More
        BY DEF Finals, More
      <3>7. QED
        BY <1>4, <2>4, <3>2, <3>3, <3>4, <3>5, <3>6
           DEF enroll_cb, EnrollCancelled, CancelledResponds, EnrollDone, EnrollAgain
    <2>5. ASSUME NEW kind \in {"verify", "identify"}, NEW type, NEW results,
                 IdentifyCallback(kind, type, results)
          PROVE  \/ proc' = "dead" /\ fault' \notin BadFaults
                 \/ proc' = "running" /\ Phase'
      <3>1. action # "enroll"
        BY <1>4, <2>5 DEF IdentifyCallback, Completed
      <3>2. CASE Ends("captures")
        BY <3>2 DEF Ends, BadFaults
      <3>3. ASSUME NEW m, Responds(m)
            PROVE  proc' = "running" /\ Phase'
        <4>1. /\ toPlugin' = Append(toPlugin, m) /\ proc' = proc
              /\ hpc' = "loop" /\ asyncRes' = "none"
          BY <2>1, <3>3 DEF Responds, NoMoreCapture, HostSends
        <4>2. One(Append(<<>>, m))
          BY OneMessage DEF One
        <4>3. \A q : Streaming(q) => Answered(Append(q, m))'
          BY <1>1, <3>1, <4>1, <4>2 DEF Streaming, Answered, Ended, HostIdle
        <4>4. QED
          BY <2>3, <4>1, <4>3
      <3>4. QED
        BY <1>4, <2>5, <3>2, <3>3
           DEF IdentifyCallback, CancelledResponds, Captured, BadCapture, CaptureError
    <2>6. QED
      BY <1>7, <2>4, <2>5 DEF CaptureCallback, verify_via_identify_cb, identify_cb
  <1>8. QED
    BY <1>5, <1>6, <1>7

LEMMA AnswerTalks ==
    ASSUME Phase, LinkInv, proc = "running", UNCHANGED pluginVars, EnrollAnswers
    PROVE  \/ proc' = "dead" /\ fault' \notin BadFaults
           \/ proc' = "running" /\ Phase'
  <1>1. UNCHANGED <<recv, inOpen, action>>
    BY PluginStill
  <1>2. hpc = "committed" /\ toHost' = toHost
    BY DEF EnrollAnswers
  <1>3. /\ ~inOpen /\ action = "enroll" /\ toHost = <<>>
        /\ \/ recv.on = "start" /\ toPlugin # <<>> /\ toPlugin[1] = ACK /\ Committing(Tail(toPlugin))
           \/ recv.on = "resp" /\ Committing(toPlugin)
    BY <1>2 DEF Phase, Opening, Fresh, Initialising, Asking, HostIdle, CaptureTalk, Capturing, Silent,
                Answered, Streaming, Committing, Ended, Resting
  <1>4. CASE Ends("answer")
    BY <1>4 DEF Ends, BadFaults
  <1>5. CASE ~Ends("answer")
    <2> DEFINE m == Msg("RESP_ENROLL", "done")
    <2>1. /\ toPlugin' = Append(toPlugin, m) /\ UNCHANGED <<proc, asyncRes>> /\ hpc' = "loop"
      BY <1>5 DEF EnrollAnswers, HostSends, captureVars
    <2>2. m \in Finals
      BY DEF Finals
    <2> HIDE DEF m
    <2>3. \A q : Committing(q) => Answered(Append(q, m))'
      BY <1>1, <1>3, <2>1, <2>2, StreamGrows DEF Committing, Answered, Ended, HostIdle
    <2>4. CASE recv.on = "start"
      <3>1. Tail(toPlugin') = Append(Tail(toPlugin), m) /\ toPlugin' # <<>> /\ toPlugin'[1] = ACK
        BY <1>3, <2>1, <2>4, Prefixed DEF LinkInv
      <3>2. CaptureTalk'
        BY <1>1, <1>2, <1>3, <2>3, <2>4, <3>1 DEF CaptureTalk
      <3>3. QED
        BY <2>1, <3>2 DEF Phase
    <2>5. CASE recv.on = "resp"
      <3>1. CaptureTalk'
        BY <1>1, <1>2, <1>3, <2>1, <2>3, <2>5 DEF CaptureTalk
      <3>2. QED
        BY <2>1, <3>1 DEF Phase
    <2>6. QED
      BY <1>3, <2>4, <2>5
  <1>6. QED
    BY <1>4, <1>5

LEMMA HostTalks ==
    ASSUME LinkInv, DeathInv, TalkInv, EnrollingInv, KeptInv,
           HostBoot \/ HostSteps \/ HostCrash, UNCHANGED pluginVars
    PROVE  TalkInv' /\ KeptInv'
  <1>1. UNCHANGED <<hasId, exiting>>
    BY PluginStill
  <1>2. CASE exiting
    BY <1>1, <1>2 DEF TalkInv, KeptInv, ProtocolKept
  <1>3. CASE ~exiting
    <2>1. Live
      BY DEF HostBoot, HostSteps, HostCrash, Live
    <2>2. Phase
      BY <1>3, <2>1 DEF TalkInv, DeathInv, Live
    <2>3. \/ proc' = "dead" /\ (~DiscardFails => fault' \notin BadFaults)
          \/ proc' = "running" /\ Phase'
      <3>1. CASE HostBoot
        BY <2>2, <3>1, BootTalks
      <3>2. CASE HostCrash
        BY <3>2 DEF HostCrash, Ends, BadFaults
      <3>3. CASE HostSteps
        <4>1. proc = "running"
          BY <3>3 DEF HostSteps
        <4>2. hpc # "close"
          BY <2>2, <4>1 DEF Phase, Opening, Fresh, Initialising, Asking, HostIdle, CaptureTalk,
                            Capturing, Answered, Streaming, Committing, Ended, Resting
        <4>3. \/ main_open \/ handle_msg \/ EnrollAnswers
              \/ tudor_set_async_callback \/ CompletesEarly \/ CaptureCallback
          BY <3>3, <4>2 DEF HostSteps, main_close
        <4>4. QED
          BY <2>2, <4>1, <4>3, OpenTalks, MsgTalks, AnswerTalks, CallbackTalks
      <3>4. QED
        BY <3>1, <3>2, <3>3
    <2>4. CASE proc' = "dead" /\ (~DiscardFails => fault' \notin BadFaults)
      BY <2>4 DEF TalkInv, Live, KeptInv, ProtocolKept, BadFaults
    <2>5. CASE proc' = "running" /\ Phase'
      BY <2>5 DEF TalkInv, KeptInv, ProtocolKept
    <2>6. QED
      BY <2>3, <2>4, <2>5
  <1>4. QED
    BY <1>2, <1>3

-----------------------------------------------------------------------------
(* The module's side.  What every step of it keeps:                        *)
LEMMA SideKeeps ==
    ASSUME LinkInv, EnrollingInv, KeptInv, UNCHANGED hostVars,
           proc' = proc \/ proc' \in {"none", "spawned"},
           exiting => exiting' \/ proc' # "dead",
           \/ toHost' = toHost \/ toHost' = <<>>
           \/ \E m : toHost' = Append(toHost, m),
           \/ toPlugin' = toPlugin \/ toPlugin' = <<>>
           \/ toPlugin # <<>> /\ toPlugin' = Tail(toPlugin)
    PROVE  LinkInv' /\ EnrollingInv' /\ KeptInv'
  <1>1. UNCHANGED <<asyncRes, actionKind, enrolling, fault>>
    BY DEF hostVars, hostLocal, captureVars, enrollVars
  <1>2. Proper(toHost')
    <2>1. CASE toHost' = toHost \/ toHost' = <<>>
      BY <2>1, ProperEmpty DEF LinkInv
    <2>2. CASE \E m : toHost' = Append(toHost, m)
      BY <2>2, ProperAppend DEF LinkInv
    <2>3. QED
      BY <2>1, <2>2
  <1>3. Proper(toPlugin')
    BY ProperTail, ProperEmpty DEF LinkInv
  <1>4. EnrollingInv'
    BY <1>1 DEF EnrollingInv, InAction
  <1>5. KeptInv'
    BY <1>1 DEF KeptInv, ProtocolKept
  <1>6. QED
    BY <1>2, <1>3, <1>4, <1>5 DEF LinkInv

(* dispose_dev ends the conversation. *)
LEMMA GivenUp ==
    ASSUME DevInv, DeathInv, dispose_dev
    PROVE  /\ DeathInv' /\ TalkInv'
           /\ hasId' = FALSE /\ proc' = "none" /\ inOpen' = FALSE
  <1>1. GivenBack
    BY Disposes DEF DevInv
  <1>2. hasId' = FALSE /\ inOpen' = FALSE
    BY DEF dispose_dev, ClearDev
  <1>3. proc' = "none" /\ UNCHANGED <<issued, signals>>
    BY DEF dispose_dev, KillHost, Launcher!Kill, launcherVars, DeathInv
  <1>4. slot'["hidraw"].st # "dead"
    BY <1>1 DEF GivenBack, DeathInv, Slot
  <1>5. DeathInv'
    BY <1>2, <1>3, <1>4 DEF DeathInv, Slot
  <1>6. QED
    BY <1>2, <1>3, <1>5 DEF TalkInv

(* The receive is over. *)
LEMMA NoMoreRecv ==
    ASSUME RecvInv, recv' = NoRecv, inOpen' = FALSE,
           UNCHANGED <<userCancelled, hasCanceled, cancels>>
    PROVE  RecvInv' /\ EnrollInv'
  <1>1. /\ recv'.on = "none" /\ ~recv'.stale /\ ~recv'.cancelled
        /\ recv' \in [on : RecvKinds, stale : BOOLEAN, cancelled : BOOLEAN]
    BY DEF NoRecv, RecvKinds
  <1>2. RecvInv'
    BY <1>1 DEF RecvInv, Fits
  <1>3. EnrollInv'
    BY <1>1 DEF EnrollInv
  <1>4. QED
    BY <1>2, <1>3

(* The steps that leave the conversation alone. *)
LEMMA StillKeeps ==
    ASSUME ProtocolInv, UNCHANGED <<ipcVars, hostVars>>,
           UNCHANGED <<slot, issued, signals, hasId, hostId, hostDead, sock, recv, inOpen, exiting, action,
                       gallery, userCancelled, hasCanceled, cancels>>
    PROVE  ProtocolInv'
  <1>1. UNCHANGED <<toHost, toPlugin, proc, hpc, asyncRes, actionKind, cancelled, ackAfter, enrolling,
                    enrollRec, sensor, fault>>
    BY DEF ipcVars, hostVars, hostLocal, captureVars, enrollVars
  <1>2. LinkInv' /\ DeathInv' /\ RecvInv' /\ EnrollingInv' /\ EnrollInv' /\ KeptInv'
    BY <1>1 DEF ProtocolInv, LinkInv, DeathInv, Slot, RecvInv, EnrollingInv, InAction, EnrollInv,
                KeptInv, ProtocolKept
  <1>3. TalkInv'
    BY <1>1 DEF ProtocolInv, TalkInv, Live, Phase, Opening, Silent, Fresh, Initialising, Question,
                Asking, HostIdle, CaptureTalk, Capturing, Answered, Streaming, Committing, Ended, Resting
  <1>4. QED
    BY <1>2, <1>3 DEF ProtocolInv

LEMMA OpenStarts ==
    ASSUME Undisturbed, DevInv, ProtocolInv, Idle, NEW a \in {"probe", "open"}, open_device(a),
           UNCHANGED hostVars
    PROVE  ProtocolInv'
  <1>1. /\ ~hasId /\ ~exiting /\ ~inOpen /\ proc = "none" /\ recv.on = "none" /\ ~recv.cancelled
        /\ ~recv.stale
    BY DEF open_device, Idle, ProtocolInv, DeathInv, RecvInv
  <1>2. LinkInv /\ EnrollingInv /\ KeptInv /\ DeathInv /\ RecvInv
    BY DEF ProtocolInv
  <1>0. ~NoDescriptor(a)
    BY DEF NoDescriptor, Undisturbed
  <1>3. UNCHANGED <<cancels, userCancelled, hasCanceled, exiting>>
    BY <1>0 DEF open_device, OpenFailed, libVars
  <1>4. CASE reply'.res = "ok"
    <2>1. /\ hasId' = TRUE /\ hostId' = reply'.id /\ hostDead' = FALSE /\ sock' = TRUE
          /\ inOpen' = TRUE
          /\ proc' = "spawned" /\ toHost' = <<>> /\ toPlugin' = <<>> /\ action' = a /\ recv' = recv
      BY <1>0, <1>4 DEF open_device
    <2>2. PICK id \in (1..MaxId) \ issued :
             /\ slot' = [slot EXCEPT !["hidraw"] = [id |-> id, st |-> "held"]]
             /\ issued' = issued \cup {id} /\ reply' = [res |-> "ok", id |-> id]
             /\ signals' = signals
      BY <1>4 DEF open_device, Launcher!Launch, Launcher!Answer
    <2>3. hostId' = id /\ slot'["hidraw"].st = "held"
      BY <2>1, <2>2 DEF DevInv, DevShape
    <2>4. DeathInv'
      BY <1>2, <2>1, <2>2, <2>3 DEF DeathInv, Slot
    <2>5. RecvInv'
      BY <1>1, <1>2, <1>3, <2>1 DEF RecvInv, Fits
    <2>6. LinkInv' /\ EnrollingInv' /\ KeptInv'
      BY <1>2, <2>1, SideKeeps
    <2>7. EnrollInv'
      BY <1>1, <2>1 DEF EnrollInv
    <2>8. TalkInv'
      BY <2>1 DEF TalkInv, Phase, Opening, Silent, Fresh
    <2>9. QED
      BY <2>4, <2>5, <2>6, <2>7, <2>8 DEF ProtocolInv
  <1>5. CASE reply'.res # "ok"
    <2>1. OpenFailed(a) /\ ClearDev /\ UNCHANGED ipcVars
      BY <1>0, <1>5 DEF open_device
    <2>2. /\ hasId' = FALSE /\ inOpen' = FALSE /\ recv' = NoRecv
          /\ UNCHANGED <<toHost, toPlugin, proc>>
      BY <2>1 DEF OpenFailed, ClearDev, ipcVars
    <2>3. /\ UNCHANGED <<issued, signals>>
          /\ \/ slot' = slot
             \/ slot' = [slot EXCEPT !["hidraw"] = [id |-> 0, st |-> "free"]]
      BY <1>5 DEF open_device, Launcher!Launch, Launcher!Answer, Launcher!Free
    <2>4. slot'["hidraw"].st # "dead"
      BY <1>1, <1>2, <2>3 DEF DeathInv, Slot, DevInv, DevShape
    <2>5. DeathInv'
      BY <1>1, <1>2, <2>2, <2>3, <2>4 DEF DeathInv, Slot
    <2>6. RecvInv' /\ EnrollInv'
      BY <1>2, <1>3, <2>2, NoMoreRecv
    <2>7. LinkInv' /\ EnrollingInv' /\ KeptInv'
      BY <1>1, <1>2, <2>2, SideKeeps
    <2>8. TalkInv'
      BY <2>2 DEF TalkInv
    <2>9. QED
      BY <2>5, <2>6, <2>7, <2>8 DEF ProtocolInv
  <1>6. QED
    BY <1>4, <1>5

(* A send to a host that is alive succeeds, and a send to a dead one fails. *)
LEMMA SendsToLive == ASSUME DeathInv, hasId PROVE CanSend <=> Live
  BY DEF DeathInv, CanSend, HostUsable, Live

(* init_host_proc, the second half of open_device. *)
LEMMA InitSends ==
    ASSUME DevInv, ProtocolInv, init_host_proc, UNCHANGED hostVars
    PROVE  ProtocolInv'
  <1>1. inOpen /\ toPlugin' = toPlugin /\ UNCHANGED <<hostDead, cancels>>
    BY DEF init_host_proc
  <1>2. LinkInv /\ EnrollingInv /\ KeptInv /\ DeathInv /\ RecvInv /\ TalkInv
    BY DEF ProtocolInv
  <1>3. /\ ~exiting /\ hasId /\ recv.on = "none" /\ action \in {"probe", "open"} /\ userCancelled = FALSE
        /\ hasCanceled = FALSE
    BY <1>1, <1>2 DEF RecvInv
  <1>4. CASE OpenFailed(action) /\ dispose_dev /\ UNCHANGED toHost
    <2>1. /\ DeathInv' /\ TalkInv' /\ hasId' = FALSE /\ proc' = "none" /\ inOpen' = FALSE
      BY <1>2, <1>4, GivenUp
    <2>2. recv' = NoRecv /\ UNCHANGED <<exiting, userCancelled, hasCanceled>>
      BY <1>4 DEF OpenFailed
    <2>3. RecvInv' /\ EnrollInv'
      BY <1>1, <1>2, <2>1, <2>2, NoMoreRecv
    <2>4. LinkInv' /\ EnrollingInv' /\ KeptInv'
      BY <1>1, <1>2, <1>4, <2>1, <2>2, SideKeeps
    <2>5. QED
      BY <2>1, <2>3, <2>4 DEF ProtocolInv
  <1>5. CASE ~(OpenFailed(action) /\ dispose_dev /\ UNCHANGED toHost)
    <2>1. /\ CanSend /\ toHost' = Append(toHost, Msg("INIT", "none"))
          /\ inOpen' = FALSE /\ recv' = Receive("init")
          /\ UNCHANGED <<slot, issued, signals, exiting, action, userCancelled, hasCanceled, hasId, hostId,
                         sock, proc>>
      BY <1>5 DEF init_host_proc, PluginSends, Plain, launcherVars, libVars
    <2>2. Live
      BY <1>2, <1>3, <2>1, SendsToLive
    <2>3. Opening
      BY <1>1, <1>2, <1>3, <2>2 DEF TalkInv, Phase, Initialising, Asking, CaptureTalk, Resting
    <2>4. DeathInv'
      BY <1>1, <1>2, <2>1 DEF DeathInv, Slot
    <2>5. /\ recv'.on = "init" /\ ~recv'.stale /\ ~recv'.cancelled
          /\ recv' \in [on : RecvKinds, stale : BOOLEAN, cancelled : BOOLEAN]
      BY <2>1 DEF Receive, NoRecv, RecvKinds
    <2>6. RecvInv'
      BY <1>1, <1>2, <1>3, <2>1, <2>5 DEF RecvInv, Fits
    <2>7. EnrollInv'
      BY <2>5 DEF EnrollInv
    <2>8. TalkInv'
      <3>1. Is(toHost', "INIT") /\ toPlugin' = <<>>
        BY <1>1, <2>1, <2>3, SentFirst DEF Opening, Silent
      <3>2. UNCHANGED <<hpc, asyncRes>>
        BY DEF hostVars, hostLocal, captureVars
      <3>3. Initialising'
        BY <1>3, <2>1, <2>3, <2>5, <3>1, <3>2 DEF Initialising, Opening, Fresh
      <3>4. QED
        BY <3>3 DEF TalkInv, Phase
    <2>9. LinkInv' /\ EnrollingInv' /\ KeptInv'
      BY <1>1, <1>2, <2>1, SideKeeps
    <2>10. QED
      BY <2>4, <2>6, <2>7, <2>8, <2>9 DEF ProtocolInv
  <1>6. QED
    BY <1>4, <1>5

(* Which request an action sends first, and what it waits for then. *)
Begins(a, t, on) ==
    \/ on = "add" /\ a \in {"verify", "identify"} /\ t = "ADD_RECORD"
    \/ on = "start" /\ a \in {"enroll", "verify", "identify"} /\ t = StartType(a)
    \/ on = "del" /\ a = "delete" /\ t = "DEL_RECORD"
    \/ on = "clear" /\ a = "clear" /\ t = "CLEAR_RECORDS"

LEMMA ReceiveFacts ==
    ASSUME NEW on \in RecvKinds
    PROVE  /\ Receive(on).on = on /\ ~Receive(on).stale /\ ~Receive(on).cancelled
           /\ Receive(on) \in [on : RecvKinds, stale : BOOLEAN, cancelled : BOOLEAN]
  BY DEF Receive, NoRecv

LEMMA BeginsPhase ==
    ASSUME NEW a, NEW t, NEW on, Begins(a, t, on), HostIdle', inOpen' = FALSE,
           recv'.on = on, action' = a, Is(toHost', t), toPlugin' = <<>>
    PROVE  Phase'
  <1>1. CASE on = "start"
    <2>1. CaptureTalk'
      BY <1>1 DEF Begins, CaptureTalk
    <2>2. QED
      BY <2>1 DEF Phase
  <1>2. CASE on # "start"
    <2>1. Asking'
      BY <1>2 DEF Begins, Asking, Question
    <2>2. QED
      BY <2>1 DEF Phase
  <1>3. QED
    BY <1>1, <1>2

LEMMA AskStarts ==
    ASSUME ProtocolInv, StartAction, UNCHANGED hostVars, HostUsable,
           NEW a, NEW t, NEW x, NEW on, Begins(a, t, on), Asks(a, Msg(t, x), on),
           a = "enroll" => gallery' = {x},
           userCancelled' = FALSE, UNCHANGED <<toPlugin, proc, hasCanceled>>
    PROVE  ProtocolInv'
  <1>1. /\ ~inOpen /\ ~exiting /\ action = "none" /\ hasId
        /\ UNCHANGED <<slot, issued, signals, exiting, inOpen, hasId, hostId, hostDead, sock, cancels>>
    BY DEF StartAction, Idle, HostUsable, launcherVars, libVars, devVars
  <1>2. LinkInv /\ EnrollingInv /\ KeptInv /\ DeathInv /\ RecvInv /\ TalkInv
    BY DEF ProtocolInv
  <1>3. UNCHANGED <<hpc, asyncRes>>
    BY DEF hostVars, hostLocal, captureVars
  <1>4. DeathInv'
    BY <1>1, <1>2 DEF DeathInv, Slot
  <1>5. userCancelled' = userCancelled /\ inOpen' = FALSE
    BY <1>1, <1>2 DEF RecvInv
  <1>6. CASE CanSend
    <2>1. toHost' = Append(toHost, Msg(t, x)) /\ action' = a /\ recv' = Receive(on)
      BY <1>6 DEF Asks, PluginSends
    <2>2. Resting
      BY <1>1, <1>2, <1>6, SendsToLive DEF TalkInv, Phase, Opening, Initialising, Asking,
                                           CaptureTalk
    <2>3. on \in RecvKinds
      BY DEF Begins, RecvKinds
    <2>4. /\ recv'.on = on /\ ~recv'.stale /\ ~recv'.cancelled
          /\ recv' \in [on : RecvKinds, stale : BOOLEAN, cancelled : BOOLEAN]
      BY <2>1, <2>3, ReceiveFacts
    <2>5. RecvInv'
      BY <1>1, <1>2, <1>5, <2>1, <2>4 DEF RecvInv, Fits, Begins
    <2>6. toHost' = Append(<<>>, Msg(t, x)) /\ toPlugin' = <<>>
      BY <2>1, <2>2 DEF Resting, Silent
    <2>7. Is(toHost', t) /\ toHost'[1] = Msg(t, x)
      BY <2>6, SentFirst
    <2>8. HostIdle'
      BY <1>3, <2>2 DEF Resting, HostIdle
    <2>9. TalkInv'
      BY <1>5, <2>1, <2>4, <2>6, <2>7, <2>8, BeginsPhase DEF TalkInv
    <2>10. EnrollInv'
      <3> SUFFICES ASSUME action' = "enroll"
                   PROVE  EnrollInv'
        BY DEF EnrollInv
      <3>1. t = "ENROLL" /\ gallery' = {x}
        BY <2>1 DEF Begins, StartType
      <3>2. DOMAIN toHost' = {1} /\ DOMAIN toPlugin' = {}
        <4>1. toHost' = <<toHost'[1]>>
          BY <2>7 DEF Is, One
        <4>2. QED
          BY <2>6, <4>1
      <3>3. ~InAction' /\ hpc' = "loop"
        BY <2>8 DEF HostIdle, InAction
      <3>4. toHost'[1].type = "ENROLL" /\ toHost'[1].arg = x
        BY <2>7, <3>1 DEF Msg
      <3>5. QED
        BY <3>1, <3>2, <3>3, <3>4 DEF EnrollInv
    <2>11. LinkInv' /\ EnrollingInv' /\ KeptInv'
      BY <1>1, <1>2, <2>1, SideKeeps
    <2>12. QED
      BY <1>4, <2>5, <2>9, <2>10, <2>11 DEF ProtocolInv
  <1>7. CASE ~CanSend
    <2>1. recv' = NoRecv /\ toHost' = toHost
      BY <1>7 DEF Asks
    <2>2. RecvInv' /\ EnrollInv'
      BY <1>1, <1>2, <1>5, <2>1, NoMoreRecv
    <2>3. TalkInv'
      BY <1>1, <1>2, <1>7, SendsToLive DEF TalkInv, Live
    <2>4. LinkInv' /\ EnrollingInv' /\ KeptInv'
      BY <1>1, <1>2, <2>1, SideKeeps
    <2>5. QED
      BY <1>4, <2>2, <2>3, <2>4 DEF ProtocolInv
  <1>8. QED
    BY <1>6, <1>7

LEMMA StartMsgType ==
    ASSUME NEW a \in {"enroll", "verify", "identify"}, NEW ps
    PROVE  /\ \E x : StartMsg(a, ps) = Msg(StartType(a), x)
           /\ \A r : a = "enroll" => StartMsg(a, {r}) = Msg("ENROLL", r)
  <1>1. CASE a = "identify"
    BY <1>1 DEF StartMsg, StartType, Plain
  <1>2. CASE a # "identify"
    <2>1. StartMsg(a, ps) = Msg(StartType(a), CHOOSE r \in ps : TRUE)
      BY <1>2 DEF StartMsg, StartType
    <2>2. \A r : (CHOOSE q \in {r} : TRUE) = r
      OBVIOUS
    <2>3. \A r : a = "enroll" => StartMsg(a, {r}) = Msg("ENROLL", r)
      BY <1>2, <2>2 DEF StartMsg
    <2>4. QED
      BY <2>1, <2>3
  <1>3. QED
    BY <1>1, <1>2

LEMMA ActionsKeep ==
    ASSUME ProtocolInv, UNCHANGED hostVars,
           \/ fpi_device_tudor_enroll \/ fpi_device_tudor_verify \/ fpi_device_tudor_identify
           \/ fpi_device_tudor_delete \/ fpi_device_clear_storage
    PROVE  ProtocolInv'
  <1>1. StartAction
    BY DEF fpi_device_tudor_enroll, fpi_device_tudor_verify, fpi_device_tudor_identify,
           fpi_device_tudor_delete, fpi_device_clear_storage
  <1>2. CASE ActionRejected
    <2>1. UNCHANGED <<slot, issued, signals, hasId, hostId, hostDead, sock, recv, inOpen, exiting, action,
                      gallery, userCancelled, hasCanceled, cancels>>
      BY <1>1, <1>2 DEF StartAction, ActionRejected, launcherVars, libVars, devVars
    <2>2. UNCHANGED <<ipcVars, hostVars>>
      BY <1>2 DEF ActionRejected
    <2>3. QED
      BY <2>1, <2>2, StillKeeps
  <1>3. ASSUME NEW a, NEW ps, NEW t, NEW x, NEW on, ActionAsks(a, ps, Msg(t, x), on), Begins(a, t, on),
               a = "enroll" => ps = {x}
        PROVE  ProtocolInv'
    BY <1>1, <1>3, AskStarts DEF ActionAsks
  <1>4. ASSUME NEW a \in {"verify", "identify"}, NEW ps, StartIdentification(a, ps)
        PROVE  ProtocolInv'
    <2>1. HostUsable /\ userCancelled' = FALSE /\ UNCHANGED <<toPlugin, proc, hasCanceled>>
      BY <1>4 DEF StartIdentification
    <2>2. PICK x : StartMsg(a, ps) = Msg(StartType(a), x)
      BY StartMsgType
    <2>3. Begins(a, StartType(a), "start") /\ Begins(a, "ADD_RECORD", "add")
      BY DEF Begins
    <2>4. \/ Asks(a, Msg(StartType(a), x), "start")
          \/ \E r : Asks(a, Msg("ADD_RECORD", r), "add")
      BY <1>4, <2>2 DEF StartIdentification, LoadOrStart
    <2>5. QED
      BY <1>1, <2>1, <2>3, <2>4, AskStarts
  <1>5. CASE fpi_device_tudor_enroll
    <2>1. \A r : StartMsg("enroll", {r}) = Msg("ENROLL", r)
      BY StartMsgType
    <2>2. Begins("enroll", "ENROLL", "start")
      BY DEF Begins, StartType
    <2>3. QED
      BY <1>2, <1>3, <1>5, <2>1, <2>2 DEF fpi_device_tudor_enroll
  <1>6. CASE fpi_device_tudor_verify \/ fpi_device_tudor_identify
    BY <1>2, <1>4, <1>6 DEF fpi_device_tudor_verify, fpi_device_tudor_identify
  <1>7. CASE fpi_device_tudor_delete \/ fpi_device_clear_storage
    <2>1. Begins("delete", "DEL_RECORD", "del") /\ Begins("clear", "CLEAR_RECORDS", "clear")
      BY DEF Begins
    <2>2. QED
      BY <1>2, <1>3, <1>7, <2>1 DEF fpi_device_tudor_delete, fpi_device_clear_storage, Plain
  <1>8. QED
    BY <1>5, <1>6, <1>7

(* A receive fails only when the host is dead, or during the exit. *)
LEMMA FailKeeps ==
    ASSUME Undisturbed, DevInv, ProtocolInv, ~inOpen, RecvError \/ RecvTimeout, UNCHANGED hostVars
    PROVE  ProtocolInv'
  <1>1. LinkInv /\ EnrollingInv /\ KeptInv /\ DeathInv /\ RecvInv /\ TalkInv
    BY DEF ProtocolInv
  <1>2. RecvFails /\ recv.on # "none"
    BY DEF RecvError, RecvTimeout, RecvReady
  <1>3. /\ recv' = NoRecv
        /\ UNCHANGED <<toHost, toPlugin, exiting, hostDead, cancels, userCancelled, hasCanceled>>
    BY <1>2 DEF RecvFails, Completes
  <1>4. ~exiting => proc = "dead" \/ ~hasId
    BY <1>1 DEF RecvInv, DeathInv, Undisturbed, RecvError, RecvTimeout, HostUsable
  <1>5. CASE dispose_dev
    <2>1. DeathInv' /\ TalkInv' /\ proc' = "none" /\ inOpen' = FALSE
      BY <1>1, <1>5, GivenUp
    <2>2. RecvInv' /\ EnrollInv'
      BY <1>1, <1>3, <2>1, NoMoreRecv
    <2>3. LinkInv' /\ EnrollingInv' /\ KeptInv'
      BY <1>1, <1>3, <2>1, SideKeeps
    <2>4. QED
      BY <2>1, <2>2, <2>3 DEF ProtocolInv
  <1>6. CASE UNCHANGED <<launcherVars, proc, inOpen, hasId, hostId, sock>>
    <2>1. UNCHANGED <<slot, issued, signals, proc, inOpen, hasId, hostId, sock>>
      BY <1>6 DEF launcherVars
    <2>2. DeathInv'
      BY <1>1, <1>3, <2>1 DEF DeathInv, Slot
    <2>3. inOpen' = FALSE
      BY <1>1, <2>1 DEF RecvInv
    <2>4. RecvInv' /\ EnrollInv'
      BY <1>1, <1>3, <2>3, NoMoreRecv
    <2>5. TalkInv'
      BY <1>3, <1>4, <2>1 DEF TalkInv, Live
    <2>6. LinkInv' /\ EnrollingInv' /\ KeptInv'
      BY <1>1, <1>3, <2>1, SideKeeps
    <2>7. QED
      BY <2>2, <2>4, <2>5, <2>6 DEF ProtocolInv
  <1>7. QED
    BY <1>2, <1>5, <1>6 DEF RecvFails

-----------------------------------------------------------------------------
(* sock_ready.  What the callbacks do to the receive and the action:       *)
(* the action ends, ...                                                    *)
ActionEnds ==
    /\ recv' = NoRecv /\ toHost' = toHost
    /\ action' = "none" \/ action' = AfterError(action)
    /\ UNCHANGED <<userCancelled, gallery, hasCanceled>>

(* ... asks the next question and waits for "on", ...                      *)
ActionAsksNext(t, on) ==
    \/ /\ CanSend
       /\ \E x : toHost' = Append(toHost, Msg(t, x))
       /\ action' = action /\ recv' = Receive(on)
       /\ UNCHANGED <<userCancelled, gallery, hasCanceled>>
    \/ ~CanSend /\ ActionEnds

(* ... or waits for the next answer.                                       *)
ActionWaits ==
    /\ recv' = Receive("resp") /\ toHost' = toHost
    /\ UNCHANGED <<action, userCancelled, gallery, hasCanceled>>

LEMMA CompletesEnds == ASSUME NEW res, Completes(res), toHost' = toHost PROVE ActionEnds
  BY DEF Completes, ActionEnds

LEMMA AsksNext ==
    ASSUME NEW t, NEW x, NEW on, Asks(action, Msg(t, x), on),
           UNCHANGED <<userCancelled, gallery, hasCanceled>>
    PROVE  ActionAsksNext(t, on)
  BY DEF Asks, PluginSends, ActionAsksNext, ActionEnds

LEMMA InitCallback ==
    ASSUME NEW m, init_recv_cb(m)
    PROVE  \/ InitFails /\ m.type # "READY"
           \/ m.type = "LOAD_PDATA" /\ KeepDev /\ ActionAsksNext("RESP_LOAD_PDATA", "init")
           \/ m.type = "STORE_PDATA" /\ KeepDev /\ ActionAsksNext("ACK", "init")
           \/ m.type = "READY" /\ action = "open" /\ KeepDev /\ ActionEnds
           \/ m.type = "READY" /\ action = "probe" /\ KeepDev /\ ActionAsksNext("PROBE", "probe")
  <1>1. CASE m.type = "LOAD_PDATA" /\ ~InitFails
    <2>1. /\ Asks(action, Msg("RESP_LOAD_PDATA", "none"), "init") /\ KeepDev
          /\ UNCHANGED <<userCancelled, gallery, hasCanceled>>
      BY <1>1 DEF init_recv_cb, Plain
    <2>2. QED
      BY <1>1, <2>1, AsksNext
  <1>2. CASE m.type = "STORE_PDATA" /\ ~InitFails
    <2>1. /\ Asks(action, Msg("ACK", "none"), "init") /\ KeepDev
          /\ UNCHANGED <<userCancelled, gallery, hasCanceled>>
      BY <1>2 DEF init_recv_cb, Plain
    <2>2. QED
      BY <1>2, <2>1, AsksNext
  <1>3. CASE m.type = "READY" /\ action = "open"
    BY <1>3, CompletesEnds DEF init_recv_cb
  <1>4. CASE m.type = "READY" /\ action # "open"
    <2>1. /\ Asks(action, Msg("PROBE", "none"), "probe") /\ KeepDev /\ action = "probe"
          /\ UNCHANGED <<userCancelled, gallery, hasCanceled>>
      BY <1>4 DEF init_recv_cb, Plain
    <2>2. QED
      BY <1>4, <2>1, AsksNext
  <1>5. CASE m.type \notin {"LOAD_PDATA", "STORE_PDATA", "READY"}
    BY <1>5 DEF init_recv_cb
  <1>6. QED
    BY <1>1, <1>2, <1>3, <1>4, <1>5

LEMMA AddCallback ==
    ASSUME NEW m, load_rec_acked_cb(m), action \in {"verify", "identify"}
    PROVE  \/ m.type # "ACK" /\ ActionEnds
           \/ m.type = "ACK" /\ ActionAsksNext("ADD_RECORD", "add")
           \/ m.type = "ACK" /\ ActionAsksNext(StartType(action), "start")
  <1>1. CASE m.type # "ACK"
    BY <1>1, CompletesEnds DEF load_rec_acked_cb, Unexpected
  <1>2. CASE m.type = "ACK"
    <2>1. LoadOrStart(action, gallery, db') /\ UNCHANGED <<userCancelled, gallery, hasCanceled>>
      BY <1>2 DEF load_rec_acked_cb
    <2>2. PICK x : StartMsg(action, gallery) = Msg(StartType(action), x)
      BY StartMsgType
    <2>3. \/ Asks(action, Msg(StartType(action), x), "start")
          \/ \E r : Asks(action, Msg("ADD_RECORD", r), "add")
      BY <2>1, <2>2 DEF LoadOrStart
    <2>4. QED
      BY <1>2, <2>1, <2>3, AsksNext
  <1>3. QED
    BY <1>1, <1>2

LEMMA StartCallback ==
    ASSUME NEW m, userCancelled = FALSE, hasCanceled = FALSE,
           enroll_start_acked_cb(m) \/ verify_acked_cb(m) \/ identify_acked_cb(m)
    PROVE  \/ m.type # "ACK" /\ ActionEnds
           \/ m.type = "ACK" /\ ActionWaits
  <1>1. StartAcked(m)
    BY DEF enroll_start_acked_cb, verify_acked_cb, identify_acked_cb
  <1>2. QED
    BY <1>1, CompletesEnds DEF StartAcked, Unexpected, ActionWaits

LEMMA RespCallback ==
    ASSUME NEW m, RespReceived(m)
    PROVE  IF action = "enroll" /\ m.type = "RESP_ENROLL" /\ m.arg \in {"retry", "more"}
           THEN ActionWaits ELSE ActionEnds
  <1>1. CASE action = "enroll" /\ m.type = "RESP_ENROLL"
    <2>1. <<m.type, action>> \in {<<"ACK", action>>, <<"RESP_ENROLL", "enroll">>,
                                  <<"RESP_VERIFY", "verify">>, <<"RESP_IDENTIFY", "identify">>}
      BY <1>1
    <2>2. enroll_recv_cb(m)
      BY <1>1, <2>1 DEF RespReceived, verify_recv_cb, identify_recv_cb
    <2>3. QED
      BY <1>1, <2>2, CompletesEnds DEF enroll_recv_cb, ActionWaits
  <1>2. CASE ~(action = "enroll" /\ m.type = "RESP_ENROLL")
    <2>1. \E res : Completes(res) /\ toHost' = toHost
      BY <1>2 DEF RespReceived, verify_recv_cb, identify_recv_cb, handle_cancel_ack, ReportsResult,
                  Unexpected
    <2>2. QED
      BY <1>2, <2>1, CompletesEnds
  <1>3. QED
    BY <1>1, <1>2

(* What the callback of the receive makes of message m. *)
Outcome(m) ==
    \/ /\ recv.on = "init"
       /\ \/ m.type = "LOAD_PDATA" /\ ActionAsksNext("RESP_LOAD_PDATA", "init")
          \/ m.type = "STORE_PDATA" /\ ActionAsksNext("ACK", "init")
          \/ m.type = "READY" /\ action = "open" /\ ActionEnds
          \/ m.type = "READY" /\ action = "probe" /\ ActionAsksNext("PROBE", "probe")
    \/ /\ recv.on = "add"
       /\ \/ m.type # "ACK" /\ ActionEnds
          \/ m.type = "ACK" /\ ActionAsksNext("ADD_RECORD", "add")
          \/ m.type = "ACK" /\ ActionAsksNext(StartType(action), "start")
    \/ /\ recv.on = "start"
       /\ \/ m.type # "ACK" /\ ActionEnds
          \/ m.type = "ACK" /\ ActionWaits
    \/ /\ recv.on = "resp"
       /\ IF action = "enroll" /\ m.type = "RESP_ENROLL" /\ m.arg \in {"retry", "more"}
          THEN ActionWaits ELSE ActionEnds
    \/ /\ recv.on \in {"probe", "del", "clear"}
       /\ ActionEnds
       /\ m.type = "ACK" => action' = "none"

LEMMA SockOutcome ==
    ASSUME RecvInv, sock_ready
    PROVE  \/ InitFails /\ Head(toPlugin).type # "READY"
           \/ KeepDev /\ Outcome(Head(toPlugin))
  <1> DEFINE m == Head(toPlugin)
  <1>1. userCancelled = FALSE /\ hasCanceled = FALSE /\ Fits(recv.on, action)
    BY DEF RecvInv
  <1>2. CASE recv.on = "init"
    <2>1. init_recv_cb(m)
      BY <1>2 DEF sock_ready
    <2>2. QED
      BY <1>2, <2>1, InitCallback DEF Outcome
  <1>3. CASE recv.on = "add"
    <2>1. load_rec_acked_cb(m) /\ KeepDev
      BY <1>3 DEF sock_ready
    <2>2. QED
      BY <1>1, <1>3, <2>1, AddCallback DEF Outcome, Fits
  <1>4. CASE recv.on = "start"
    <2>1. (enroll_start_acked_cb(m) \/ verify_acked_cb(m) \/ identify_acked_cb(m)) /\ KeepDev
      BY <1>4 DEF sock_ready
    <2>2. QED
      BY <1>1, <1>4, <2>1, StartCallback DEF Outcome
  <1>5. CASE recv.on = "resp"
    <2>1. RespReceived(m) /\ KeepDev
      BY <1>5 DEF sock_ready
    <2>2. QED
      BY <1>5, <2>1, RespCallback DEF Outcome
  <1>6. CASE recv.on = "probe"
    <2>1. probe_recv_cb(m) /\ KeepDev
      BY <1>6 DEF sock_ready
    <2>2. ActionEnds /\ action' = "none"
      BY <1>1, <1>6, <2>1, CompletesEnds DEF probe_recv_cb, Completes, AfterError, Fits
    <2>3. QED
      BY <1>6, <2>1, <2>2 DEF Outcome
  <1>7. CASE recv.on \in {"del", "clear"}
    <2>1. (delete_acked_cb(m) \/ clear_storage_acked_cb(m)) /\ KeepDev
      BY <1>7 DEF sock_ready
    <2>2. PICK rest : Removed(m, rest)
      BY <2>1 DEF delete_acked_cb, clear_storage_acked_cb
    <2>3. ActionEnds /\ (m.type = "ACK" => action' = "none")
      BY <2>2, CompletesEnds DEF Removed, Unexpected, Completes
    <2>4. QED
      BY <1>7, <2>1, <2>3 DEF Outcome
  <1>8. QED
    BY <1>2, <1>3, <1>4, <1>5, <1>6, <1>7 DEF sock_ready

(* The receive and the enrollment, whether the host lives or not. *)
LEMMA OutcomeRecv ==
    ASSUME LinkInv, RecvInv, EnrollInv, HostUsable, toPlugin # <<>>, Outcome(Head(toPlugin)),
           toPlugin' = Tail(toPlugin), recv.on # "none", UNCHANGED hostVars,
           UNCHANGED <<exiting, hasId, inOpen, proc, cancels>>
    PROVE  /\ RecvInv' /\ EnrollInv'
           /\ toHost' = toHost \/ \E m : toHost' = Append(toHost, m)
  <1>1. ~inOpen /\ inOpen' = FALSE
    BY DEF RecvInv
  <1>2. CASE ActionEnds
    BY <1>1, <1>2, NoMoreRecv DEF ActionEnds
  <1>3. ASSUME NEW t, NEW on \in RecvKinds \ {"none"}, ActionAsksNext(t, on), Fits(on, action),
               on = "start" => action # "enroll", on # "resp"
        PROVE  /\ RecvInv' /\ EnrollInv'
               /\ toHost' = toHost \/ \E m : toHost' = Append(toHost, m)
    <2>1. CASE ActionEnds
      BY <1>2, <2>1
    <2>2. CASE ~ActionEnds
      <3>1. /\ action' = action /\ recv' = Receive(on)
            /\ UNCHANGED <<userCancelled, gallery, hasCanceled>>
            /\ \E x : toHost' = Append(toHost, Msg(t, x))
        BY <1>3, <2>2 DEF ActionAsksNext
      <3>2. /\ recv'.on = on /\ ~recv'.stale /\ ~recv'.cancelled
            /\ recv' \in [on : RecvKinds, stale : BOOLEAN, cancelled : BOOLEAN]
        BY <3>1, ReceiveFacts
      <3>3. RecvInv'
        BY <1>1, <1>3, <3>1, <3>2 DEF RecvInv, HostUsable
      <3>4. EnrollInv'
        BY <1>3, <3>1, <3>2 DEF EnrollInv
      <3>5. QED
        BY <3>1, <3>3, <3>4
    <2>3. QED
      BY <2>1, <2>2
  <1>4. CASE ActionWaits /\ recv.on \in {"start", "resp"}
    <2>1. /\ toHost' = toHost /\ recv' = Receive("resp")
          /\ UNCHANGED <<action, userCancelled, gallery, hasCanceled>>
      BY <1>4 DEF ActionWaits
    <2>2. /\ recv'.on = "resp" /\ ~recv'.stale /\ ~recv'.cancelled
          /\ recv' \in [on : RecvKinds, stale : BOOLEAN, cancelled : BOOLEAN]
      BY <2>1, ReceiveFacts DEF RecvKinds
    <2>3. RecvInv'
      BY <1>1, <1>4, <2>1, <2>2 DEF RecvInv, Fits, HostUsable
    <2>4. \A i \in DOMAIN toPlugin' : i + 1 \in DOMAIN toPlugin /\ toPlugin'[i] = toPlugin[i+1]
      BY ProperTail DEF LinkInv
    <2>5. UNCHANGED <<hpc, asyncRes, actionKind, enrollRec, sensor>>
      BY DEF hostVars, hostLocal, captureVars, enrollVars
    <2>6. EnrollInv'
      BY <1>4, <2>1, <2>4, <2>5 DEF EnrollInv, InAction
    <2>7. QED
      BY <2>1, <2>3, <2>6
  <1>5. Fits(recv.on, action)
    BY DEF RecvInv
  <1>6. CASE recv.on = "init"
    <2>1. Fits("init", action) /\ (action = "probe" => Fits("probe", action))
      BY <1>5, <1>6 DEF Fits
    <2>2. "init" \in RecvKinds \ {"none"} /\ "probe" \in RecvKinds \ {"none"}
      BY DEF RecvKinds
    <2>3. QED
      BY <1>2, <1>3, <1>6, <2>1, <2>2 DEF Outcome
  <1>7. CASE recv.on = "add"
    <2>1. Fits("add", action) /\ Fits("start", action) /\ action # "enroll"
      BY <1>5, <1>7 DEF Fits
    <2>2. "add" \in RecvKinds \ {"none"} /\ "start" \in RecvKinds \ {"none"}
      BY DEF RecvKinds
    <2>3. QED
      BY <1>2, <1>3, <1>7, <2>1, <2>2 DEF Outcome
  <1>8. CASE recv.on \in {"start", "resp"}
    BY <1>2, <1>4, <1>8 DEF Outcome
  <1>9. CASE recv.on \in {"probe", "del", "clear"}
    BY <1>2, <1>9 DEF Outcome
  <1>10. QED
    BY <1>6, <1>7, <1>8, <1>9 DEF RecvInv, RecvKinds

(* An enrollment's answers, read one by one. *)
LEMMA TailLength ==
    ASSUME NEW S, NEW q \in Seq(S), q # <<>>
    PROVE  /\ Len(q) \in Nat \ {0} /\ Head(q) = q[1] /\ q[1] \in S
           /\ Tail(q) \in Seq(S) /\ Len(Tail(q)) = Len(q) - 1
           /\ \A i \in 1..Len(Tail(q)) : Tail(q)[i] = q[i+1]
           /\ Len(q) = 1 <=> Tail(q) = <<>>
  <1>1. /\ Tail(q) \in Seq(S) /\ Len(Tail(q)) = Len(q) - 1
        /\ \A i \in 1..Len(Tail(q)) : Tail(q)[i] = q[i+1]
    BY HeadTailProperties
  <1>2. Len(q) \in Nat /\ Len(q) # 0
    BY LenProperties, EmptySeq
  <1>3. Head(q) = q[1] /\ q[1] \in S
    BY <1>2, ElementOfSeq
  <1>4. Tail(q) = <<>> <=> Len(Tail(q)) = 0
    BY <1>1, EmptySeq
  <1>5. QED
    BY <1>1, <1>2, <1>3, <1>4

LEMMA Shift ==
    ASSUME NEW n \in Nat, NEW k \in Nat, n = k + 1, NEW q, NEW r, NEW F,
           \A i \in 1..n : q[i] \in F <=> i = n,
           \A i \in 1..k : r[i] = q[i+1]
    PROVE  /\ \A i \in 1..k : r[i] \in F <=> i = k
           /\ q[1] \in F <=> n = 1
  <1>1. ASSUME NEW i \in 1..k
        PROVE  r[i] \in F <=> i = k
    <2>1. i + 1 \in 1..n /\ (i + 1 = n <=> i = k)
      OBVIOUS
    <2>2. r[i] = q[i+1]
      OBVIOUS
    <2>3. QED
      BY <2>1, <2>2
  <1>2. 1 \in 1..n
    OBVIOUS
  <1>3. QED
    BY <1>1, <1>2

LEMMA StreamShrinks ==
    ASSUME NEW S, NEW F, NEW q \in Seq(S), q # <<>>,
           \A i \in 1..Len(q) : q[i] \in F <=> i = Len(q)
    PROVE  \/ Head(q) \in F /\ Tail(q) = <<>>
           \/ /\ Head(q) \in S \ F /\ Tail(q) \in Seq(S) /\ Tail(q) # <<>>
              /\ \A i \in 1..Len(Tail(q)) : Tail(q)[i] \in F <=> i = Len(Tail(q))
  <1>1. /\ Len(q) \in Nat \ {0} /\ Head(q) = q[1] /\ q[1] \in S
        /\ Tail(q) \in Seq(S) /\ Len(Tail(q)) = Len(q) - 1
        /\ \A i \in 1..Len(Tail(q)) : Tail(q)[i] = q[i+1]
        /\ Len(q) = 1 <=> Tail(q) = <<>>
    BY TailLength
  <1>2. Len(q) \in Nat /\ Len(Tail(q)) \in Nat /\ Len(q) = Len(Tail(q)) + 1
    <2>1. Len(Tail(q)) \in Nat
      BY <1>1, LenProperties
    <2>2. \A n, k \in Nat : k = n - 1 => n = k + 1
      OBVIOUS
    <2>3. Len(q) \in Nat /\ Len(Tail(q)) = Len(q) - 1
      BY <1>1
    <2>4. QED
      BY <2>1, <2>2, <2>3, Zenon
  <1>3. \A i \in 1..Len(Tail(q)) : Tail(q)[i] = q[i+1]
    BY <1>1
  <1>4. /\ \A i \in 1..Len(Tail(q)) : Tail(q)[i] \in F <=> i = Len(Tail(q))
        /\ q[1] \in F <=> Len(q) = 1
    <2>1. ASSUME NEW n, NEW k, NEW r, n = Len(q), k = Len(Tail(q)), r = Tail(q)
          PROVE  (\A i \in 1..k : r[i] \in F <=> i = k) /\ (q[1] \in F <=> n = 1)
      <3>1. n \in Nat /\ k \in Nat /\ n = k + 1
        BY <1>2, <2>1, Zenon
      <3>2. \A i \in 1..k : r[i] = q[i+1]
        BY <1>3, <2>1, Zenon
      <3>3. \A i \in 1..n : q[i] \in F <=> i = n
        BY <2>1, Zenon
      <3>4. QED
        BY <3>1, <3>2, <3>3, Shift
    <2>2. QED
      BY <2>1, Zenon
  <1>5. QED
    BY <1>1, <1>4

LEMMA OutcomeTalks ==
    ASSUME Phase, DeathInv, RecvInv, hasId, Live, toPlugin # <<>>, Outcome(Head(toPlugin)),
           toPlugin' = Tail(toPlugin), recv.on # "none", UNCHANGED hostVars, UNCHANGED <<inOpen, proc>>
    PROVE  Phase'
  <1> DEFINE m == Head(toPlugin)
  <1>1. UNCHANGED <<hpc, asyncRes, actionKind, cancelled, ackAfter>>
    BY DEF hostVars, hostLocal, captureVars
  <1>2. CanSend
    BY SendsToLive
  <1>3. inOpen' = FALSE
    BY DEF RecvInv
  <1>4. HostIdle => HostIdle'
    BY <1>1 DEF HostIdle
  <1>5. ASSUME HostIdle, toHost = <<>>, Tail(toPlugin) = <<>>, ActionEnds, action' = "none"
        PROVE  Phase'
    <2>1. recv'.on = "none" /\ toHost' = <<>> /\ toPlugin' = <<>>
      BY <1>5 DEF ActionEnds, NoRecv
    <2>2. Resting'
      BY <1>3, <1>4, <1>5, <2>1 DEF Resting, Silent
    <2>3. QED
      BY <2>2 DEF Phase
  <1>6. ASSUME NEW t, NEW on \in RecvKinds, ActionAsksNext(t, on), toHost = <<>>
        PROVE  /\ Is(toHost', t) /\ action' = action /\ recv'.on = on
    <2>1. /\ \E x : toHost' = Append(toHost, Msg(t, x))
          /\ action' = action /\ recv' = Receive(on)
      BY <1>2, <1>6 DEF ActionAsksNext
    <2>2. QED
      BY <1>6, <2>1, SentFirst, ReceiveFacts
  <1>7. ActionEnds /\ action # "delete" => action' = "none"
    BY DEF ActionEnds, AfterError
  <1>8. CASE recv.on = "init"
    <2>1. Initialising
      BY <1>8 DEF Phase, Opening, RecvInv, Asking, CaptureTalk, Resting
    <2>2. /\ action \in {"probe", "open"} /\ proc = "running" /\ asyncRes = "none" /\ toHost = <<>>
          /\ \/ hpc = "load_pdata" /\ Is(toPlugin, "LOAD_PDATA")
             \/ hpc = "store_pdata" /\ Is(toPlugin, "STORE_PDATA")
             \/ hpc = "loop" /\ Is(toPlugin, "READY")
      BY <2>1 DEF Initialising, Question, Silent
    <2>3. Tail(toPlugin) = <<>> /\ Head(toPlugin) = toPlugin[1]
      BY <2>2, OneFacts DEF Is
    <2>4. "init" \in RecvKinds /\ "probe" \in RecvKinds
      BY DEF RecvKinds
    <2>5. CASE hpc = "load_pdata"
      <3>1. ActionAsksNext("RESP_LOAD_PDATA", "init")
        BY <1>8, <2>2, <2>3, <2>5 DEF Outcome, Is
      <3>2. Is(toHost', "RESP_LOAD_PDATA") /\ action' = action /\ recv'.on = "init"
        BY <1>6, <2>2, <2>4, <3>1
      <3>3. Initialising'
        BY <1>1, <1>3, <2>2, <2>3, <2>5, <3>2 DEF Initialising, Question
      <3>4. QED
        BY <3>3 DEF Phase
    <2>6. CASE hpc = "store_pdata"
      <3>1. ActionAsksNext("ACK", "init")
        BY <1>8, <2>2, <2>3, <2>6 DEF Outcome, Is
      <3>2. Is(toHost', "ACK") /\ action' = action /\ recv'.on = "init"
        BY <1>6, <2>2, <2>4, <3>1
      <3>3. Initialising'
        BY <1>1, <1>3, <2>2, <2>3, <2>6, <3>2 DEF Initialising, Question
      <3>4. QED
        BY <3>3 DEF Phase
    <2>7. CASE hpc = "loop"
      <3>1. HostIdle /\ m.type = "READY"
        BY <2>2, <2>3, <2>7 DEF HostIdle, Is
      <3>2. CASE action = "open"
        BY <1>5, <1>7, <1>8, <2>2, <2>3, <3>1, <3>2 DEF Outcome
      <3>3. CASE action = "probe"
        <4>1. ActionAsksNext("PROBE", "probe")
          BY <1>8, <3>1, <3>3 DEF Outcome
        <4>2. Is(toHost', "PROBE") /\ action' = "probe" /\ recv'.on = "probe"
          BY <1>6, <2>2, <2>4, <3>3, <4>1
        <4>3. Asking'
          BY <1>3, <1>4, <2>3, <3>1, <4>2 DEF Asking, Question
        <4>4. QED
          BY <4>3 DEF Phase
      <3>4. QED
        BY <2>2, <3>2, <3>3
    <2>8. QED
      BY <2>2, <2>5, <2>6, <2>7
  <1>9. CASE recv.on \in {"probe", "add", "del", "clear"}
    <2>1. Asking
      BY <1>9 DEF Phase, Opening, RecvInv, Initialising, CaptureTalk, Resting
    <2>2. /\ HostIdle /\ toHost = <<>>
          /\ Is(toPlugin, IF recv.on = "probe" THEN "RESP_PROBE" ELSE "ACK")
          /\ recv.on = "probe" => action = "probe"
          /\ recv.on = "add" => action \in {"verify", "identify"}
          /\ recv.on = "clear" => action = "clear"
      BY <2>1 DEF Asking, Question
    <2>3. /\ Tail(toPlugin) = <<>>
          /\ m.type = (IF recv.on = "probe" THEN "RESP_PROBE" ELSE "ACK")
      BY <2>2, OneFacts DEF Is
    <2>4. CASE recv.on = "add"
      <3>1. \/ ActionAsksNext("ADD_RECORD", "add")
            \/ ActionAsksNext(StartType(action), "start")
        BY <2>3, <2>4 DEF Outcome
      <3>2. "add" \in RecvKinds /\ "start" \in RecvKinds
        BY DEF RecvKinds
      <3>3. \/ Is(toHost', "ADD_RECORD") /\ action' = action /\ recv'.on = "add"
            \/ Is(toHost', StartType(action)) /\ action' = action /\ recv'.on = "start"
        BY <1>6, <2>2, <3>1, <3>2
      <3>4. Begins(action, "ADD_RECORD", "add") /\ Begins(action, StartType(action), "start")
        BY <2>2, <2>4 DEF Begins
      <3>5. QED
        BY <1>3, <1>4, <2>2, <2>3, <3>3, <3>4, BeginsPhase
    <2>5. CASE recv.on # "add"
      <3>1. ActionEnds /\ action' = "none"
        BY <1>7, <1>9, <2>2, <2>3, <2>5 DEF Outcome
      <3>2. QED
        BY <1>5, <2>2, <2>3, <3>1
    <2>6. QED
      BY <2>4, <2>5
  <1>10. CASE recv.on = "start"
    <2>1. CaptureTalk
      BY <1>10 DEF Phase, Opening, RecvInv, Initialising, Asking, Resting
    <2>2. /\ toHost = <<>> /\ toPlugin[1] = ACK /\ Answered(Tail(toPlugin))
          /\ action \in {"enroll", "verify", "identify"}
      BY <1>10, <2>1 DEF CaptureTalk, Silent
    <2>3. ActionWaits
      <3>1. m = ACK
        BY <2>2
      <3>2. m.type = "ACK"
        BY <3>1 DEF ACK, Plain, Msg
      <3>3. QED
        BY <1>10, <3>2 DEF Outcome
    <2>4. action' = action /\ toHost' = <<>> /\ recv'.on = "resp"
      BY <2>2, <2>3, ReceiveFacts DEF ActionWaits, RecvKinds
    <2>5. Answered(toPlugin)'
      BY <1>1, <2>2, <2>4 DEF Answered, Streaming, Capturing, Committing, Ended, HostIdle
    <2>6. CaptureTalk'
      BY <1>3, <2>2, <2>4, <2>5 DEF CaptureTalk
    <2>7. QED
      BY <2>6 DEF Phase
  <1>11. CASE recv.on = "resp"
    <2>1. CaptureTalk
      BY <1>11 DEF Phase, Opening, RecvInv, Initialising, Asking, Resting
    <2>2. /\ toHost = <<>> /\ Answered(toPlugin)
          /\ action \in {"enroll", "verify", "identify"}
      BY <1>11, <2>1 DEF CaptureTalk
    <2>3. CASE action # "enroll"
      <3>1. HostIdle /\ One(toPlugin)
        BY <2>2, <2>3 DEF Answered, Streaming, Committing, Ended
      <3>2. ActionEnds
        BY <1>11, <2>3 DEF Outcome
      <3>3. action' = "none"
        BY <1>7, <2>2, <3>2
      <3>4. QED
        BY <1>5, <2>2, <3>1, <3>2, <3>3, OneFacts
    <2>4. CASE action = "enroll"
      <3>1. \A x \in More : x.type = "RESP_ENROLL" /\ x.arg \in {"retry", "more"}
        BY DEF More, Msg
      <3>2. \A x \in Finals : x.type = "RESP_ENROLL" /\ x.arg \notin {"retry", "more"}
        BY DEF Finals, Msg
      (* One more capture: the module waits for the next answer. *)
      <3>3. ASSUME m \in More, Answered(Tail(toPlugin))
            PROVE  Phase'
        <4>1. ActionWaits
          BY <1>11, <2>4, <3>1, <3>3 DEF Outcome
        <4>2. action' = action /\ toHost' = <<>> /\ recv'.on = "resp"
          BY <2>2, <4>1, ReceiveFacts DEF ActionWaits, RecvKinds
        <4>3. Answered(toPlugin)'
          BY <1>1, <3>3, <4>2 DEF Answered, Streaming, Capturing, Committing, Ended, HostIdle
        <4>4. CaptureTalk'
          BY <1>3, <2>4, <4>2, <4>3 DEF CaptureTalk
        <4>5. QED
          BY <4>4 DEF Phase
      <3>4. CASE Streaming(toPlugin)
        <4>1. m \in More /\ Tail(toPlugin) \in Seq(More)
          BY <3>4, HeadTailProperties DEF Streaming
        <4>2. Answered(Tail(toPlugin))
          BY <2>4, <3>4, <4>1 DEF Streaming, Answered
        <4>3. QED
          BY <3>3, <4>1, <4>2
      <3>5. CASE Ended(toPlugin)
        <4>1. /\ HostIdle /\ toPlugin \in Seq(More \cup Finals)
              /\ \A i \in 1..Len(toPlugin) : toPlugin[i] \in Finals <=> i = Len(toPlugin)
          BY <2>4, <3>5 DEF Ended
        <4>2. \/ m \in Finals /\ Tail(toPlugin) = <<>>
              \/ /\ m \in (More \cup Finals) \ Finals
                 /\ Tail(toPlugin) \in Seq(More \cup Finals) /\ Tail(toPlugin) # <<>>
                 /\ \A i \in 1..Len(Tail(toPlugin)) :
                       Tail(toPlugin)[i] \in Finals <=> i = Len(Tail(toPlugin))
          BY <4>1, StreamShrinks
        <4>3. CASE m \in Finals /\ Tail(toPlugin) = <<>>
          <5>1. ActionEnds
            BY <1>11, <3>2, <4>3 DEF Outcome
          <5>2. action' = "none"
            BY <1>7, <2>4, <5>1
          <5>3. QED
            BY <1>5, <2>2, <4>1, <4>3, <5>1, <5>2
        <4>4. CASE ~(m \in Finals /\ Tail(toPlugin) = <<>>)
          <5>1. m \in More /\ Ended(Tail(toPlugin))
            BY <2>4, <4>1, <4>2, <4>4 DEF Ended
          <5>2. QED
            BY <3>3, <5>1 DEF Answered
        <4>5. QED
          BY <4>3, <4>4
      <3>6. CASE Committing(toPlugin)
        <4>1. m \in More /\ Tail(toPlugin) \in Seq(More)
          BY <3>6, HeadTailProperties DEF Committing
        <4>2. Answered(Tail(toPlugin))
          BY <3>6, <4>1 DEF Committing, Answered
        <4>3. QED
          BY <3>3, <4>1, <4>2
      <3>7. QED
        BY <2>2, <3>4, <3>5, <3>6 DEF Answered
    <2>5. QED
      BY <2>3, <2>4
  <1>12. QED
    BY <1>8, <1>9, <1>10, <1>11 DEF RecvInv, RecvKinds

LEMMA SockKeeps ==
    ASSUME DevInv, ProtocolInv, sock_ready, UNCHANGED hostVars
    PROVE  ProtocolInv'
  <1>1. LinkInv /\ EnrollingInv /\ KeptInv /\ DeathInv /\ RecvInv /\ TalkInv /\ EnrollInv
    BY DEF ProtocolInv
  <1>2. /\ HostUsable /\ recv.on # "none" /\ toPlugin # <<>> /\ toPlugin' = Tail(toPlugin)
        /\ UNCHANGED <<exiting, hostDead, cancels>>
    BY DEF sock_ready, RecvReady, PluginConsume
  <1>3. CASE InitFails
    <2>1. recv' = NoRecv /\ UNCHANGED <<toHost, userCancelled, hasCanceled>> /\ dispose_dev
      BY <1>3 DEF InitFails, Completes
    <2>2. DeathInv' /\ TalkInv' /\ proc' = "none" /\ inOpen' = FALSE
      BY <1>1, <2>1, GivenUp
    <2>3. RecvInv' /\ EnrollInv'
      BY <1>1, <1>2, <2>1, <2>2, NoMoreRecv
    <2>4. LinkInv' /\ EnrollingInv' /\ KeptInv'
      BY <1>1, <1>2, <2>1, <2>2, SideKeeps
    <2>5. QED
      BY <2>2, <2>3, <2>4 DEF ProtocolInv
  <1>4. CASE KeepDev /\ Outcome(Head(toPlugin))
    <2>1. UNCHANGED <<slot, issued, signals, proc, inOpen, hasId, hostId, sock>>
      BY <1>4 DEF KeepDev, launcherVars
    <2>2. DeathInv'
      BY <1>1, <1>2, <2>1 DEF DeathInv, Slot
    <2>3. /\ RecvInv' /\ EnrollInv'
          /\ toHost' = toHost \/ \E m : toHost' = Append(toHost, m)
      BY <1>1, <1>2, <1>4, <2>1, OutcomeRecv
    <2>4. LinkInv' /\ EnrollingInv' /\ KeptInv'
      BY <1>1, <1>2, <2>1, <2>3, SideKeeps
    <2>5. TalkInv'
      <3> SUFFICES ASSUME hasId, Live, ~exiting
                   PROVE  Phase'
        BY <1>2, <2>1 DEF TalkInv, Live
      <3>1. Phase
        BY <1>1 DEF TalkInv
      <3>2. QED
        BY <1>1, <1>2, <1>4, <2>1, <3>1, OutcomeTalks
    <2>6. QED
      BY <2>2, <2>3, <2>4, <2>5 DEF ProtocolInv
  <1>5. QED
    BY <1>1, <1>3, <1>4, SockOutcome

-----------------------------------------------------------------------------
(* Deaths and exits.  A receive that outlives the device: *)
LEMMA GivenUpRecv ==
    ASSUME DevInv, ProtocolInv, dispose_dev, exiting', UNCHANGED <<toHost, toPlugin, action, gallery>>,
           UNCHANGED <<userCancelled, hasCanceled, cancels>>, UNCHANGED hostVars,
           recv'.on = recv.on, recv' \in [on : RecvKinds, stale : BOOLEAN, cancelled : BOOLEAN]
    PROVE  ProtocolInv'
  <1>1. LinkInv /\ EnrollingInv /\ KeptInv /\ DeathInv /\ RecvInv /\ EnrollInv
    BY DEF ProtocolInv
  <1>2. DeathInv' /\ TalkInv' /\ proc' = "none" /\ inOpen' = FALSE
    BY <1>1, GivenUp
  <1>3. RecvInv'
    BY <1>1, <1>2 DEF RecvInv
  <1>4. sensor' = sensor
    BY DEF hostVars
  <1>5. EnrollInv'
    BY <1>1, <1>2, <1>4 DEF EnrollInv
  <1>6. LinkInv' /\ EnrollingInv' /\ KeptInv'
    BY <1>1, <1>2, SideKeeps
  <1>7. QED
    BY <1>2, <1>3, <1>5, <1>6 DEF ProtocolInv

LEMMA StaleFacts ==
    ASSUME RecvInv
    PROVE  /\ StaleRecv.on = recv.on
           /\ StaleRecv \in [on : RecvKinds, stale : BOOLEAN, cancelled : BOOLEAN]
           /\ [recv EXCEPT !.cancelled = TRUE].on = recv.on
           /\ ~[recv EXCEPT !.cancelled = TRUE].stale <=> ~recv.stale
           /\ [recv EXCEPT !.cancelled = TRUE] \in [on : RecvKinds, stale : BOOLEAN, cancelled : BOOLEAN]
  <1>1. recv \in [on : RecvKinds, stale : BOOLEAN, cancelled : BOOLEAN]
    BY DEF RecvInv
  <1>2. QED
    BY <1>1 DEF StaleRecv

LEMMA DiedKeeps ==
    ASSUME DevInv, WatchInv, ProtocolInv, ~inOpen, host_died_signal_cb, UNCHANGED hostVars
    PROVE  ProtocolInv'
  <1>1. LinkInv /\ EnrollingInv /\ KeptInv /\ DeathInv /\ RecvInv /\ TalkInv /\ EnrollInv
    BY DEF ProtocolInv
  <1>2. CASE UNCHANGED <<ipcVars, launcherVars, libVars, actionVars, devVars, cancels>>
    BY <1>2, StillKeeps DEF launcherVars, libVars, actionVars, devVars
  <1>3. CASE HostUsable /\ hostId = signals[heard + 1]
    <2>1. hasId /\ proc = "dead"
      <3>1. heard + 1 \in DOMAIN signals
        BY DEF WatchInv, host_died_signal_cb
      <3>2. QED
        BY <1>1, <1>3, <3>1 DEF DeathInv, HostUsable
    <2>2. /\ hostDead' = TRUE
          /\ recv' = (IF recv.on = "none" THEN recv ELSE [recv EXCEPT !.cancelled = TRUE])
      BY <1>3 DEF host_died_signal_cb
    <2>3. /\ recv'.on = recv.on /\ (~recv'.stale <=> ~recv.stale)
          /\ recv' \in [on : RecvKinds, stale : BOOLEAN, cancelled : BOOLEAN]
      BY <1>1, <2>2, StaleFacts DEF RecvInv
    <2>4. CASE closeTask # "none" /\ CloseReturns
      <3>1. /\ exiting
            /\ UNCHANGED <<exiting, toHost, toPlugin, action, gallery, userCancelled, hasCanceled, cancels>>
        BY <2>4 DEF WatchInv, CloseReturns, libVars
      <3>2. dispose_dev
        BY <2>4 DEF CloseReturns
      <3>3. QED
        BY <2>3, <3>1, <3>2, GivenUpRecv
    <2>5. CASE ~(closeTask # "none" /\ CloseReturns)
      <3>1. UNCHANGED <<toHost, toPlugin, proc, slot, issued, signals, exiting, action, gallery,
                        userCancelled, hasCanceled, cancels, inOpen, hasId, hostId, sock>>
        BY <1>3, <2>5 DEF host_died_signal_cb, ipcVars, launcherVars, libVars
      <3>2. DeathInv'
        BY <1>1, <2>1, <3>1 DEF DeathInv, Slot
      <3>3. RecvInv'
        BY <1>1, <2>1, <2>3, <3>1 DEF RecvInv
      <3>4. TalkInv'
        BY <2>1, <3>1 DEF TalkInv, Live
      <3>5. sensor' = sensor
        BY DEF hostVars
      <3>6. EnrollInv'
        BY <1>1, <2>1, <2>3, <3>1, <3>5 DEF EnrollInv
      <3>7. LinkInv' /\ EnrollingInv' /\ KeptInv'
        BY <1>1, <3>1, SideKeeps
      <3>8. QED
        BY <3>2, <3>3, <3>4, <3>6, <3>7 DEF ProtocolInv
    <2>6. QED
      BY <2>4, <2>5
  <1>4. QED
    BY <1>2, <1>3 DEF host_died_signal_cb

LEMMA TimeoutKeeps ==
    ASSUME DevInv, WatchInv, ProtocolInv, shutdown_timeout_cb, UNCHANGED hostVars
    PROVE  ProtocolInv'
  <1>1. closeTask # "none" /\ recv' = StaleRecv /\ CloseReturns
    BY DEF shutdown_timeout_cb
  <1>2. /\ dispose_dev
        /\ UNCHANGED <<exiting, toHost, toPlugin, action, gallery, userCancelled, hasCanceled, cancels>>
    BY <1>1 DEF CloseReturns, libVars
  <1>3. exiting /\ RecvInv
    BY <1>1 DEF WatchInv, ProtocolInv
  <1>4. QED
    BY <1>1, <1>2, <1>3, StaleFacts, GivenUpRecv

LEMMA ExitKeeps ==
    ASSUME DevInv, ProtocolInv, ~inOpen, ensure_closed, UNCHANGED hostVars
    PROVE  ProtocolInv'
  <1>1. LinkInv /\ EnrollingInv /\ KeptInv /\ DeathInv /\ RecvInv /\ EnrollInv
    BY DEF ProtocolInv
  <1>2. /\ exiting'
        /\ UNCHANGED <<toPlugin, action, userCancelled, gallery, hasCanceled, hostDead, cancels>>
    BY DEF ensure_closed
  <1>3. CASE dispose_dev /\ recv' = StaleRecv /\ UNCHANGED toHost
    BY <1>1, <1>2, <1>3, StaleFacts, GivenUpRecv
  <1>4. CASE /\ toHost' = toHost \/ toHost' = Append(toHost, Plain("SHUTDOWN"))
             /\ UNCHANGED <<recv, launcherVars, proc, hasId, sock, inOpen, hostId>>
    <2>1. UNCHANGED <<recv, slot, issued, signals, proc, hasId, sock, inOpen, hostId>>
      BY <1>4 DEF launcherVars
    <2>2. DeathInv'
      BY <1>1, <1>2, <2>1 DEF DeathInv, Slot
    <2>3. RecvInv'
      BY <1>1, <1>2, <2>1 DEF RecvInv
    <2>4. TalkInv'
      BY <1>2 DEF TalkInv
    <2>5. EnrollInv'
      <3>1. \A i \in DOMAIN toHost' : \/ toHost'[i].type = "SHUTDOWN"
                                      \/ i \in DOMAIN toHost /\ toHost'[i] = toHost[i]
        <4>1. Plain("SHUTDOWN").type = "SHUTDOWN"
          BY DEF Plain, Msg
        <4>2. QED
          BY <1>1, <1>4, <4>1, ProperAppend DEF LinkInv
      <3>2. UNCHANGED <<hpc, asyncRes, actionKind, enrollRec, sensor>>
        BY DEF hostVars, hostLocal, captureVars, enrollVars
      <3>3. QED
        BY <1>1, <1>2, <2>1, <3>1, <3>2 DEF EnrollInv, InAction
    <2>6. LinkInv' /\ EnrollingInv' /\ KeptInv'
      BY <1>1, <1>2, <1>4, SideKeeps
    <2>7. QED
      BY <2>2, <2>3, <2>4, <2>5, <2>6 DEF ProtocolInv
  <1>5. QED
    BY <1>3, <1>4 DEF ensure_closed, close_device, PluginSends

(* fprintd exits only without a host. *)
LEMMA StartKeeps ==
    ASSUME DevInv, ProtocolInv, FprintdExits, UNCHANGED hostVars
    PROVE  ProtocolInv'
  <1>1. LinkInv /\ EnrollingInv /\ KeptInv /\ DeathInv /\ RecvInv
    BY DEF ProtocolInv
  <1>2. ~hasId /\ proc = "none"
    BY <1>1 DEF FprintdExits, DevInv, ExitInv, DeathInv
  <1>3. /\ hasId' = FALSE /\ inOpen' = FALSE /\ recv' = NoRecv
        /\ userCancelled' = FALSE /\ hasCanceled' = FALSE
        /\ UNCHANGED <<slot, issued, signals, cancels, toHost, toPlugin, proc>>
    BY DEF FprintdExits, PluginStarts, launcherVars
  <1>4. DeathInv' /\ TalkInv'
    BY <1>1, <1>2, <1>3 DEF DeathInv, TalkInv, Slot
  <1>5. UNCHANGED <<userCancelled, hasCanceled>>
    BY <1>1, <1>3 DEF RecvInv
  <1>6. RecvInv' /\ EnrollInv'
    BY <1>1, <1>3, <1>5, NoMoreRecv
  <1>7. LinkInv' /\ EnrollingInv' /\ KeptInv'
    BY <1>1, <1>2, <1>3, SideKeeps
  <1>8. QED
    BY <1>4, <1>6, <1>7 DEF ProtocolInv

LEMMA NoticeKeeps ==
    ASSUME DevInv, WatchInv, ProtocolInv, LauncherNotices
    PROVE  ProtocolInv'
  <1>1. LinkInv /\ EnrollingInv /\ KeptInv /\ DeathInv /\ RecvInv /\ TalkInv /\ EnrollInv
    BY DEF ProtocolInv
  <1>2. /\ proc = "dead" /\ Launcher!Die("hidraw")
        /\ UNCHANGED <<toHost, toPlugin, proc, exiting, hasId, hostId, hostDead, sock, recv, inOpen, action,
                       gallery, userCancelled, hasCanceled, cancels>>
        /\ UNCHANGED hostVars
    BY DEF LauncherNotices, ipcVars, libVars, actionVars, devVars
  <1>3. issued' = issued /\ signals' = Append(signals, Slot.id) /\ Slot.st = "held"
    BY <1>2 DEF Launcher!Die, Slot, DevInv, DevShape, SlotStates
  <1>4. Slot.id \in issued
    BY <1>3 DEF WatchInv
  <1>5. \A i \in DOMAIN signals' : \/ signals'[i] = Slot.id
                                   \/ i \in DOMAIN signals /\ signals'[i] = signals[i]
    BY <1>3 DEF WatchInv
  <1>6. DeathInv'
    BY <1>1, <1>2, <1>3, <1>4, <1>5 DEF DeathInv, Slot
  <1>7. RecvInv'
    BY <1>1, <1>2 DEF RecvInv
  <1>8. TalkInv'
    BY <1>2 DEF TalkInv, Live
  <1>9. sensor' = sensor
    BY <1>2 DEF hostVars
  <1>10. EnrollInv'
    BY <1>1, <1>2, <1>9 DEF EnrollInv
  <1>11. LinkInv' /\ EnrollingInv' /\ KeptInv'
    BY <1>1, <1>2, SideKeeps
  <1>12. QED
    BY <1>6, <1>7, <1>8, <1>10, <1>11 DEF ProtocolInv

-----------------------------------------------------------------------------
(* The signals.  Only a launch issues an id, only a death sends a signal,  *)
(* and only the main loop hears one.                                       *)
LEMMA DisposeIssuesNone == ASSUME dispose_dev PROVE UNCHANGED <<issued, signals>>
  BY DEF dispose_dev, KillHost, Launcher!Kill, launcherVars

LEMMA IssuesNone ==
    ASSUME \/ init_host_proc \/ sock_ready \/ RecvError \/ RecvTimeout
           \/ LibfprintCalls
    PROVE  \/ UNCHANGED <<issued, signals, heard>>
           \/ \E a : open_device(a)
  <1>1. CASE init_host_proc
    BY <1>1, DisposeIssuesNone DEF init_host_proc, launcherVars
  <1>2. CASE sock_ready
    <2>1. ASSUME NEW m, init_recv_cb(m)
          PROVE  KeepDev \/ dispose_dev
      BY <2>1 DEF init_recv_cb, InitFails
    <2>2. KeepDev \/ dispose_dev
      BY <1>2, <2>1 DEF sock_ready
    <2>3. QED
      BY <1>2, <2>2, DisposeIssuesNone DEF sock_ready, KeepDev, launcherVars
  <1>3. CASE RecvError \/ RecvTimeout
    BY <1>3, DisposeIssuesNone DEF RecvError, RecvTimeout, RecvFails, launcherVars
  <1>4. CASE fpi_device_tudor_probe \/ fpi_device_tudor_open \/ fpi_device_tudor_close \/ UserCancels
    BY <1>4 DEF fpi_device_tudor_probe, fpi_device_tudor_open, fpi_device_tudor_close, UserCancels,
                launcherVars
  <1>5. CASE StartAction
    BY <1>5 DEF StartAction, launcherVars
  <1>6. QED
    BY <1>1, <1>2, <1>3, <1>4, <1>5
       DEF LibfprintCalls, fpi_device_tudor_enroll, fpi_device_tudor_verify,
           fpi_device_tudor_identify, fpi_device_tudor_delete, fpi_device_clear_storage

LEMMA WatchStep ==
    ASSUME MaxSleeps = 0, DevInv, CalmInv, WatchInv, [Next]_vars
    PROVE  WatchInv'
  <1>a. /\ heard \in Nat /\ signals \in Seq(Nat)
        /\ Slot.st # "free" => Slot.id \in issued
        /\ closeTask # "none" => exiting
    BY DEF WatchInv
  <1>b. ASSUME UNCHANGED <<issued, signals>>, heard' \in Nat, GivenBack
        PROVE  WatchInv'
    BY <1>a, <1>b DEF WatchInv, GivenBack, Slot
  <1>c. ASSUME UNCHANGED <<issued, signals, slot>>, heard' \in Nat, closeTask' # "none" => exiting'
        PROVE  WatchInv'
    BY <1>a, <1>c DEF WatchInv, Slot
  <1>1. CASE UNCHANGED pluginVars
    <2>1. UNCHANGED <<issued, signals, slot, heard, closeTask, exiting>>
      BY <1>1 DEF pluginVars, launcherVars, libVars, closeVars
    <2>2. QED
      BY <1>a, <1>c, <2>1
  <1>2. CASE LauncherNotices
    <2>1. Launcher!Die("hidraw") /\ UNCHANGED <<heard, closeTask, exiting>>
      BY <1>2 DEF LauncherNotices, libVars, closeVars
    <2>2. /\ issued' = issued /\ signals' = Append(signals, Slot.id) /\ Slot.st = "held"
          /\ slot'["hidraw"].id = Slot.id /\ Slot.id \in Nat
      BY <2>1 DEF Launcher!Die, Slot, DevInv, DevShape, SlotStates
    <2>3. QED
      BY <1>a, <2>1, <2>2 DEF WatchInv, Slot
  <1>3. CASE init_host_proc \/ sock_ready \/ RecvError \/ RecvTimeout \/ LibfprintCalls
    <2>1. CASE \E a : open_device(a)
      <3>1. PICK a : open_device(a)
        BY <2>1
      <3>2. (closeTask' # "none" => exiting') /\ heard' = heard
        BY <1>a, <3>1, Opens DEF DevInv, open_device
      <3>3. Launcher!Launch("hidraw")
        BY <3>1 DEF open_device
      <3>4. /\ signals' = signals
            /\ slot'["hidraw"].st # "free" => slot'["hidraw"].id \in issued'
        BY <1>a, <3>3 DEF Launcher!Launch, Launcher!Free, DevInv, DevShape, Slot
      <3>5. QED
        BY <1>a, <3>2, <3>4 DEF WatchInv, Slot
    <2>2. CASE ~(\E a : open_device(a))
      <3>1. Ordinary /\ UNCHANGED <<issued, signals, heard>>
        BY <1>3, <2>2, OrdinarySteps, IssuesNone
      <3>2. QED
        BY <1>a, <1>b, <1>c, <3>1 DEF Ordinary, Untouched
    <2>3. QED
      BY <2>1, <2>2
  <1>4. CASE ensure_closed
    <2>1. exiting' = TRUE /\ heard' = heard
      BY <1>4 DEF ensure_closed
    <2>2. CASE close_device("exit", FALSE, inhib)
      <3>1. GivenBack \/ slot' = slot
        BY <2>2, Closes DEF DevInv, CloseStarts
      <3>2. UNCHANGED <<issued, signals>>
        BY <2>2, DisposeIssuesNone DEF close_device, launcherVars
      <3>3. QED
        BY <1>a, <1>b, <1>c, <2>1, <3>1, <3>2
    <2>3. CASE UNCHANGED launcherVars
      BY <1>a, <1>c, <2>1, <2>3 DEF launcherVars
    <2>4. QED
      BY <1>4, <2>2, <2>3 DEF ensure_closed
  <1>5. CASE shutdown_timeout_cb \/ host_died_signal_cb
    <2>1. heard' \in Nat
      BY <1>5, <1>a DEF shutdown_timeout_cb, host_died_signal_cb
    <2>2. CASE CloseReturns
      <3>1. GivenBack /\ UNCHANGED <<issued, signals>>
        BY <2>2, Disposes, DisposeIssuesNone DEF CloseReturns, DevInv
      <3>2. QED
        BY <1>b, <2>1, <3>1
    <2>3. CASE UNCHANGED <<launcherVars, libVars, closeVars>>
      BY <1>a, <1>c, <2>1, <2>3 DEF launcherVars, libVars, closeVars
    <2>4. QED
      BY <1>5, <2>2, <2>3 DEF shutdown_timeout_cb, host_died_signal_cb
  <1>6. CASE suspend_monitor_cb \/ suspend_timeout_cb \/ suspend_signal_cb
    <2>1. sus.waiting \/ sleeps < MaxSleeps
      BY <1>6 DEF suspend_monitor_cb, suspend_timeout_cb, suspend_signal_cb
    <2>2. QED
      BY <2>1 DEF CalmInv
  <1>7. CASE FprintdExits
    <2>1. closeTask' = "none" /\ heard' = Len(signals) /\ UNCHANGED <<slot, issued, signals>>
      BY <1>7 DEF FprintdExits, PluginStarts, launcherVars
    <2>2. Len(signals) \in Nat
      BY <1>a
    <2>3. QED
      BY <1>c, <2>1, <2>2
  <1>8. QED
    BY <1>1, <1>2, <1>3, <1>4, <1>5, <1>6, <1>7
       DEF Next, PluginNext, MainLoop, FprintdRestarts, vars, CalmInv

-----------------------------------------------------------------------------
LEMMA ProtocolStep ==
    ASSUME Undisturbed, DevInv, CalmInv, WatchInv, ProtocolInv, [Next]_vars
    PROVE  ProtocolInv'
  <1>1. CASE UNCHANGED vars
    <2>1. UNCHANGED <<ipcVars, hostVars, pluginVars>>
      BY <1>1 DEF vars
    <2>2. QED
      BY <2>1, StillKeeps DEF pluginVars, launcherVars, libVars, actionVars, devVars
  <1>2. CASE (HostBoot \/ HostSteps \/ HostCrash) /\ UNCHANGED pluginVars
    BY <1>2, HostEffects, HostKeeps, HostTalks DEF ProtocolInv
  <1>3. CASE LauncherNotices
    BY <1>3, NoticeKeeps
  <1>4. CASE LibfprintCalls /\ UNCHANGED hostVars
    <2>1. CASE \E a \in {"probe", "open"} : Idle /\ open_device(a)
      BY <1>4, <2>1, OpenStarts
    <2>2. CASE fpi_device_tudor_close \/ (fpi_device_tudor_open /\ ~open_device("open"))
      <3>1. UNCHANGED <<ipcVars, launcherVars, exiting, action, userCancelled, recv, gallery, hasCanceled,
                        devVars, cancels>>
        BY <2>2 DEF fpi_device_tudor_close, fpi_device_tudor_open, actionVars
      <3>2. QED
        BY <1>4, <3>1, StillKeeps DEF launcherVars, devVars
    <2>3. CASE UserCancels
      BY <2>3 DEF UserCancels, Undisturbed, ProtocolInv, RecvInv
    <2>4. QED
      BY <1>4, <2>1, <2>2, <2>3, ActionsKeep
         DEF LibfprintCalls, fpi_device_tudor_probe, fpi_device_tudor_open
  <1>5. CASE init_host_proc /\ UNCHANGED hostVars
    BY <1>5, InitSends
  <1>6. CASE MainLoop /\ UNCHANGED hostVars
    <2>1. ~(suspend_monitor_cb \/ suspend_timeout_cb)
      BY DEF suspend_monitor_cb, suspend_timeout_cb, CalmInv
    <2>2. QED
      BY <1>6, <2>1, SockKeeps, FailKeeps, DiedKeeps, TimeoutKeeps DEF MainLoop
  <1>7. CASE ~inOpen /\ (ensure_closed \/ FprintdExits) /\ UNCHANGED hostVars
    BY <1>7, ExitKeeps, StartKeeps
  <1>8. CASE suspend_signal_cb
    BY <1>8 DEF suspend_signal_cb, CalmInv, Undisturbed
  <1>9. QED
    BY <1>1, <1>2, <1>3, <1>4, <1>5, <1>6, <1>7, <1>8 DEF Next, PluginNext, FprintdRestarts, CalmInv

LEMMA ProtocolStarts == ASSUME Undisturbed, Init PROVE CalmInv /\ WatchInv /\ ProtocolInv
  <1>1. PluginInit /\ proc = "none" /\ toHost = <<>> /\ toPlugin = <<>>
    BY DEF Init
  <1>2. slot["hidraw"].st = "free" /\ signals = <<>>
    BY <1>1 DEF PluginInit, Launcher!Init, Launcher!Free
  <1>3. CalmInv
    BY <1>1 DEF PluginInit, CalmInv, NoSuspend
  <1>4. WatchInv
    BY <1>1, <1>2 DEF PluginInit, WatchInv, Slot
  <1>5. /\ recv = NoRecv /\ hasId = FALSE /\ inOpen = FALSE /\ userCancelled = FALSE
        /\ hasCanceled = FALSE /\ cancels = 0
    BY <1>1 DEF PluginInit
  <1>6. LinkInv /\ DeathInv
    BY <1>1, <1>2, <1>5, ProperEmpty DEF LinkInv, DeathInv, Slot
  <1>7. RecvInv /\ EnrollInv
    BY <1>5 DEF RecvInv, EnrollInv, NoRecv, RecvKinds, Fits
  <1>8. TalkInv /\ EnrollingInv /\ KeptInv
    BY <1>1, <1>5 DEF TalkInv, EnrollingInv, KeptInv, ProtocolKept
  <1>9. QED
    BY <1>3, <1>4, <1>6, <1>7, <1>8 DEF ProtocolInv

LEMMA ProtocolHolds ==
    ASSUME Undisturbed
    PROVE  Spec => [](DevInv /\ CalmInv /\ WatchInv /\ ProtocolInv)
  <1> DEFINE Inv == DevInv /\ CalmInv /\ WatchInv /\ ProtocolInv
  <1>1. Init => Inv
    BY InitDev, ProtocolStarts
  <1>2. Inv /\ [Next]_vars => Inv'
    <2>1. MaxSleeps = 0
      BY DEF Undisturbed
    <2>2. QED
      BY <2>1, StepKeepsDev, CalmStep, WatchStep, ProtocolStep
  <1>3. QED
    BY <1>1, <1>2, PTL DEF Spec

(* Between two actions the connection is quiet, whatever host crashed and  *)
(* whenever fprintd exits (ipc.c:198, verify.c:34): unless a cancel, a     *)
(* suspend or a late answer interferes, the first message an action        *)
(* receives is the answer to its own request.                              *)
THEOREM SystemQuietBetweenActions ==
    ASSUME Undisturbed
    PROVE  Spec => []QuietBetweenActions
  <1>1. DevInv /\ ProtocolInv => QuietBetweenActions
    <2> SUFFICES ASSUME DevInv, ProtocolInv, action = "none", HostUsable, closeTask = "none",
                        proc = "running"
                 PROVE  toHost = <<>> /\ toPlugin = <<>> /\ ~InAction /\ hpc = "loop"
      BY DEF QuietBetweenActions
    <2>1. hasId /\ ~exiting
      BY DEF HostUsable, DevInv, DevShape, ExitInv
    <2>2. Resting
      BY <2>1 DEF ProtocolInv, TalkInv, Live, RecvInv, Phase, Opening, Initialising, Asking,
                  CaptureTalk
    <2>3. QED
      BY <2>2 DEF Resting, Silent, HostIdle, InAction
  <1>2. QED
    BY <1>1, ProtocolHolds, PTL

(* The host never aborts over a message it did not expect (handler.c:42-47,*)
(* 454-457; main.c:26-30) but for the SHUTDOWN of an fprintd that exits:   *)
(* the module and the host agree on whose turn it is, for any number of    *)
(* hosts, records and queued messages.                                     *)
THEOREM SystemKeepsProtocol ==
    ASSUME Undisturbed, DiscardFails = FALSE
    PROVE  Spec => []ProtocolKept
  <1>1. ProtocolInv => ProtocolKept
    BY DEF ProtocolInv, KeptInv
  <1>2. QED
    BY <1>1, ProtocolHolds, PTL

-----------------------------------------------------------------------------
(* A print is added only by the answer "done" of an enrollment. *)
LEMMA PrintsGrow ==
    ASSUME [Next]_vars
    PROVE  \/ prints' \subseteq prints
           \/ /\ prints' = prints \cup gallery /\ toPlugin # <<>> /\ action = "enroll" /\ recv.on = "resp"
              /\ Head(toPlugin).type = "RESP_ENROLL" /\ Head(toPlugin).arg = "done"
  <1> DEFINE m == Head(toPlugin)
  <1>1. CASE UNCHANGED pluginVars \/ LauncherNotices
    BY <1>1 DEF pluginVars, LauncherNotices, libVars
  <1>2. CASE fpi_device_tudor_probe \/ fpi_device_tudor_open \/ init_host_proc
    <2>1. \A a : OpenFailed(a) \/ UNCHANGED libVars \/ UNCHANGED prints => prints' = prints
      BY DEF OpenFailed, libVars
    <2>2. ASSUME NEW a, open_device(a)
          PROVE  prints' = prints
      BY <2>1, <2>2 DEF open_device, NoDescriptor
    <2>3. QED
      BY <1>2, <2>1, <2>2 DEF fpi_device_tudor_probe, fpi_device_tudor_open, init_host_proc
  <1>3. CASE LibfprintCalls /\ ~fpi_device_tudor_probe /\ ~fpi_device_tudor_open
    BY <1>3 DEF LibfprintCalls, fpi_device_tudor_close, fpi_device_tudor_enroll,
                fpi_device_tudor_verify, fpi_device_tudor_identify, fpi_device_tudor_delete,
                fpi_device_clear_storage, UserCancels, StartAction, libVars
  <1>4. CASE RecvError \/ RecvTimeout
    BY <1>4 DEF RecvError, RecvTimeout, RecvFails
  <1>5. CASE sock_ready
    <2>1. CASE init_recv_cb(m) \/ probe_recv_cb(m)
      BY <2>1 DEF init_recv_cb, InitFails, probe_recv_cb
    <2>2. CASE load_rec_acked_cb(m) \/ Unexpected
      BY <2>2 DEF load_rec_acked_cb, Unexpected
    <2>3. CASE enroll_start_acked_cb(m) \/ verify_acked_cb(m) \/ identify_acked_cb(m)
      BY <2>3 DEF enroll_start_acked_cb, verify_acked_cb, identify_acked_cb, StartAcked, Unexpected
    <2>4. CASE recv.on = "resp" /\ RespReceived(m)
      <3>1. CASE m.type = "RESP_ENROLL" /\ action = "enroll" /\ enroll_recv_cb(m)
        <4>1. toPlugin # <<>>
          BY <1>5 DEF sock_ready, PluginConsume
        <4>2. QED
          BY <2>4, <3>1, <4>1 DEF enroll_recv_cb
      <3>2. CASE handle_cancel_ack \/ verify_recv_cb(m) \/ identify_recv_cb(m) \/ Unexpected
        BY <3>2 DEF handle_cancel_ack, verify_recv_cb, identify_recv_cb, ReportsResult, Unexpected
      <3>3. QED
        BY <2>4, <3>1, <3>2 DEF RespReceived
    <2>5. CASE delete_acked_cb(m) \/ clear_storage_acked_cb(m)
      BY <2>5 DEF delete_acked_cb, clear_storage_acked_cb, Removed, Unexpected
    <2>6. QED
      BY <1>5, <2>1, <2>2, <2>3, <2>4, <2>5 DEF sock_ready
  <1>6. CASE host_died_signal_cb \/ shutdown_timeout_cb
    BY <1>6 DEF host_died_signal_cb, shutdown_timeout_cb, CloseReturns, libVars
  <1>7. CASE suspend_monitor_cb \/ suspend_timeout_cb \/ suspend_signal_cb
    BY <1>7 DEF suspend_monitor_cb, suspend_timeout_cb, suspend_signal_cb, libVars
  <1>8. CASE ensure_closed \/ FprintdExits \/ FprintdRestarts
    BY <1>8 DEF ensure_closed, FprintdExits, FprintdRestarts, PluginStarts
  <1>9. QED
    BY <1>1, <1>2, <1>3, <1>4, <1>5, <1>6, <1>7, <1>8 DEF Next, PluginNext, MainLoop, vars

(* A print is reported as enrolled only when its own template is on the    *)
(* sensor (enroll.c:94-101, handler.c:90-167): every RESP_ENROLL is an     *)
(* answer to the enrollment that receives it, through crashes and exits.   *)
THEOREM SystemEnrolledIsStored ==
    ASSUME Undisturbed
    PROVE  Spec => EnrolledIsStored
  <1>1. ProtocolInv /\ [Next]_vars => [prints' \ prints \subseteq sensor]_vars
    <2> SUFFICES ASSUME ProtocolInv, [Next]_vars
                 PROVE  prints' \ prints \subseteq sensor
      OBVIOUS
    <2>1. CASE prints' \subseteq prints
      BY <2>1
    <2>2. CASE ~(prints' \subseteq prints)
      <3>1. /\ prints' = prints \cup gallery /\ toPlugin # <<>> /\ action = "enroll"
            /\ recv.on = "resp"
            /\ Head(toPlugin).type = "RESP_ENROLL" /\ Head(toPlugin).arg = "done"
        BY <2>2, PrintsGrow
      <3>2. Head(toPlugin) = toPlugin[1] /\ 1 \in DOMAIN toPlugin
        BY <3>1, ProperTail DEF ProtocolInv, LinkInv
      <3>3. gallery \subseteq sensor
        BY <3>1, <3>2 DEF ProtocolInv, EnrollInv, IsDone
      <3>4. QED
        BY <3>1, <3>3
    <2>3. QED
      BY <2>1, <2>2
  <1>2. QED
    BY <1>1, ProtocolHolds, PTL DEF Spec, EnrolledIsStored
=============================================================================
