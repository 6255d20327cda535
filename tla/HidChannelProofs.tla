-------------------------- MODULE HidChannelProofs --------------------------
(***************************************************************************)
(* Proofs about HidChannel, for every number of reads and reports and for  *)
(* a device that is shared or not.                                         *)
(***************************************************************************)
EXTENDS HidChannel, TLAPS

(* The types, with the reader's record as a whole and the buffer bounded by *)
(* what was sent.                                                           *)
Reader == [at : {"none", "top", "wait", "read", "poll", "check", "complete", "touch", "exit"},
           req : Reads \cup {NoRead}, rep : Reports \cup {"none"},
           res : {"success", "cancelled"}, rest : Seq(Reads)]

SensorShape ==
    /\ fifo \in Seq(Reports) /\ sent \in 0..MaxReports /\ Len(fifo) <= sent
    /\ armed \in BOOLEAN /\ owed \in BOOLEAN /\ fd \in {"ok", "gone"}

ThreadShape ==
    /\ pass \in BOOLEAN /\ monitor \in BOOLEAN /\ stopping \in BOOLEAN
    /\ unended \in BOOLEAN
    /\ file \in [alive : BOOLEAN, started : BOOLEAN, shutdown : BOOLEAN]
    /\ user \in {"run", "join", "closed"}
    /\ ctl \in {"idle", "wait", "end", "drain", "drain_read", "flush"}
    /\ freed \in BOOLEAN

ReadShape ==
    /\ queue \in Seq(Reads)
    /\ status \in [Reads -> {"unused", "pending", "success", "cancelled"}]
    /\ op \in [Reads -> BOOLEAN]
    /\ rd \in Reader

ShapeInv == SensorShape /\ ThreadShape /\ ReadShape

(* Unless an 'end event' has failed, an armed sensor finds the filter open, *)
(* and an event is in the buffer only while the sensor is armed or the     *)
(* drain after 'end event' runs.                                           *)
HasEvent == \E i \in 1..Len(fifo) : fifo[i] = "event"
EventInv ==
    /\ armed /\ ~unended => pass
    /\ ctl = "wait" => pass /\ (armed => unended)
    /\ ctl = "end" => ~armed
    /\ HasEvent => armed \/ unended \/ ctl \in {"end", "drain", "drain_read"}

(* The reads that are still to be completed: the one the reader serves,    *)
(* then those it is cancelling, then the queue, in the order of issue.     *)
Serving == rd.at \in {"read", "poll", "check", "complete"}
In(r, s) == \E k \in 1..Len(s) : s[k] = r
Increasing(s) == \A k, l \in 1..Len(s) : k < l => s[k] < s[l]
First(r, s) == \A k \in 1..Len(s) : r < s[k]
Below(s, t) == \A k \in 1..Len(s), l \in 1..Len(t) : s[k] < t[l]
Issued(s) == \A k \in 1..Len(s) : status[s[k]] # "unused"

OrderInv ==
    /\ \A i, j \in Reads : i < j /\ status[j] # "unused" => status[i] # "unused"
    /\ \A r \in Reads : status[r] = "pending" => (Serving /\ r = rd.req) \/ In(r, rd.rest) \/ In(r, queue)
    /\ Serving => rd.req \in Reads /\ status[rd.req] # "unused"
    /\ Serving => First(rd.req, rd.rest) /\ First(rd.req, queue)
    /\ Increasing(rd.rest) /\ Increasing(queue) /\ Below(rd.rest, queue)
    /\ Issued(rd.rest) /\ Issued(queue)
    /\ rd.at \notin {"complete", "touch"} => rd.rest = <<>>
    /\ ReadsInOrder

(* The context lives until the reader, if there ever was one, has left. *)
LifeInv ==
    /\ ~file.alive => user = "closed"
    /\ user = "closed" => rd.at \in {"none", "exit"}
    /\ ~file.started => rd.at = "none"

HidInv == ShapeInv /\ EventInv /\ OrderInv /\ LifeInv

-----------------------------------------------------------------------------
(* Sequences as queues. *)
LEMMA TailFacts ==
    ASSUME NEW S, NEW s \in Seq(S), s # <<>>
    PROVE  /\ Len(s) \in Nat /\ Len(s) >= 1 /\ Head(s) = s[1] /\ s[1] \in S
           /\ Tail(s) \in Seq(S) /\ Len(Tail(s)) = Len(s) - 1
           /\ \A k \in 1..(Len(s) - 1) : k + 1 \in 1..Len(s) /\ Tail(s)[k] = s[k + 1]
  OBVIOUS

LEMMA AppendFacts ==
    ASSUME NEW S, NEW s \in Seq(S), NEW x \in S
    PROVE  /\ Len(s) \in Nat /\ Append(s, x) \in Seq(S) /\ Len(Append(s, x)) = Len(s) + 1
           /\ \A k \in 1..Len(s) : Append(s, x)[k] = s[k] /\ s[k] \in S
           /\ Append(s, x)[Len(s) + 1] = x
  OBVIOUS

-----------------------------------------------------------------------------
LEMMA SensorNext ==
    ASSUME HidInv, [Next]_vars
    PROVE  SensorShape'
  <1> USE HidAssumption
  <1>1. SensorShape
    BY DEF HidInv, ShapeInv
  <1>2. fifo # <<>> => Len(Tail(fifo)) <= sent /\ Tail(fifo) \in Seq(Reports)
    BY <1>1, TailFacts DEF SensorShape
  <1>3. ASSUME NEW r \in Reports, SendReport(r)
        PROVE  SensorShape'
    <2>1. /\ Append(fifo, r) \in Seq(Reports) /\ Len(Append(fifo, r)) <= sent + 1
          /\ sent + 1 \in 0..MaxReports
      BY <1>1, <1>3, AppendFacts DEF SensorShape, SendReport
    <2>2. QED
      BY <1>1, <1>3, <2>1 DEF SensorShape, SendReport
  <1>4. CASE DeviceLost
    <2>1. fifo' = <<>> /\ armed' = FALSE /\ owed' = FALSE /\ fd' = "gone" /\ sent' = sent
      BY <1>4 DEF DeviceLost
    <2>2. fifo' \in Seq(Reports) /\ Len(fifo') = 0
      BY <2>1
    <2>3. Len(fifo') <= sent' /\ sent' \in 0..MaxReports
      BY <1>1, <2>1, <2>2 DEF SensorShape
    <2>4. QED
      BY <2>1, <2>2, <2>3 DEF SensorShape
  <1>5. ASSUME UNCHANGED <<sent, armed, owed, fd>>, fifo' = fifo \/ (fifo # <<>> /\ fifo' = Tail(fifo))
        PROVE  SensorShape'
    BY <1>1, <1>2, <1>5 DEF SensorShape
  <1>6. CASE ReaderReads
    <2>1. UNCHANGED <<sent, armed, owed, fd>> /\ (fifo' = fifo \/ (fifo # <<>> /\ fifo' = Tail(fifo)))
      BY <1>1, <1>6 DEF ReaderReads, SensorShape
    <2>2. QED
      BY <1>5, <2>1
  <1>7. CASE DrainReads \/ HidD_FlushQueue
    BY <1>5, <1>7 DEF DrainReads, HidD_FlushQueue
  <1>8. CASE WriteFile \/ SetFeatureEnd \/ SetFeatureOther \/ WaitSent
    BY <1>1, <1>8 DEF SensorShape, WriteFile, SetFeatureEnd, SetFeatureOther, WaitSent
  <1>9. CASE UNCHANGED sensor
    BY <1>5, <1>9 DEF sensor
  <1>10. QED
    BY <1>3, <1>4, <1>6, <1>7, <1>8, <1>9
    DEF Next, ReaderStep, ControlStep, ShutDown, ReadFile, GetOverlappedResult, CloseHandle,
        hid_file_destroy, ReaderTop, ReaderTakes, ReaderPolled, ReaderChecks, ReaderCompletes, ReaderTouches,
        SetFeatureWait, SetFeatureEndFails, EndSent, DrainPolls, vars

LEMMA ThreadNext ==
    ASSUME HidInv, [Next]_vars
    PROVE  ThreadShape'
  <1>1. ThreadShape
    BY DEF HidInv, ShapeInv
  <1>2. CASE UNCHANGED <<flags, file, user, ctl, freed>>
    BY <1>1, <1>2 DEF ThreadShape, flags
  <1>3. CASE ShutDown \/ CloseHandle \/ hid_file_destroy
    BY <1>1, <1>3 DEF ThreadShape, ShutDown, CloseHandle, hid_file_destroy, flags
  <1>4. ASSUME NEW r \in Reads, ReadFile(r)
        PROVE  ThreadShape'
    BY <1>1, <1>4 DEF ThreadShape, ReadFile, flags
  <1>5. CASE ReaderTouches
    BY <1>1, <1>5 DEF ThreadShape, ReaderTouches, flags
  <1>6. CASE SetFeatureWait \/ SetFeatureEnd \/ SetFeatureEndFails \/ SetFeatureOther \/ WaitSent
    BY <1>1, <1>6, HidAssumption DEF ThreadShape, SetFeatureWait, SetFeatureEnd, SetFeatureEndFails, SetFeatureOther,
                                     WaitSent, start_img_monitor, flags
  <1>7. CASE EndSent \/ DrainPolls \/ DrainReads \/ HidD_FlushQueue
    BY <1>1, <1>7 DEF ThreadShape, EndSent, DrainPolls, DrainReads, HidD_FlushQueue, flags
  <1>8. QED
    BY <1>2, <1>3, <1>4, <1>5, <1>6, <1>7
    DEF Next, ReaderStep, ControlStep, SendReport, DeviceLost, GetOverlappedResult, WriteFile,
        ReaderTop, ReaderTakes, ReaderReads, ReaderPolled, ReaderChecks, ReaderCompletes, vars

LEMMA ReadNext ==
    ASSUME HidInv, [Next]_vars
    PROVE  ReadShape'
  <1>1. ReadShape
    BY DEF HidInv, ShapeInv
  <1>2. CASE UNCHANGED <<reads, rd>>
    BY <1>1, <1>2 DEF ReadShape, reads
  <1>3. ASSUME NEW r \in Reads, ReadFile(r)
        PROVE  ReadShape'
    <2>1. queue' \in Seq(Reads)
      BY <1>1, <1>3, AppendFacts DEF ReadShape, ReadFile
    <2>2. rd' \in Reader
      BY <1>1, <1>3 DEF ReadShape, ReadFile, Reader
    <2>3. QED
      BY <1>1, <1>3, <2>1, <2>2 DEF ReadShape, ReadFile
  <1>4. ASSUME NEW r \in Reads, GetOverlappedResult(r)
        PROVE  ReadShape'
    BY <1>1, <1>4 DEF ReadShape, GetOverlappedResult
  <1>5. CASE ReaderTop \/ ReaderPolled \/ ReaderChecks
    <2>1. rd' \in Reader
      BY <1>1, <1>5 DEF ReadShape, Reader, ReaderTop, ReaderPolled, ReaderChecks
    <2>2. QED
      BY <1>1, <1>5, <2>1 DEF ReadShape, ReaderTop, ReaderPolled, ReaderChecks, reads
  <1>6. CASE ReaderCompletes
    <2>1. rd' \in Reader /\ rd.res \in {"success", "cancelled"}
      BY <1>1, <1>6 DEF ReadShape, Reader, ReaderCompletes
    <2>2. QED
      BY <1>1, <1>6, <2>1 DEF ReadShape, ReaderCompletes
  <1>7. CASE ReaderTakes
    <2>1. queue # <<>> => Head(queue) \in Reads /\ Tail(queue) \in Seq(Reads)
      BY <1>1, TailFacts DEF ReadShape
    <2>2. rd' \in Reader
      BY <1>1, <1>7, <2>1 DEF ReadShape, Reader, ReaderTakes
    <2>3. /\ \/ queue # <<>> /\ queue' = Tail(queue)
             \/ queue' = <<>>
          /\ UNCHANGED <<status, op>>
      BY <1>7 DEF ReaderTakes
    <2>4. queue' \in Seq(Reads)
      <3>1. <<>> \in Seq(Reads)
        OBVIOUS
      <3>2. QED
        BY <2>1, <2>3, <3>1, Zenon
    <2>5. QED
      BY <1>1, <2>2, <2>3, <2>4 DEF ReadShape
  <1>8. CASE ReaderReads
    <2>1. fifo # <<>> => Head(fifo) \in Reports
      BY TailFacts DEF HidInv, ShapeInv, SensorShape
    <2>2. rd' \in Reader
      <3>1. fd \in {"ok", "gone"}
        BY DEF HidInv, ShapeInv, SensorShape
      <3>2. QED
        BY <1>1, <1>8, <2>1, <3>1 DEF ReadShape, Reader, ReaderReads
    <2>3. QED
      BY <1>1, <1>8, <2>2 DEF ReadShape, ReaderReads, reads
  <1>9. CASE ReaderTouches
    <2>1. rd.rest # <<>> => Head(rd.rest) \in Reads /\ Tail(rd.rest) \in Seq(Reads)
      BY <1>1, TailFacts DEF ReadShape, Reader
    <2>2. rd' \in Reader
      BY <1>1, <1>9, <2>1 DEF ReadShape, Reader, ReaderTouches
    <2>3. QED
      BY <1>1, <1>9, <2>2 DEF ReadShape, ReaderTouches, reads
  <1>10. QED
    BY <1>2, <1>3, <1>4, <1>5, <1>6, <1>7, <1>8, <1>9
    DEF Next, ReaderStep, ControlStep, SendReport, DeviceLost, ShutDown, WriteFile, CloseHandle,
        hid_file_destroy, SetFeatureWait, SetFeatureEnd, SetFeatureEndFails, SetFeatureOther, WaitSent, EndSent, DrainPolls,
        DrainReads, HidD_FlushQueue, vars

LEMMA EventNext ==
    ASSUME HidInv, [Next]_vars
    PROVE  EventInv'
  <1>1. ShapeInv /\ EventInv
    BY DEF HidInv
  <1>2. fifo # <<>> => \A k \in 1..Len(Tail(fifo)) : k + 1 \in 1..Len(fifo) /\ Tail(fifo)[k] = fifo[k + 1]
    BY <1>1, TailFacts DEF ShapeInv, SensorShape
  <1>3. fifo' = <<>> \/ (fifo # <<>> /\ fifo' = Tail(fifo)) \/ fifo' = fifo => (HasEvent' => HasEvent)
    BY <1>2 DEF HasEvent
  <1>4. fifo' = <<>> => ~HasEvent'
    BY DEF HasEvent
  <1>5. ASSUME NEW r \in Reports, SendReport(r)
        PROVE  EventInv'
    <2>1. fifo' = Append(fifo, r) /\ UNCHANGED <<armed, pass, unended, ctl>>
      BY <1>5 DEF SendReport, flags
    <2>2. HasEvent' => HasEvent \/ r = "event"
      BY <1>1, <2>1, AppendFacts DEF HasEvent, ShapeInv, SensorShape
    <2>3. r = "event" => armed
      BY <1>5 DEF SendReport, Reports
    <2>4. QED
      BY <1>1, <2>1, <2>2, <2>3 DEF EventInv
  <1>6. CASE DeviceLost
    BY <1>1, <1>4, <1>6 DEF EventInv, DeviceLost, flags
  <1>7. CASE UNCHANGED <<fifo, armed, pass, unended, ctl>>
    BY <1>1, <1>3, <1>7 DEF EventInv
  <1>8. CASE ReaderReads
    <2>1. fd \in {"ok", "gone"}
      BY <1>1 DEF ShapeInv, SensorShape
    <2>2. UNCHANGED <<armed, pass, unended, ctl>> /\ (fifo' = fifo \/ (fifo # <<>> /\ fifo' = Tail(fifo)))
      BY <1>8, <2>1 DEF ReaderReads, flags
    <2>3. QED
      BY <1>1, <1>3, <2>2 DEF EventInv
  <1>9. CASE SetFeatureWait \/ SetFeatureEnd \/ SetFeatureEndFails \/ SetFeatureOther \/ WaitSent \/ EndSent
    BY <1>1, <1>3, <1>9 DEF EventInv, ShapeInv, SensorShape, ThreadShape, SetFeatureWait,
                            SetFeatureEnd, SetFeatureEndFails, SetFeatureOther, WaitSent, EndSent, sensor, flags
  <1>10. CASE DrainPolls
    BY <1>1, <1>3, <1>4, <1>10 DEF EventInv, DrainPolls, sensor, flags
  <1>11. CASE DrainReads
    BY <1>1, <1>3, <1>4, <1>11 DEF EventInv, DrainReads, flags
  <1>12. CASE HidD_FlushQueue
    BY <1>1, <1>3, <1>12 DEF EventInv, HidD_FlushQueue, flags
  <1>13. QED
    BY <1>5, <1>6, <1>7, <1>8, <1>9, <1>10, <1>11, <1>12
    DEF Next, ReaderStep, ControlStep, ShutDown, ReadFile, GetOverlappedResult, WriteFile, CloseHandle,
        hid_file_destroy, ReaderTop, ReaderTakes, ReaderPolled, ReaderChecks, ReaderCompletes, ReaderTouches,
        vars, sensor, flags

LEMMA LifeNext ==
    ASSUME HidInv, [Next]_vars
    PROVE  LifeInv'
  <1>1. ShapeInv /\ LifeInv
    BY DEF HidInv
  <1>2. CASE UNCHANGED <<file, rd, user>>
    BY <1>1, <1>2 DEF LifeInv
  <1>3. ASSUME NEW r \in Reads, ReadFile(r)
        PROVE  LifeInv'
    BY <1>1, <1>3 DEF LifeInv, ShapeInv, ThreadShape, ReadShape, Reader, ReadFile
  <1>4. CASE CloseHandle \/ hid_file_destroy
    BY <1>1, <1>4 DEF LifeInv, ShapeInv, ThreadShape, ReadShape, Reader, CloseHandle,
                      hid_file_destroy
  <1>5. CASE ReaderStep
    <2>1. rd.at \notin {"none", "exit"} /\ UNCHANGED <<file, user>>
      BY <1>5 DEF ReaderStep, ReaderTop, ReaderTakes, ReaderReads, ReaderPolled, ReaderChecks,
                  ReaderCompletes, ReaderTouches
    <2>2. QED
      BY <1>1, <2>1 DEF LifeInv, ShapeInv, ThreadShape, ReadShape, Reader
  <1>6. QED
    BY <1>2, <1>3, <1>4, <1>5
    DEF Next, ControlStep, SendReport, DeviceLost, ShutDown, GetOverlappedResult, WriteFile, SetFeatureWait,
        SetFeatureEnd, SetFeatureEndFails, SetFeatureOther, WaitSent, EndSent, DrainPolls, DrainReads, HidD_FlushQueue, vars

-----------------------------------------------------------------------------
(* The order of reads. *)

(* What Head and Tail leave of a queue of issued reads in order. *)
LEMMA TakeFirst ==
    ASSUME ReadShape, NEW s \in Seq(Reads), s # <<>>, Increasing(s), Issued(s)
    PROVE  /\ Head(s) \in Reads /\ status[Head(s)] # "unused" /\ First(Head(s), Tail(s))
           /\ Tail(s) \in Seq(Reads) /\ Increasing(Tail(s)) /\ Issued(Tail(s))
           /\ \A r : In(r, s) => r = Head(s) \/ In(r, Tail(s))
           /\ \A t : Below(s, t) => First(Head(s), t) /\ Below(Tail(s), t)
  <1>1. /\ Len(s) \in Nat /\ Len(s) >= 1 /\ Head(s) = s[1] /\ s[1] \in Reads
        /\ Tail(s) \in Seq(Reads) /\ Len(Tail(s)) = Len(s) - 1
        /\ \A k \in 1..(Len(s) - 1) : k + 1 \in 1..Len(s) /\ Tail(s)[k] = s[k + 1]
    BY TailFacts
  <1>2. 1 \in 1..Len(s) /\ status[Head(s)] # "unused"
    BY <1>1 DEF Issued
  <1>3. First(Head(s), Tail(s))
    BY <1>1, <1>2 DEF First, Increasing
  <1>4. Increasing(Tail(s))
    BY <1>1 DEF Increasing
  <1>5. Issued(Tail(s))
    BY <1>1 DEF Issued
  <1>6. ASSUME NEW r, In(r, s), r # Head(s)
        PROVE  In(r, Tail(s))
    <2>1. PICK k \in 1..Len(s) : s[k] = r
      BY <1>6 DEF In
    <2>2. k # 1
      BY <1>1, <1>6, <2>1
    <2>3. k - 1 \in 1..(Len(s) - 1) /\ (k - 1) + 1 = k
      BY <1>1, <2>2
    <2>4. Tail(s)[k - 1] = r
      BY <1>1, <2>1, <2>3
    <2>5. QED
      BY <1>1, <2>3, <2>4 DEF In
  <1>7. ASSUME NEW t, Below(s, t)
        PROVE  First(Head(s), t) /\ Below(Tail(s), t)
    BY <1>1, <1>2, <1>7 DEF Below, First
  <1>8. QED
    BY <1>1, <1>2, <1>3, <1>4, <1>5, <1>6, <1>7

(* The conditions on an empty sequence are void. *)
LEMMA EmptyFacts ==
    /\ Increasing(<<>>) /\ Issued(<<>>)
    /\ \A r : First(r, <<>>) /\ ~In(r, <<>>)
    /\ \A s : Below(s, <<>>) /\ Below(<<>>, s)
  <1>1. 1..Len(<<>>) = {}
    OBVIOUS
  <1>2. QED
    BY <1>1 DEF Increasing, Issued, First, In, Below

(* ReadFile appends a read that is later than all reads issued so far. *)
LEMMA IssueOrder ==
    ASSUME HidInv, NEW r \in Reads, ReadFile(r)
    PROVE  OrderInv'
  <1>1. ReadShape /\ OrderInv /\ LifeInv
    BY DEF HidInv, ShapeInv
  <1>2. rd \in Reader /\ file.started \in BOOLEAN
    BY DEF HidInv, ShapeInv, ThreadShape, ReadShape
  <1>3. status[r] = "unused" /\ queue' = Append(queue, r)
    BY DEF ReadFile
  <1>4. \A x \in Reads : status'[x] = IF x = r THEN "pending" ELSE status[x]
    BY <1>1 DEF ReadFile, ReadShape
  <1>5. \A x \in Reads : status[x] # "unused" => x < r
    BY <1>1, <1>3 DEF OrderInv, Reads
  <1>6. /\ rd'.req = rd.req /\ rd'.rest = rd.rest /\ (Serving' <=> Serving)
        /\ rd'.at \notin {"complete", "touch"} => rd.rest = <<>>
    <2>1. CASE file.started
      BY <1>1, <2>1 DEF ReadFile, Serving, OrderInv
    <2>2. CASE ~file.started
      <3>1. rd.at = "none" /\ rd' = [rd EXCEPT !.at = "top"]
        BY <1>1, <2>2 DEF ReadFile, LifeInv
      <3>2. QED
        BY <1>1, <1>2, <3>1 DEF Serving, OrderInv, Reader
    <2>3. QED
      BY <2>1, <2>2
  <1>7. /\ Len(queue) \in Nat /\ Len(queue') = Len(queue) + 1
        /\ \A k \in 1..Len(queue) : queue'[k] = queue[k] /\ queue[k] \in Reads
        /\ queue'[Len(queue) + 1] = r
    BY <1>1, <1>3, AppendFacts DEF ReadShape
  <1>8. /\ rd.rest \in Seq(Reads) /\ Len(rd.rest) \in Nat
        /\ \A k \in 1..Len(rd.rest) : rd.rest[k] \in Reads
    BY <1>2 DEF Reader
  <1>9. /\ \A k \in 1..Len(queue) : queue[k] < r /\ status[queue[k]] # "unused"
        /\ \A k \in 1..Len(rd.rest) : rd.rest[k] < r /\ status[rd.rest[k]] # "unused"
        /\ Serving => rd.req < r
    BY <1>1, <1>5, <1>7, <1>8 DEF OrderInv, Issued
  <1>10. \A i, j \in Reads : i < j /\ status'[j] # "unused" => status'[i] # "unused"
    <2>1. \A i, j \in Reads : i < j /\ status[j] # "unused" => status[i] # "unused"
      BY <1>1 DEF OrderInv
    <2>2. \A i \in Reads : i < r => status[i] # "unused"
      <3>1. CASE r = 1
        BY <3>1 DEF Reads
      <3>2. CASE r # 1
        <4>1. r - 1 \in Reads /\ status[r - 1] # "unused"
          BY <3>2, HidAssumption DEF Reads, ReadFile
        <4>2. QED
          BY <2>1, <4>1, HidAssumption DEF Reads
      <3>3. QED
        BY <3>1, <3>2
    <2>3. QED
      BY <1>4, <2>1, <2>2
  <1>11. ASSUME NEW x \in Reads, status'[x] = "pending"
         PROVE  (Serving /\ x = rd.req) \/ In(x, rd.rest) \/ In(x, queue')
    <2>1. CASE x = r
      <3>1. Len(queue) + 1 \in 1..Len(queue')
        BY <1>7
      <3>2. QED
        BY <1>7, <2>1, <3>1 DEF In
    <2>2. CASE x # r
      <3>1. (Serving /\ x = rd.req) \/ In(x, rd.rest) \/ In(x, queue)
        BY <1>1, <1>4, <1>11, <2>2 DEF OrderInv
      <3>2. In(x, queue) => In(x, queue')
        BY <1>7 DEF In
      <3>3. QED
        BY <3>1, <3>2
    <2>3. QED
      BY <2>1, <2>2
  <1>12. Serving => /\ rd.req \in Reads /\ status'[rd.req] # "unused"
                    /\ First(rd.req, rd.rest) /\ First(rd.req, queue')
    <2>1. Serving => /\ rd.req \in Reads /\ status[rd.req] # "unused"
                     /\ First(rd.req, rd.rest) /\ First(rd.req, queue)
      BY <1>1 DEF OrderInv
    <2>2. QED
      BY <1>4, <1>7, <1>9, <2>1 DEF First
  <1>13. Increasing(rd.rest) /\ Increasing(queue') /\ Below(rd.rest, queue')
    <2>1. Increasing(rd.rest) /\ Increasing(queue) /\ Below(rd.rest, queue)
      BY <1>1 DEF OrderInv
    <2>2. QED
      BY <1>7, <1>8, <1>9, <2>1 DEF Increasing, Below
  <1>14. /\ \A k \in 1..Len(rd.rest) : status'[rd.rest[k]] # "unused"
         /\ \A k \in 1..Len(queue') : status'[queue'[k]] # "unused"
    BY <1>4, <1>7, <1>8, <1>9
  <1>15. ReadsInOrder'
    <2>1. ReadsInOrder
      BY <1>1 DEF OrderInv
    <2>2. QED
      BY <1>4, <1>5, <2>1 DEF ReadsInOrder, Reads
  <1>16. QED
    BY <1>6, <1>10, <1>11, <1>12, <1>13, <1>14, <1>15
    DEF OrderInv, Issued, Increasing, Below, First, In

(* The reader takes the oldest read, or all of them to cancel them. *)
LEMMA TakeOrder ==
    ASSUME HidInv, ReaderTakes
    PROVE  OrderInv'
  <1>1. ReadShape /\ OrderInv /\ rd \in Reader
    BY DEF HidInv, ShapeInv, ReadShape
  <1>2. rd.at = "wait" /\ rd.rest = <<>> /\ ~Serving /\ UNCHANGED status
    BY <1>1 DEF ReaderTakes, OrderInv, Serving
  <1>3. /\ \A i, j \in Reads : i < j /\ status[j] # "unused" => status[i] # "unused"
        /\ \A r \in Reads : status[r] = "pending" => In(r, queue)
        /\ Increasing(queue) /\ Issued(queue) /\ ReadsInOrder
    BY <1>1, <1>2, EmptyFacts DEF OrderInv
  <1>4. ReadsInOrder' /\ (Issued(queue) => \A k \in 1..Len(queue) : status'[queue[k]] # "unused")
    BY <1>2, <1>3 DEF ReadsInOrder, Issued
  <1>5. queue # <<>> =>
          /\ Head(queue) \in Reads /\ status[Head(queue)] # "unused"
          /\ First(Head(queue), Tail(queue))
          /\ Tail(queue) \in Seq(Reads) /\ Increasing(Tail(queue)) /\ Issued(Tail(queue))
          /\ \A r : In(r, queue) => r = Head(queue) \/ In(r, Tail(queue))
    BY <1>1, <1>3, TakeFirst DEF ReadShape
  <1>6. CASE /\ queue # <<>>
             /\ rd' = [rd EXCEPT !.at = "read", !.req = Head(queue)]
             /\ queue' = Tail(queue)
    <2>1. rd'.at = "read" /\ rd'.req = Head(queue) /\ rd'.rest = <<>> /\ Serving'
      BY <1>1, <1>2, <1>6 DEF Reader, Serving
    <2>2. \A r \in Reads : status'[r] = "pending" => r = rd'.req \/ In(r, queue')
      BY <1>2, <1>3, <1>5, <1>6, <2>1
    <2>3. /\ rd'.req \in Reads /\ status'[rd'.req] # "unused"
          /\ First(rd'.req, queue') /\ Increasing(queue') /\ Issued(queue)'
      BY <1>2, <1>5, <1>6, <2>1 DEF Issued
    <2>4. /\ First(rd'.req, rd'.rest) /\ Increasing(rd'.rest) /\ Below(rd'.rest, queue')
          /\ Issued(rd.rest)'
      <3>1. \A k \in 1..Len(rd'.rest) : FALSE
        BY <2>1
      <3>2. QED
        BY <3>1 DEF First, Increasing, Below, Issued
    <2>5. QED
      BY <1>2, <1>3, <1>4, <2>1, <2>2, <2>3, <2>4 DEF OrderInv, In, First, Increasing, Below
  <1>7. CASE queue = <<>> /\ rd' = [rd EXCEPT !.at = "exit"] /\ queue' = <<>>
    <2>1. rd'.at = "exit" /\ rd'.req = rd.req /\ rd'.rest = <<>> /\ ~Serving' /\ queue' = queue
      BY <1>1, <1>2, <1>7 DEF Reader, Serving
    <2>2. QED
      BY <1>1, <1>2, <1>4, <2>1 DEF OrderInv, Issued, In, First, Increasing, Below
  <1>8. CASE /\ queue # <<>>
             /\ rd' = [rd EXCEPT !.at = "complete", !.req = Head(queue), !.res = "cancelled",
                                 !.rest = Tail(queue)]
             /\ queue' = <<>>
    <2>1. rd'.at = "complete" /\ rd'.req = Head(queue) /\ rd'.rest = Tail(queue) /\ Serving'
      BY <1>1, <1>8 DEF Reader, Serving
    <2>2. \A r \in Reads : status'[r] = "pending" => r = rd'.req \/ In(r, rd'.rest)
      BY <1>2, <1>3, <1>5, <1>8, <2>1
    <2>3. /\ rd'.req \in Reads /\ status'[rd'.req] # "unused"
          /\ First(rd'.req, rd'.rest) /\ Increasing(rd'.rest) /\ Issued(rd.rest)'
      BY <1>2, <1>5, <1>8, <2>1 DEF Issued
    <2>4. First(rd'.req, queue') /\ Increasing(queue') /\ Below(rd'.rest, queue') /\ Issued(queue)'
      <3>1. \A k \in 1..Len(queue') : FALSE
        BY <1>8
      <3>2. QED
        BY <3>1 DEF First, Increasing, Below, Issued
    <2>5. QED
      BY <1>2, <1>3, <1>4, <2>1, <2>2, <2>3, <2>4 DEF OrderInv, In, First, Increasing, Below
  <1>9. QED
    BY <1>6, <1>7, <1>8 DEF ReaderTakes

(* Completing the read in service, the oldest of all pending ones. *)
LEMMA CompleteOrder ==
    ASSUME HidInv, ReaderCompletes
    PROVE  OrderInv'
  <1>1. ReadShape /\ OrderInv /\ rd \in Reader
    BY DEF HidInv, ShapeInv, ReadShape
  <1>2. /\ rd.at = "complete" /\ Serving /\ UNCHANGED queue
        /\ rd'.at = "touch" /\ rd'.req = rd.req /\ rd'.rest = rd.rest /\ ~Serving'
    BY <1>1 DEF ReaderCompletes, Serving, Reader
  <1>3. /\ rd.req \in Reads /\ status[rd.req] # "unused"
        /\ First(rd.req, rd.rest) /\ First(rd.req, queue)
        /\ Increasing(rd.rest) /\ Increasing(queue) /\ Below(rd.rest, queue)
        /\ Issued(rd.rest) /\ Issued(queue) /\ ReadsInOrder
    BY <1>1, <1>2 DEF OrderInv
  <1>4. /\ \A x \in Reads : status'[x] = IF x = rd.req THEN rd.res ELSE status[x]
        /\ rd.res \in {"success", "cancelled"}
    BY <1>1, <1>3 DEF ReaderCompletes, ReadShape, Reader
  <1>5. \A x \in Reads : status'[x] = "unused" <=> status[x] = "unused"
    BY <1>3, <1>4
  <1>6. \A i, j \in Reads : i < j /\ status'[j] # "unused" => status'[i] # "unused"
    BY <1>1, <1>5 DEF OrderInv
  <1>7. \A x \in Reads : status'[x] = "pending" => x # rd.req /\ status[x] = "pending"
    BY <1>4
  <1>8. \A x \in Reads : status'[x] = "pending" => In(x, rd.rest) \/ In(x, queue)
    BY <1>1, <1>7 DEF OrderInv
  <1>9. \A x \in Reads : status'[x] = "pending" => rd.req < x
    BY <1>3, <1>8 DEF First, In
  <1>10. ReadsInOrder'
    <2>1. ASSUME NEW i \in Reads, NEW j \in Reads, i < j, status'[j] \in {"success", "cancelled"},
                 status'[i] = "pending"
          PROVE  FALSE
      <3>1. rd.req < i /\ status[i] = "pending"
        BY <1>7, <1>9, <2>1
      <3>2. j # rd.req
        BY <1>3, <2>1, <3>1 DEF Reads
      <3>3. QED
        BY <1>3, <1>4, <2>1, <3>1, <3>2 DEF ReadsInOrder
    <2>2. QED
      BY <2>1 DEF ReadsInOrder
  <1>11. /\ \A k \in 1..Len(rd.rest) : rd.rest[k] \in Reads
         /\ \A k \in 1..Len(queue) : queue[k] \in Reads
    BY <1>1 DEF ReadShape, Reader
  <1>12. /\ \A k \in 1..Len(rd.rest) : status'[rd.rest[k]] # "unused"
         /\ \A k \in 1..Len(queue) : status'[queue[k]] # "unused"
    BY <1>3, <1>5, <1>11 DEF Issued
  <1>13. QED
    BY <1>2, <1>3, <1>6, <1>8, <1>10, <1>12 DEF OrderInv, Issued, In, First, Increasing, Below

(* Going on to the next read to cancel, or back to the top. *)
LEMMA TouchOrder ==
    ASSUME HidInv, ReaderTouches
    PROVE  OrderInv'
  <1>1. ReadShape /\ OrderInv /\ rd \in Reader
    BY DEF HidInv, ShapeInv, ReadShape
  <1>2. rd.at = "touch" /\ ~Serving /\ UNCHANGED <<queue, status>>
    BY DEF ReaderTouches, Serving, reads
  <1>3. /\ \A i, j \in Reads : i < j /\ status[j] # "unused" => status[i] # "unused"
        /\ \A r \in Reads : status[r] = "pending" => In(r, rd.rest) \/ In(r, queue)
        /\ Increasing(rd.rest) /\ Increasing(queue) /\ Below(rd.rest, queue)
        /\ Issued(rd.rest) /\ Issued(queue) /\ ReadsInOrder
    BY <1>1, <1>2 DEF OrderInv
  <1>4. ReadsInOrder' /\ Issued(queue)' /\ Increasing(queue)'
    BY <1>2, <1>3 DEF ReadsInOrder, Issued, Increasing
  <1>5. CASE rd.rest = <<>>
    <2>1. rd'.at = "top" /\ rd'.rest = rd.rest /\ ~Serving'
      BY <1>1, <1>5 DEF ReaderTouches, Reader, Serving
    <2>2. QED
      BY <1>2, <1>3, <1>4, <1>5, <2>1 DEF OrderInv, In, First, Increasing, Below, Issued
  <1>6. CASE rd.rest # <<>>
    <2>1. /\ rd'.at = "complete" /\ rd'.req = Head(rd.rest) /\ rd'.rest = Tail(rd.rest) /\ Serving'
      BY <1>1, <1>6 DEF ReaderTouches, Reader, Serving
    <2>2. rd.rest \in Seq(Reads)
      BY <1>1 DEF Reader
    <2>3. /\ Head(rd.rest) \in Reads /\ status[Head(rd.rest)] # "unused"
          /\ First(Head(rd.rest), Tail(rd.rest))
          /\ Tail(rd.rest) \in Seq(Reads) /\ Increasing(Tail(rd.rest)) /\ Issued(Tail(rd.rest))
          /\ \A r : In(r, rd.rest) => r = Head(rd.rest) \/ In(r, Tail(rd.rest))
          /\ First(Head(rd.rest), queue) /\ Below(Tail(rd.rest), queue)
      BY <1>1, <1>3, <1>6, <2>2, TakeFirst
    <2>4. \A r \in Reads : status'[r] = "pending" => r = rd'.req \/ In(r, rd'.rest) \/ In(r, queue')
      BY <1>2, <1>3, <2>1, <2>3
    <2>5. /\ rd'.req \in Reads /\ status'[rd'.req] # "unused"
          /\ First(rd'.req, rd'.rest) /\ First(rd'.req, queue')
          /\ Increasing(rd'.rest) /\ Below(rd'.rest, queue') /\ Issued(rd.rest)'
      BY <1>2, <2>1, <2>3 DEF Issued
    <2>6. QED
      BY <1>2, <1>3, <1>4, <2>1, <2>4, <2>5 DEF OrderInv, In, First, Increasing, Below
  <1>7. QED
    BY <1>5, <1>6

LEMMA OrderNext ==
    ASSUME HidInv, [Next]_vars
    PROVE  OrderInv'
  <1>1. OrderInv /\ rd \in Reader
    BY DEF HidInv, ShapeInv, ReadShape
  <1>2. ASSUME UNCHANGED <<queue, status>>, rd'.req = rd.req, rd'.rest = rd.rest, Serving' <=> Serving,
               rd.rest = <<>> \/ rd' = rd
        PROVE  OrderInv'
    BY <1>1, <1>2 DEF OrderInv, Issued, ReadsInOrder, In, First, Increasing, Below
  <1>3. CASE ReaderTop \/ ReaderReads \/ ReaderPolled \/ ReaderChecks
    <2>1. fd \in {"ok", "gone"}
      BY DEF HidInv, ShapeInv, SensorShape
    <2>2. rd.at \in {"top", "read", "poll", "check"} /\ UNCHANGED <<queue, status>>
      BY <1>3 DEF ReaderTop, ReaderReads, ReaderPolled, ReaderChecks, reads
    <2>3. rd.rest = <<>>
      BY <1>1, <2>2 DEF OrderInv
    <2>4. rd'.req = rd.req /\ rd'.rest = rd.rest
      BY <1>1, <1>3, <2>1 DEF Reader, ReaderTop, ReaderReads, ReaderPolled, ReaderChecks
    <2>5. Serving' <=> Serving
      BY <1>1, <1>3, <2>1 DEF Reader, ReaderTop, ReaderReads, ReaderPolled, ReaderChecks, Serving
    <2>6. QED
      BY <1>2, <2>2, <2>3, <2>4, <2>5
  <1>4. CASE UNCHANGED <<queue, status, rd>>
    BY <1>2, <1>4 DEF Serving
  <1>5. QED
    BY <1>3, <1>4, IssueOrder, TakeOrder, CompleteOrder, TouchOrder
    DEF Next, ReaderStep, ControlStep, SendReport, DeviceLost, ShutDown, GetOverlappedResult, WriteFile,
        CloseHandle, hid_file_destroy, SetFeatureWait, SetFeatureEnd, SetFeatureEndFails, SetFeatureOther, WaitSent, EndSent,
        DrainPolls, DrainReads, HidD_FlushQueue, vars, reads

-----------------------------------------------------------------------------
LEMMA HidInit == Init => HidInv
  <1> SUFFICES ASSUME Init PROVE HidInv
    OBVIOUS
  <1> USE HidAssumption
  <1>1. SensorShape
    <2>1. fifo \in Seq(Reports) /\ Len(fifo) = 0
      BY DEF Init
    <2>2. sent = 0 /\ armed = FALSE /\ owed = FALSE /\ fd = "ok"
      BY DEF Init
    <2>3. sent \in 0..MaxReports /\ Len(fifo) <= sent
      BY <2>1, <2>2
    <2>4. QED
      BY <2>1, <2>2, <2>3, Zenon DEF SensorShape
  <1>2. ThreadShape
    BY DEF Init, ThreadShape
  <1>3. <<>> \in Seq(Reads)
    OBVIOUS
  <1>4. rd \in Reader
    BY <1>3 DEF Init, Reader, NoRead
  <1>5. ReadShape
    BY <1>3, <1>4 DEF Init, ReadShape
  <1>6. EventInv
    BY DEF Init, EventInv, HasEvent
  <1>7. OrderInv
    <2>1. rd.at = "none" /\ rd.rest = <<>> /\ queue = <<>> /\ ~Serving
      BY DEF Init, Serving
    <2>2. \A r \in Reads : status[r] = "unused"
      BY DEF Init
    <2>3. ReadsInOrder
      BY <2>2 DEF ReadsInOrder
    <2>4. QED
      BY <2>1, <2>2, <2>3, EmptyFacts DEF OrderInv
  <1>8. LifeInv
    BY DEF Init, LifeInv
  <1>9. QED
    BY <1>1, <1>2, <1>5, <1>6, <1>7, <1>8 DEF HidInv, ShapeInv

LEMMA HidNext == HidInv /\ [Next]_vars => HidInv'
  BY SensorNext, ThreadNext, ReadNext, EventNext, OrderNext, LifeNext DEF HidInv, ShapeInv

LEMMA HidInvariant == Spec => []HidInv
  BY HidInit, HidNext, PTL DEF Spec

(* Whatever the sensor sends, however the reader's and the other thread's   *)
(* steps interleave and whenever the device is lost or the file closed:     *)
(* reads complete in the order they were issued, the reader never outlives  *)
(* its context, and a wait for a finger begins with no stale event in the   *)
(* buffer (fileops.c:160-336, hiddll.c:412-481).                            *)
THEOREM HidChannelSound == Spec => []ChannelSound
  <1>1. HidInv => TypeOK
    <2> SUFFICES ASSUME HidInv PROVE TypeOK
      OBVIOUS
    <2>1. Len(fifo) <= MaxReports
      BY HidAssumption DEF HidInv, ShapeInv, SensorShape
    <2>2. /\ rd.at \in {"none", "top", "wait", "read", "poll", "check", "complete", "touch", "exit"}
          /\ rd.req \in Reads \cup {NoRead} /\ rd.rep \in Reports \cup {"none"}
          /\ rd.res \in {"success", "cancelled"} /\ rd.rest \in Seq(Reads)
      BY DEF HidInv, ShapeInv, ReadShape, Reader
    <2>3. QED
      BY <2>1, <2>2 DEF HidInv, ShapeInv, SensorShape, ThreadShape, ReadShape, TypeOK
  <1>2. HidInv => ReadsInOrder
    BY DEF HidInv, OrderInv
  <1>3. HidInv => ContextOutlivesReader
    BY DEF HidInv, LifeInv, ContextOutlivesReader
  <1>4. HidInv => FreshWait
    BY DEF HidInv, EventInv, HasEvent, FreshWait
  <1>5. HidInv => ChannelSound
    BY <1>1, <1>2, <1>3, <1>4 DEF ChannelSound
  <1>6. QED
    BY <1>5, HidInvariant, PTL

(* The reader never throws away an event of a sensor that waits for a       *)
(* finger: whoever closes the filter has disarmed the sensor before         *)
(* (hiddll.c:412-421, 446-450), unless an 'end event' failed.               *)
THEOREM HidNoEventDropped == Spec => NoEventDropped
  <1>1. HidInv /\ [Next]_vars => [rd.at = "check" /\ rd.rep = "event" /\ rd'.at = "read" => ~armed \/ unended]_vars
    <2> SUFFICES ASSUME HidInv, [Next]_vars, rd.at = "check", rd.rep = "event", rd'.at = "read"
                 PROVE  ~armed \/ unended
      OBVIOUS
    <2>1. rd \in Reader /\ (armed /\ ~unended => pass)
      BY DEF HidInv, ShapeInv, ReadShape, EventInv
    <2>2. ASSUME NEW r \in Reads, ReadFile(r)
          PROVE  rd' = rd
      <3>1. file.started
        BY DEF HidInv, LifeInv
      <3>2. QED
        BY <2>2, <3>1 DEF ReadFile
    <2>3. ReaderChecks
      BY <2>2 DEF Next, ReaderStep, ControlStep, SendReport, DeviceLost, ShutDown,
                  GetOverlappedResult, WriteFile, CloseHandle, hid_file_destroy, ReaderTop,
                  ReaderTakes, ReaderReads, ReaderPolled, ReaderCompletes, ReaderTouches,
                  SetFeatureWait, SetFeatureEnd, SetFeatureEndFails, SetFeatureOther, WaitSent, EndSent, DrainPolls,
                  DrainReads, HidD_FlushQueue, vars
    <2>4. Dropped(rd.rep)
      BY <2>1, <2>3 DEF ReaderChecks, Reader
    <2>5. QED
      BY <2>1, <2>4 DEF Dropped
  <1>2. QED
    BY <1>1, HidInvariant, PTL DEF Spec, NoEventDropped
=============================================================================
