------------------------- MODULE WindowManagerProofs -------------------------
(***************************************************************************)
(* WindowManager, for every window size, step, set of timestamps and       *)
(* arrival numbers: typing, the three safety properties and the            *)
(* implementation of SlidingWindow, from one inductive invariant.          *)
(***************************************************************************)
EXTENDS WindowManager, TLAPS

\* Arrival order is time order, and lastTime is the latest of them.
InTimeOrder ==
  /\ \A q, r \in accepted : q.n <= r.n => q.timestamp <= r.timestamp
  /\ \A r \in accepted : r.timestamp <= lastTime

\* The deque and the deadline exist from the first record on.
InitializedByFirst == initialized <=> accepted # {}

\* Either no window was emitted and every record lies in the first one to
\* come, or the last window is the one a step before the next.
WindowBehindNext ==
  \/ /\ outWindow = NoWindow
     /\ \A r \in accepted : r.timestamp >= nextEmitTime - windowSize
  \/ /\ initialized
     /\ outWindow.endTime = nextEmitTime - stepSize
     /\ outWindow.startTime = outWindow.endTime - windowSize
     /\ outWindow.endTime <= lastTime

IInv ==
  /\ TypeOK
  /\ InTimeOrder
  /\ InitializedByFirst
  /\ WindowBehindNext
  /\ BufferHoldsWhatIsNeeded
  /\ WindowIsComplete
  /\ NoRecordSkipped

\* The fields of a record are numbers.
LEMMA RecordTypes ==
  ASSUME NEW r \in Records
  PROVE  r.n \in Int /\ r.timestamp \in Timestamps /\ r.timestamp \in Nat
<1>1. r.n \in Arrivals /\ r.timestamp \in Timestamps
  BY DEF Records
<1>2. \A n \in Arrivals : n \in Int
  BY ArrivalsAssumption
<1>3. r.timestamp \in Nat
  BY <1>1, TimestampsAssumption
<1> QED
  BY <1>1, <1>2, <1>3

\* Dropping the old front of records in time order drops exactly the old ones
\* (the loop at window_manager.cpp:41-43).
LEMMA PruneIsFilter ==
  ASSUME NEW s \in SUBSET Records, NEW lo \in Int,
         \A q, r \in s : q.n <= r.n => q.timestamp <= r.timestamp
  PROVE  Prune(s, lo) = {r \in s : r.timestamp >= lo}
<1>1. \A r \in s : r.n \in Int /\ r.timestamp \in Int
  BY RecordTypes
<1>2. ASSUME NEW r \in s, NEW q \in s, q.n <= r.n, q.timestamp >= lo
      PROVE  r.timestamp >= lo
  BY <1>1, <1>2
<1>3. ASSUME NEW r \in s, r.timestamp >= lo
      PROVE  \E q \in s : q.n <= r.n /\ q.timestamp >= lo
  BY <1>1, <1>3
<1> QED
  BY <1>2, <1>3 DEF Prune

LEMMA InitIInv == Init => IInv
<1> SUFFICES ASSUME Init PROVE IInv
  OBVIOUS
<1>1. TypeOK
  <2>1. NoWindow \in [startTime : Int, endTime : Int, records : SUBSET Records]
    BY DEF NoWindow
  <2> QED
    BY <2>1 DEF Init, TypeOK
<1>2. InTimeOrder /\ InitializedByFirst /\ WindowBehindNext
  BY DEF Init, InTimeOrder, InitializedByFirst, WindowBehindNext
<1>3. BufferHoldsWhatIsNeeded /\ WindowIsComplete /\ NoRecordSkipped
  BY DEF Init, BufferHoldsWhatIsNeeded, WindowIsComplete, NoRecordSkipped,
         Within, NoWindow
<1> QED
  BY <1>1, <1>2, <1>3 DEF IInv

\* What an accepted record leaves true whether or not a window is emitted.
LEMMA AcceptKeepsOrder ==
  ASSUME IInv, NEW t \in Timestamps, NEW r \in Records, Accept(r, t)
  PROVE  /\ accepted' \subseteq Records
         /\ lastTime' \in Nat
         /\ EmitTime(t) \in Nat
         /\ InTimeOrder'
         /\ InitializedByFirst'
<1>1. r.timestamp = t /\ r.n \in Int /\ t \in Nat
  BY RecordTypes DEF Accept, IsNext
<1>2. \A q \in accepted : q.n \in Int /\ q.timestamp \in Int /\ q.n < r.n
  BY RecordTypes, <1>1 DEF IInv, TypeOK, Accept, IsNext
<1>3. \A q \in accepted : q.timestamp <= t
  <2>1. CASE initialized
    BY <1>1, <1>2, <2>1 DEF IInv, TypeOK, InTimeOrder, Accept
  <2>2. CASE ~initialized
    BY <2>2 DEF IInv, InitializedByFirst
  <2> QED BY <2>1, <2>2
<1>4. accepted' \subseteq Records /\ lastTime' \in Nat /\ EmitTime(t) \in Nat
  BY <1>1, SizesAssumption DEF IInv, TypeOK, Accept, EmitTime
<1>5. InTimeOrder'
  BY <1>1, <1>2, <1>3 DEF IInv, InTimeOrder, Accept
<1>6. InitializedByFirst'
  BY DEF InitializedByFirst, Accept
<1> QED BY <1>4, <1>5, <1>6

LEMMA BufferRecordKeepsIInv ==
  ASSUME IInv, NEW t \in Timestamps, NEW r \in Records, BufferRecord(r, t)
  PROVE  IInv'
<1> USE SizesAssumption
<1>1. Accept(r, t) /\ r.timestamp = t /\ t \in Nat
  BY TimestampsAssumption DEF BufferRecord, Accept, IsNext
<1>2. /\ accepted' \subseteq Records
      /\ lastTime' \in Nat
      /\ EmitTime(t) \in Nat
      /\ InTimeOrder'
      /\ InitializedByFirst'
  BY <1>1, AcceptKeepsOrder
<1>3. /\ accepted' = accepted \cup {r}
      /\ buffer' = buffer \cup {r}
      /\ nextEmitTime' = EmitTime(t)
      /\ lastTime' = t
      /\ initialized'
      /\ initialized => t >= lastTime
      /\ UNCHANGED <<outWindow, emitted>>
  BY DEF BufferRecord, Accept
<1>4. TypeOK'
  BY <1>2, <1>3 DEF IInv, TypeOK, BufferRecord, Accept
<1>5. \A q \in accepted : q.timestamp \in Nat
  BY RecordTypes DEF IInv, TypeOK
<1>6. WindowBehindNext'
  <2>1. CASE initialized
    <3>1. nextEmitTime' = nextEmitTime
      BY <1>3, <2>1 DEF EmitTime
    <3>2. t >= nextEmitTime - windowSize \/ outWindow # NoWindow
      <4>1. CASE accepted # {} /\ outWindow = NoWindow
        <5>1. PICK q \in accepted : TRUE
          BY <4>1
        <5>2. q.timestamp <= lastTime /\ lastTime <= t
          BY <1>3, <2>1 DEF IInv, InTimeOrder
        <5>3. \/ q.timestamp >= nextEmitTime - windowSize
              \/ nextEmitTime = stepSize + outWindow.endTime
          BY DEF IInv, TypeOK, WindowBehindNext
        <5>4. outWindow.endTime = 0
          BY <4>1 DEF NoWindow
        <5> QED
          BY <1>1, <1>5, <5>2, <5>3, <5>4 DEF IInv, TypeOK
      <4>2. CASE accepted = {}
        BY <2>1, <4>2 DEF IInv, InitializedByFirst
      <4> QED BY <4>1, <4>2
    <3> QED
      BY <1>1, <1>3, <1>5, <2>1, <3>1, <3>2
         DEF IInv, TypeOK, WindowBehindNext
  <2>2. CASE ~initialized
    <3>1. accepted = {} /\ outWindow = NoWindow
      BY <2>2 DEF IInv, InitializedByFirst, WindowBehindNext
    <3>2. nextEmitTime' = t + windowSize
      BY <1>3, <2>2 DEF EmitTime
    <3> QED
      BY <1>1, <1>3, <3>1, <3>2 DEF WindowBehindNext
  <2> QED BY <2>1, <2>2
<1>7. BufferHoldsWhatIsNeeded'
  <2>1. CASE initialized
    <3>1. nextEmitTime' = nextEmitTime
      BY <1>3, <2>1 DEF EmitTime
    <3>2. t >= nextEmitTime - windowSize
      <4>1. PICK q \in accepted : TRUE
        BY <2>1 DEF IInv, InitializedByFirst
      <4>2. q.timestamp <= lastTime /\ lastTime <= t
        BY <1>3, <2>1 DEF IInv, InTimeOrder
      <4> QED
        BY <1>1, <1>5, <4>1, <4>2 DEF IInv, TypeOK, WindowBehindNext
    <3> QED
      BY <1>1, <1>3, <2>1, <3>1, <3>2 DEF IInv, BufferHoldsWhatIsNeeded
  <2>2. CASE ~initialized
    <3>1. accepted = {} /\ buffer = {} /\ nextEmitTime' = t + windowSize
      BY <1>3, <2>2 DEF IInv, TypeOK, InitializedByFirst, EmitTime
    <3> QED
      BY <1>1, <1>3, <3>1 DEF BufferHoldsWhatIsNeeded
  <2> QED BY <2>1, <2>2
<1>8. t >= outWindow.endTime
  <2>1. CASE outWindow = NoWindow
    BY <1>1, <2>1 DEF NoWindow
  <2>2. CASE outWindow # NoWindow
    BY <1>1, <1>3, <2>2 DEF IInv, TypeOK, WindowBehindNext
  <2> QED BY <2>1, <2>2
<1>9. WindowIsComplete' /\ NoRecordSkipped'
  BY <1>1, <1>3, <1>5, <1>8
     DEF IInv, TypeOK, WindowIsComplete, NoRecordSkipped, Within
<1> QED
  BY <1>2, <1>4, <1>6, <1>7, <1>9 DEF IInv

LEMMA EmitWindowKeepsIInv ==
  ASSUME IInv, NEW t \in Timestamps, NEW r \in Records, EmitWindow(r, t)
  PROVE  IInv'
<1> USE SizesAssumption
<1> DEFINE end == nextEmitTime
           window == Within(buffer \cup {r}, end - windowSize, end)
<1>1. Accept(r, t) /\ r.timestamp = t /\ t \in Nat
  BY TimestampsAssumption DEF EmitWindow, Accept, IsNext
<1>2. initialized /\ EmitTime(t) = end
  <2>1. t >= EmitTime(t)
    BY DEF EmitWindow
  <2> QED
    BY <1>1, <2>1 DEF EmitTime
<1>3. /\ accepted' \subseteq Records
      /\ lastTime' \in Nat
      /\ InTimeOrder'
      /\ InitializedByFirst'
  BY <1>1, AcceptKeepsOrder
<1>4. /\ accepted' = accepted \cup {r}
      /\ lastTime' = t
      /\ initialized'
      /\ t >= lastTime
      /\ t >= end
      /\ outWindow' = [startTime |-> end - windowSize, endTime |-> end,
                       records |-> window]
      /\ emitted' = emitted \cup window
      /\ nextEmitTime' = end + stepSize
      /\ buffer' = Prune(buffer \cup {r}, end + stepSize - windowSize)
      /\ returned' = TRUE
  BY <1>2 DEF EmitWindow, Accept
<1>5. \A q \in accepted : q.timestamp \in Nat
  BY RecordTypes DEF IInv, TypeOK
<1>6. buffer = {q \in accepted : q.timestamp >= end - windowSize}
  BY <1>2 DEF IInv, BufferHoldsWhatIsNeeded
<1>7. end \in Nat
  BY DEF IInv, TypeOK
<1>8. /\ window \subseteq accepted'
      /\ buffer' \subseteq accepted'
  BY <1>4, <1>6 DEF Within, Prune
<1>9. TypeOK'
  <2>1. /\ accepted' \subseteq Records
        /\ buffer' \subseteq accepted'
        /\ emitted' \subseteq accepted'
        /\ lastTime' \in Nat /\ initialized' \in BOOLEAN
        /\ returned' \in BOOLEAN
    BY <1>3, <1>4, <1>8 DEF IInv, TypeOK
  <2>2. nextEmitTime' \in Nat
    BY <1>4, <1>7
  <2>3. outWindow' \in [startTime : Int, endTime : Int,
                        records : SUBSET Records]
    <3>1. window \in SUBSET Records
      BY <1>3, <1>8
    <3>2. end - windowSize \in Int /\ end \in Int
      BY <1>7
    <3> HIDE DEF window, end
    <3> QED
      BY <1>4, <3>1, <3>2
  <2> QED BY <2>1, <2>2, <2>3 DEF TypeOK
<1>10. WindowBehindNext'
  BY <1>4, <1>7 DEF WindowBehindNext
<1>11. BufferHoldsWhatIsNeeded'
  <2>1. \A p, q \in buffer \cup {r} : p.n <= q.n => p.timestamp <= q.timestamp
    BY <1>3, <1>4, <1>6 DEF InTimeOrder
  <2>2. buffer' = {q \in buffer \cup {r} :
                     q.timestamp >= end + stepSize - windowSize}
    <3>1. buffer \cup {r} \in SUBSET Records
      BY DEF IInv, TypeOK
    <3>2. end + stepSize - windowSize \in Int
      BY <1>7
    <3> QED
      BY <1>4, <2>1, <3>1, <3>2, PruneIsFilter
  <2>3. nextEmitTime' - windowSize = end + stepSize - windowSize
    BY <1>4, <1>7
  <2>4. ASSUME NEW q \in accepted,
               q.timestamp >= end + stepSize - windowSize
        PROVE  q \in buffer
    BY <1>5, <1>6, <1>7, <2>4
  <2> QED
    BY <1>4, <1>6, <2>2, <2>3, <2>4 DEF BufferHoldsWhatIsNeeded
<1>12. WindowIsComplete'
  <2>1. ASSUME NEW q \in accepted', end - windowSize <= q.timestamp,
               q.timestamp < end
        PROVE  q \in window
    BY <1>1, <1>4, <1>5, <1>6, <1>7, <2>1 DEF Within
  <2>2. window \subseteq Within(accepted', end - windowSize, end)
    BY <1>8 DEF Within
  <2> QED
    BY <1>4, <2>1, <2>2 DEF WindowIsComplete
<1>13. NoRecordSkipped'
  <2> SUFFICES ASSUME NEW q \in accepted', q.timestamp < end
               PROVE  q \in emitted'
    BY <1>4 DEF NoRecordSkipped
  <2>1. q \in accepted
    BY <1>1, <1>4, <1>7
  <2>2. CASE q.timestamp >= end - windowSize
    BY <1>4, <1>5, <1>6, <1>7, <2>1, <2>2 DEF Within
  <2>3. CASE q.timestamp < end - windowSize
    <3>1. q.timestamp < outWindow.endTime
      BY <1>5, <1>7, <2>1, <2>3 DEF IInv, TypeOK, WindowBehindNext
    <3> QED
      BY <1>4, <2>1, <3>1 DEF IInv, NoRecordSkipped
  <2> QED BY <1>5, <1>7, <2>1, <2>2, <2>3
<1> QED
  BY <1>3, <1>9, <1>10, <1>11, <1>12, <1>13 DEF IInv

LEMMA NextKeepsIInv == IInv /\ [Next]_vars => IInv'
<1> SUFFICES ASSUME IInv, [Next]_vars PROVE IInv'
  OBVIOUS
<1>1. ASSUME NEW t \in Timestamps, RejectRecord(t)
      PROVE  IInv'
  BY <1>1
     DEF RejectRecord, IInv, TypeOK, InTimeOrder, InitializedByFirst,
         WindowBehindNext, BufferHoldsWhatIsNeeded, WindowIsComplete,
         NoRecordSkipped, Within
<1>2. ASSUME NEW t \in Timestamps, NEW n \in Arrivals,
             BufferRecord([n |-> n, timestamp |-> t], t)
      PROVE  IInv'
  BY <1>2, BufferRecordKeepsIInv DEF Records
<1>3. ASSUME NEW t \in Timestamps, NEW n \in Arrivals,
             EmitWindow([n |-> n, timestamp |-> t], t)
      PROVE  IInv'
  BY <1>3, EmitWindowKeepsIInv DEF Records
<1>4. CASE UNCHANGED vars
  BY <1>4
     DEF vars, IInv, TypeOK, InTimeOrder, InitializedByFirst,
         WindowBehindNext, BufferHoldsWhatIsNeeded, WindowIsComplete,
         NoRecordSkipped, Within
<1> QED
  BY <1>1, <1>2, <1>3, <1>4 DEF Next

\* The inductive invariant of addRecord (window_manager.cpp:13-49).
THEOREM Invariance == Spec => []IInv
<1> QED
  BY InitIInv, NextKeepsIInv, PTL DEF Spec

\* Every variable of addRecord keeps its type; the buffer and the emitted
\* records are accepted records.
THEOREM TypeCorrect == Spec => []TypeOK
<1>1. IInv => TypeOK
  BY DEF IInv
<1> QED
  BY <1>1, Invariance, PTL

\* The pruning loop (window_manager.cpp:41-43) never drops a record that a
\* window to come needs and keeps none that no window to come can hold.
THEOREM BufferExact == Spec => []BufferHoldsWhatIsNeeded
<1>1. IInv => BufferHoldsWhatIsNeeded
  BY DEF IInv
<1> QED
  BY <1>1, Invariance, PTL

\* An emitted window (window_manager.cpp:26-35) holds every record of its
\* interval, those that arrive after the emission included.
THEOREM WindowsComplete == Spec => []WindowIsComplete
<1>1. IInv => WindowIsComplete
  BY DEF IInv
<1> QED
  BY <1>1, Invariance, PTL

\* With stepSize <= windowSize no record falls between two windows
\* (window_manager.cpp:26-43).
THEOREM NoneSkipped == Spec => []NoRecordSkipped
<1>1. IInv => NoRecordSkipped
  BY DEF IInv
<1> QED
  BY <1>1, Invariance, PTL

-----------------------------------------------------------------------------

\* Each call of addRecord (window_manager.cpp:13-49) is a step of
\* SlidingWindow or leaves what the caller sees alone.
LEMMA StepImplementsSlidingWindow ==
  IInv /\ [Next]_vars => [SW!Next]_(SW!swvars)
<1> SUFFICES ASSUME IInv, [Next]_vars PROVE [SW!Next]_(SW!swvars)
  OBVIOUS
<1> USE SizesAssumption
<1>1. ASSUME NEW t \in Timestamps, NEW r \in Records, Accept(r, t)
      PROVE  SW!Extend(r) /\ t \in Nat
  <2>1. r.timestamp = t /\ t \in Nat
    BY <1>1, RecordTypes DEF Accept, IsNext
  <2>2. \A q \in accepted : q.n < r.n /\ q.timestamp <= lastTime
    BY <1>1 DEF Accept, IsNext, IInv, InTimeOrder
  <2>3. ASSUME NEW q \in accepted PROVE q.timestamp <= t
    <3>1. lastTime <= t /\ q.timestamp \in Nat /\ lastTime \in Nat
      BY <1>1, RecordTypes DEF Accept, IInv, TypeOK, InitializedByFirst
    <3> QED
      BY <2>1, <2>2, <3>1
  <2> QED
    BY <1>1, <2>1, <2>2, <2>3 DEF SW!Extend, Accept
<1>2. ASSUME NEW t \in Timestamps, NEW r \in Records, BufferRecord(r, t)
      PROVE  SW!Start(r) \/ SW!Collect(r)
  <2>1. /\ SW!Extend(r)
        /\ r.timestamp = t
        /\ t < EmitTime(t)
        /\ nextEmitTime' = EmitTime(t)
        /\ outWindow' = outWindow
    BY <1>1, <1>2 DEF BufferRecord, Accept, IsNext
  <2>2. CASE initialized
    BY <2>1, <2>2
       DEF EmitTime, IInv, InitializedByFirst, SW!Collect
  <2>3. CASE ~initialized
    BY <2>1, <2>3
       DEF EmitTime, IInv, InitializedByFirst, SW!Start
  <2> QED BY <2>2, <2>3
<1>3. ASSUME NEW t \in Timestamps, NEW r \in Records, EmitWindow(r, t)
      PROVE  SW!Slide(r)
  <2>1. SW!Extend(r) /\ r.timestamp = t /\ t \in Nat /\ t >= EmitTime(t)
    BY <1>1, <1>3 DEF EmitWindow, Accept, IsNext
  <2>2. initialized /\ EmitTime(t) = nextEmitTime /\ accepted # {}
    BY <2>1 DEF EmitTime, IInv, InitializedByFirst
  <2> DEFINE lo == nextEmitTime - windowSize
             window == Within(buffer \cup {r}, lo, nextEmitTime)
  <2>3. /\ nextEmitTime' = nextEmitTime + stepSize
        /\ accepted' = accepted \cup {r}
        /\ outWindow' = [startTime |-> lo, endTime |-> nextEmitTime,
                         records |-> window]
    BY <1>3, <2>2 DEF EmitWindow, Accept
  <2>4. nextEmitTime \in Nat /\ lo \in Int
    BY DEF IInv, TypeOK
  <2>5. window = {q \in accepted' : q.timestamp \in lo..nextEmitTime}
    <3>1. buffer = {q \in accepted : q.timestamp >= lo}
      BY <2>2 DEF IInv, BufferHoldsWhatIsNeeded
    <3>2. \A q \in accepted' : q.timestamp \in Int
      BY <2>3, RecordTypes DEF IInv, TypeOK
    <3> QED
      BY <2>3, <2>4, <3>1, <3>2 DEF Within
  <2>6. outWindow' = SW!WindowOf(accepted', nextEmitTime)
    BY <2>3, <2>5 DEF SW!WindowOf
  <2> QED
    BY <2>1, <2>2, <2>3, <2>6 DEF SW!Slide
<1>4. ASSUME NEW t \in Timestamps, NEW n \in Arrivals,
             \/ BufferRecord([n |-> n, timestamp |-> t], t)
             \/ EmitWindow([n |-> n, timestamp |-> t], t)
      PROVE  SW!Next
  <2> DEFINE r == [n |-> n, timestamp |-> t]
  <2>1. r \in Records
    BY DEF Records
  <2>2. SW!Start(r) \/ SW!Collect(r) \/ SW!Slide(r)
    BY <1>2, <1>3, <1>4, <2>1
  <2> QED
    BY <2>2 DEF SW!Next
<1>5. ASSUME NEW t \in Timestamps, RejectRecord(t)
      PROVE  UNCHANGED SW!swvars
  BY <1>5 DEF RejectRecord, SW!swvars
<1>6. CASE UNCHANGED vars
  BY <1>6 DEF vars, SW!swvars
<1> QED
  BY <1>4, <1>5, <1>6 DEF Next

\* The windows PRISM's loop receives are those of SlidingWindow, cut from the
\* whole stream although addRecord (window_manager.cpp:13-49) keeps only a
\* buffer of it.
THEOREM Implementation == Spec => ImplementsSlidingWindow
<1>1. Init => SW!Init
  BY DEF Init, NoWindow, SW!Init
<1> QED
  BY <1>1, Invariance, StepImplementsSlidingWindow, PTL
     DEF Spec, SW!Spec, ImplementsSlidingWindow
=============================================================================
