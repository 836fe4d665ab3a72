---------------------------- MODULE WindowManager ----------------------------
(***************************************************************************)
(* prism::windowing::WindowManager (src/PRISM/src/window/                  *)
(* window_manager.cpp): the sliding window that PRISM's packet loop feeds  *)
(* one parsed record at a time.  A call of addRecord either rejects the    *)
(* record, buffers it, or buffers it and emits ONE window.                 *)
(*                                                                         *)
(* A record is abstracted to its timestamp and to its arrival number n.    *)
(* The deque is the set of the records it holds: their arrival numbers are *)
(* their order, push_back adds the highest and pop_front takes the lowest. *)
(***************************************************************************)
EXTENDS Integers

CONSTANTS
  windowSize,   \* length of a window (5000 ms in main.cpp:61)
  stepSize,     \* distance between windows (1000 ms in main.cpp:61)
  Timestamps,   \* the instants a record can carry
  Arrivals      \* the numbers records arrive with

\* main.cpp:61 passes 5000 ms and 1000 ms: windows overlap and never leave a
\* gap between two of them.
ASSUME SizesAssumption ==
  /\ windowSize \in Nat
  /\ stepSize \in 1..windowSize

ASSUME TimestampsAssumption == Timestamps \subseteq Nat

ASSUME ArrivalsAssumption == Arrivals \subseteq Nat \ {0}

VARIABLES
  buffer,         \* the records the deque holds
  nextEmitTime,   \* end of the next window to emit
  lastTime,       \* timestamp of the last accepted record
  initialized,    \* has a record been accepted
  outWindow,      \* the caller's window, written when one is emitted
  returned,       \* what the last call of addRecord returned
  accepted,       \* history: every record ever accepted
  emitted         \* history: every record that was in some emitted window

vars == <<buffer, nextEmitTime, lastTime, initialized, outWindow, returned,
          accepted, emitted>>

Records == [n : Arrivals, timestamp : Timestamps]

NoWindow == [startTime |-> 0, endTime |-> 0, records |-> {}]

TypeOK ==
  /\ accepted \subseteq Records
  /\ buffer \subseteq accepted
  /\ emitted \subseteq accepted
  /\ nextEmitTime \in Nat
  /\ lastTime \in Nat
  /\ initialized \in BOOLEAN
  /\ returned \in BOOLEAN
  /\ outWindow \in [startTime : Int, endTime : Int, records : SUBSET Records]

-----------------------------------------------------------------------------

\* The records of s from lo to hi, both ends included.
Within(s, lo, hi) == {r \in s : lo <= r.timestamp /\ r.timestamp <= hi}

\* Mutant: the loop pops the records on the boundary too (<= for <).
Prune_Boundary(s, oldestNeeded) ==
  {r \in s : \E q \in s : q.n <= r.n /\ q.timestamp > oldestNeeded}

\* Mutant: the buffer is cleared once its window is out.
Prune_All(s, oldestNeeded) == {}

\* pop_front while the front is older than oldestNeeded: what is left starts
\* at the first record that is not.
Prune(s, oldestNeeded) ==
  {r \in s : \E q \in s : q.n <= r.n /\ q.timestamp >= oldestNeeded}

\* Mutant: each record ends a window of its own.
EmitTime_Now(t) == IF initialized THEN t ELSE t + windowSize

\* The instant that makes a window due; the first record ever sets it.
EmitTime(t) == IF initialized THEN nextEmitTime ELSE t + windowSize

\* r is the next record, with timestamp t: its number follows the highest.
IsNext(r, t) ==
  /\ r.timestamp = t
  /\ \A q \in accepted : q.n < r.n
  /\ r.n = 1 \/ \E q \in accepted : q.n = r.n - 1

\* Mutant: push_back comes before the check of the timestamp.
RejectRecord_Buffers(t) ==
  /\ initialized
  /\ t < lastTime
  /\ \E n \in Arrivals : buffer' = buffer \cup {[n |-> n, timestamp |-> t]}
  /\ returned' = FALSE
  /\ UNCHANGED <<nextEmitTime, lastTime, initialized, outWindow, accepted,
                 emitted>>

\* addRecord of a record older than the last one: refused, nothing changes.
RejectRecord(t) ==
  /\ initialized
  /\ t < lastTime
  /\ returned' = FALSE
  /\ UNCHANGED <<buffer, nextEmitTime, lastTime, initialized, outWindow,
                 accepted, emitted>>

\* Mutant: no check that time moves on.
Accept_AnyOrder(r, t) ==
  /\ IsNext(r, t)
  /\ accepted' = accepted \cup {r}
  /\ lastTime' = t
  /\ initialized' = TRUE

\* What every accepted record does before the emission test.
Accept(r, t) ==
  /\ initialized => t >= lastTime
  /\ IsNext(r, t)
  /\ accepted' = accepted \cup {r}
  /\ lastTime' = t
  /\ initialized' = TRUE

\* addRecord of a record that comes before the window is due.
BufferRecord(r, t) ==
  /\ Accept(r, t)
  /\ t < EmitTime(t)
  /\ nextEmitTime' = EmitTime(t)
  /\ buffer' = buffer \cup {r}
  /\ returned' = FALSE
  /\ UNCHANGED <<outWindow, emitted>>

\* addRecord of a record that makes the window due: the window is cut from the
\* buffer, the next one is ONE step later whatever t is, and the records that
\* no later window can hold leave the buffer.
EmitWindow(r, t) ==
  /\ Accept(r, t)
  /\ t >= EmitTime(t)
  /\ LET end    == EmitTime(t)
         window == Within(buffer \cup {r}, end - windowSize, end)
     IN  /\ outWindow' = [startTime |-> end - windowSize, endTime |-> end,
                          records |-> window]
         /\ emitted' = emitted \cup window
         /\ nextEmitTime' = end + stepSize
         /\ buffer' = Prune(buffer \cup {r}, end + stepSize - windowSize)
  /\ returned' = TRUE

Init ==
  /\ buffer = {}
  /\ nextEmitTime = 0
  /\ lastTime = 0
  /\ initialized = FALSE
  /\ outWindow = NoWindow
  /\ returned = FALSE
  /\ accepted = {}
  /\ emitted = {}

Next ==
  \E t \in Timestamps :
    \/ RejectRecord(t)
    \/ \E n \in Arrivals : BufferRecord([n |-> n, timestamp |-> t], t)
    \/ \E n \in Arrivals : EmitWindow([n |-> n, timestamp |-> t], t)

Spec == Init /\ [][Next]_vars

-----------------------------------------------------------------------------
(***************************************************************************)
(* Properties                                                              *)
(***************************************************************************)

\* Pruning (window_manager.cpp:41-43) keeps exactly the records that the next
\* window or a later one can hold: none is dropped too early, none is kept once
\* it has left every window to come.
BufferHoldsWhatIsNeeded ==
  initialized =>
    buffer = {r \in accepted : r.timestamp >= nextEmitTime - windowSize}

\* The last emitted window is complete, and stays so: no record accepted before
\* OR AFTER the emission lies in [startTime, endTime) without being in it
\* (window_manager.cpp:14-16 refuses the ones that would), and the window holds
\* no record from outside [startTime, endTime].
WindowIsComplete ==
  /\ \A r \in accepted :
       /\ outWindow.startTime <= r.timestamp
       /\ r.timestamp < outWindow.endTime
       => r \in outWindow.records
  /\ outWindow.records \subseteq
       Within(accepted, outWindow.startTime, outWindow.endTime)

\* No record slips between two windows: every accepted record older than the
\* end of the last emitted window has been in one, so the detectors saw it.
NoRecordSkipped ==
  \A r \in accepted : r.timestamp < outWindow.endTime => r \in emitted

\* The buffer and the pruning are an implementation detail: what the caller
\* sees is the window cut from the whole stream (module SlidingWindow).
SW == INSTANCE SlidingWindow WITH
        stream <- accepted, window <- outWindow, nextEnd <- nextEmitTime

ImplementsSlidingWindow == SW!Spec
=============================================================================
