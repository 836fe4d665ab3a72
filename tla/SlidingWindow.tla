---------------------------- MODULE SlidingWindow ----------------------------
(***************************************************************************)
(* What prism::windowing::WindowManager promises its caller, without a     *)
(* buffer and without pruning: a stream of records in time order, and from *)
(* time to time a window cut from the WHOLE stream, each one exactly a     *)
(* step after the one before.  WindowManager implements this module.       *)
(***************************************************************************)
EXTENDS Integers

CONSTANTS windowSize, stepSize, Timestamps, Arrivals

VARIABLES
  stream,    \* every record accepted so far, numbered in order of arrival
  window,    \* the last window given to the caller
  nextEnd    \* where the next window ends, once there is a record

swvars == <<stream, window, nextEnd>>

\* The window of s that ends at end: both ends belong to it.
WindowOf(s, end) ==
  [startTime |-> end - windowSize,
   endTime   |-> end,
   records   |-> {r \in s : r.timestamp \in (end - windowSize)..end}]

\* The stream goes on with r: r is neither earlier nor numbered lower than a
\* record before it.
Extend(r) ==
  /\ \A q \in stream : q.n < r.n /\ q.timestamp <= r.timestamp
  /\ stream' = stream \cup {r}

\* The first record places the first window; no window is due yet.
Start(r) ==
  /\ stream = {}
  /\ Extend(r)
  /\ nextEnd' = r.timestamp + windowSize
  /\ window' = window

\* A record before the end of the next window: nothing is due.
Collect(r) ==
  /\ stream # {}
  /\ Extend(r)
  /\ r.timestamp < nextEnd
  /\ UNCHANGED <<window, nextEnd>>

\* A record at or after the end of the next window hands that window out.
Slide(r) ==
  /\ stream # {}
  /\ Extend(r)
  /\ r.timestamp >= nextEnd
  /\ window' = WindowOf(stream', nextEnd)
  /\ nextEnd' = nextEnd + stepSize

Init ==
  /\ stream = {}
  /\ window = [startTime |-> 0, endTime |-> 0, records |-> {}]
  /\ nextEnd = 0

Next ==
  \E n \in Arrivals, t \in Timestamps :
    LET r == [n |-> n, timestamp |-> t]
    IN  Start(r) \/ Collect(r) \/ Slide(r)

Spec == Init /\ [][Next]_swvars
=============================================================================
