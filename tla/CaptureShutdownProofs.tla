------------------------ MODULE CaptureShutdownProofs ------------------------
(***************************************************************************)
(* CaptureShutdown, for every ring and every drain limit: typing, and the  *)
(* three safety properties of the way PRISM stops, from one inductive      *)
(* invariant that relates the two threads to the capture's fields.         *)
(***************************************************************************)
EXTENDS CaptureShutdown, TLAPS

USE DEF captureVars, historyVars

-----------------------------------------------------------------------------
(***************************************************************************)
(* The invariant                                                           *)
(***************************************************************************)

\* What main has done with the handle, by the place it has come to.
MainOwnsHandle ==
  /\ handle <=> main \notin {"close", "exited"}
  /\ closed => main = "exited"
  /\ main \in {"break", "destroy", "close", "exited"} => ~active

\* The watcher clears running when the capture is stopped and not before.
WatcherStopsFirst ==
  /\ watcher \in {"break", "clear", "done"} => ~active
  /\ ~running <=> watcher = "done"

\* main leaves the loop for the flag, or for an error of poll.
LeavesForCause ==
  main \in {"stop", "break", "destroy", "close", "exited"}
    => watcher = "done" \/ pollFailed

\* Only the thread that clears active is on its way to pcap_breakloop.
OneBreaker ==
  /\ ~(main = "break" /\ watcher = "break")
  /\ active => breaks = 0 /\ main # "break" /\ watcher # "break"
  /\ main = "break" \/ watcher = "break" => breaks = 0
  /\ breaks <= 1

\* After the stop, a delivered packet leaves the loop no way back to a read.
OneMorePacket ==
  /\ lastPackets <= 1
  /\ active => lastPackets = 0
  /\ main = "read" => lastPackets = 0

\* A packet is read and handled only while the drain may count one more.
RoomInDrain ==
  main \in {"read", "handle", "enforce"} => drained < MaxDrain

IInv ==
  /\ TypeOK
  /\ RoomInDrain
  /\ MainOwnsHandle
  /\ WatcherStopsFirst
  /\ LeavesForCause
  /\ OneBreaker
  /\ OneMorePacket

-----------------------------------------------------------------------------
(***************************************************************************)
(* The invariant holds                                                     *)
(***************************************************************************)

LEMMA InitIInv == Init => IInv
<1> SUFFICES ASSUME Init PROVE IInv
  OBVIOUS
<1>1. TypeOK
  <2>1. ring \in 0..RingSize /\ drained \in 0..MaxDrain
    BY BoundsAssumption DEF Init, Capture!CaptureInit
  <2>2. Capture!CaptureTypeOK
    BY <2>1 DEF Init, Capture!CaptureInit, Capture!CaptureTypeOK
  <2> QED
    BY <2>1, <2>2 DEF Init, TypeOK, MainPlaces, WatcherPlaces
<1> QED
  BY <1>1 DEF Init, IInv, Capture!CaptureInit, RoomInDrain, MainOwnsHandle,
              WatcherStopsFirst, LeavesForCause, OneBreaker, OneMorePacket

LEMMA NextTypeOK == TypeOK /\ RoomInDrain /\ [Next]_vars => TypeOK'
<1> SUFFICES ASSUME TypeOK, RoomInDrain, [Next]_vars PROVE TypeOK'
  OBVIOUS
<1> USE BoundsAssumption
    DEF TypeOK, Capture!CaptureTypeOK, MainPlaces, WatcherPlaces, MainGoes,
        WatcherGoes
<1>1. CASE LoopTest
  BY <1>1 DEF LoopTest
<1>2. CASE PollReady
  BY <1>2 DEF PollReady
<1>3. CASE PollTimesOut \/ PollFails
  BY <1>3 DEF PollTimesOut, PollFails
<1>4. CASE DrainReads \/ DrainEnds
  BY <1>4 DEF DrainReads, DrainEnds
<1>5. ASSUME Capture!ReadPacket \/ Capture!ReadBroken \/ Capture!ReadTimesOut
      PROVE  Capture!CaptureTypeOK'
  <2>1. CASE Capture!ReadPacket
    BY <2>1 DEF Capture!ReadPacket
  <2>2. CASE Capture!ReadBroken
    BY <2>2 DEF Capture!ReadBroken
  <2>3. CASE Capture!ReadTimesOut
    BY <2>3 DEF Capture!ReadTimesOut
  <2> QED
    BY <1>5, <2>1, <2>2, <2>3
<1>6. CASE PacketDelivered \/ ReadFails \/ ReadTimeout
  <2>1. Capture!CaptureTypeOK'
    BY <1>5, <1>6 DEF PacketDelivered, ReadFails, ReadTimeout
  <2>2. main' \in MainPlaces
    BY <1>6 DEF PacketDelivered, ReadFails, ReadTimeout
  <2>3. lastPackets' \in Nat
    BY <1>6 DEF PacketDelivered, ReadFails, ReadTimeout
  <2> QED
    BY <1>6, <2>1, <2>2, <2>3 DEF PacketDelivered, ReadFails, ReadTimeout
<1>7. CASE HandleUncounted \/ HandleFallback \/ HandleScored
  BY <1>7 DEF HandleUncounted, HandleFallback, HandleScored
<1>8. CASE HandleCounted \/ EnforceEnds
  <2>1. drained < MaxDrain
    BY <1>8 DEF HandleCounted, EnforceEnds, RoomInDrain
  <2>2. drained' \in 0..MaxDrain
    BY <1>8, <2>1 DEF HandleCounted, EnforceEnds
  <2> QED
    BY <1>8, <2>2 DEF HandleCounted, EnforceEnds
<1>9. CASE MainStops
  <2>1. main' \in MainPlaces
    BY <1>9 DEF MainStops
  <2>2. Capture!CaptureTypeOK'
    BY <1>9 DEF MainStops, Capture!StopDeactivates
  <2>3. UNCHANGED <<running, selectable, watcher, drained, historyVars>>
    BY <1>9 DEF MainStops
  <2> QED
    BY <2>1, <2>2, <2>3
<1>10. CASE MainBreaks \/ WatcherBreaks
  <2>1. Capture!Breakloop /\ breaks' \in Nat
    BY <1>10 DEF MainBreaks, WatcherBreaks
  <2>2. main' \in MainPlaces /\ watcher' \in WatcherPlaces
    BY <1>10 DEF MainBreaks, WatcherBreaks
  <2>3. UNCHANGED <<running, selectable, drained, pollFailed, lastPackets>>
    BY <1>10 DEF MainBreaks, WatcherBreaks
  <2> QED
    BY <2>1, <2>2, <2>3 DEF Capture!Breakloop
<1>11. CASE MainDestroys
  BY <1>11 DEF MainDestroys, Capture!DestructorTakesHandle
<1>12. CASE MainCloses
  BY <1>12 DEF MainCloses, Capture!CloseHandle
<1>13. CASE Signal
  BY <1>13 DEF Signal
<1>14. CASE WatcherStops
  <2>1. watcher' \in WatcherPlaces
    BY <1>14 DEF WatcherStops
  <2>2. Capture!CaptureTypeOK'
    BY <1>14 DEF WatcherStops, Capture!StopDeactivates
  <2>3. UNCHANGED <<running, selectable, main, drained, historyVars>>
    BY <1>14 DEF WatcherStops
  <2> QED
    BY <2>1, <2>2, <2>3
<1>15. CASE WatcherClears
  BY <1>15 DEF WatcherClears
<1>16. CASE PacketArrives
  BY <1>16 DEF PacketArrives, Capture!Arrive
<1>17. CASE UNCHANGED vars
  BY <1>17 DEF vars
<1> QED
  BY <1>1, <1>2, <1>3, <1>4, <1>6, <1>7, <1>8, <1>9, <1>10, <1>11, <1>12,
     <1>13, <1>14, <1>15, <1>16, <1>17
     DEF Next, MainStep, WatcherStep

\* The capture's fields and the two threads' places move together.
LEMMA NextIInv == IInv /\ [Next]_vars => IInv'
<1> SUFFICES ASSUME IInv, [Next]_vars PROVE IInv'
  OBVIOUS
<1>t. TypeOK'
  BY NextTypeOK DEF IInv
<1> USE DEF IInv, RoomInDrain, MainOwnsHandle, WatcherStopsFirst,
            LeavesForCause, OneBreaker, OneMorePacket, MainGoes, WatcherGoes,
            TypeOK, Capture!CaptureTypeOK
<1>1. CASE LoopTest
  BY <1>t, <1>1 DEF LoopTest
<1>2. CASE PollReady \/ PollTimesOut \/ PollFails
  BY <1>t, <1>2 DEF PollReady, PollTimesOut, PollFails
<1>3. CASE DrainReads \/ DrainEnds
  BY <1>t, <1>3 DEF DrainReads, DrainEnds, DrainGoesOn, Capture!Usable
<1>4. CASE PacketDelivered
  BY <1>t, <1>4 DEF PacketDelivered, Capture!ReadPacket
<1>5. CASE ReadFails \/ ReadTimeout
  BY <1>t, <1>5 DEF ReadFails, ReadTimeout, Capture!ReadPacket,
                    Capture!ReadBroken, Capture!ReadTimesOut
<1>6. CASE HandleCounted \/ HandleUncounted \/ HandleFallback
  BY <1>t, <1>6 DEF HandleCounted, HandleUncounted, HandleFallback
<1>7. CASE HandleScored \/ EnforceEnds
  BY <1>t, <1>7 DEF HandleScored, EnforceEnds
<1>8. CASE MainStops
  BY <1>t, <1>8 DEF MainStops, Capture!StopDeactivates, Capture!Usable
<1>9. CASE MainBreaks
  BY <1>t, <1>9 DEF MainBreaks, Capture!Breakloop
<1>10. CASE MainDestroys
  BY <1>t, <1>10 DEF MainDestroys, Capture!DestructorTakesHandle
<1>11. CASE MainCloses
  BY <1>t, <1>11 DEF MainCloses, Capture!CloseHandle
<1>12. CASE Signal
  BY <1>t, <1>12 DEF Signal
<1>13. CASE WatcherStops
  BY <1>t, <1>13 DEF WatcherStops, Capture!StopDeactivates, Capture!Usable
<1>14. CASE WatcherBreaks
  BY <1>t, <1>14 DEF WatcherBreaks, Capture!Breakloop
<1>15. CASE WatcherClears
  BY <1>t, <1>15 DEF WatcherClears
<1>16. CASE PacketArrives
  BY <1>t, <1>16 DEF PacketArrives, Capture!Arrive
<1>17. CASE UNCHANGED vars
  BY <1>t, <1>17 DEF vars
<1> QED
  BY <1>1, <1>2, <1>3, <1>4, <1>5, <1>6, <1>7, <1>8, <1>9, <1>10, <1>11,
     <1>12, <1>13, <1>14, <1>15, <1>16, <1>17
     DEF Next, MainStep, WatcherStep

-----------------------------------------------------------------------------
(***************************************************************************)
(* What it gives                                                           *)
(***************************************************************************)

\* The two threads of main.cpp and the capture they share never leave the
\* invariant, however their blocks and libpcap's calls interleave.
THEOREM Invariance == Spec => []IInv
<1> QED
  BY InitIInv, NextIInv, PTL DEF Spec

\* Both threads, the capture and the drain counter keep their types; drained
\* stays within max_drain (main.cpp:153).
THEOREM TypeCorrect == Spec => []TypeOK
<1>1. IInv => TypeOK
  BY DEF IInv
<1> QED
  BY <1>1, Invariance, PTL

\* The detached watcher (main.cpp:120-130) is done with the capture and the flag
\* of main's stack before main destroys them, unless poll failed.
THEOREM DestroyedLast == Spec => []WatcherBeforeDestruction
<1>1. IInv => WatcherBeforeDestruction
  BY DEF IInv, MainOwnsHandle, LeavesForCause, WatcherBeforeDestruction
<1> QED
  BY <1>1, Invariance, PTL

\* The two calls of stop (main.cpp:121 and 300) break libpcap's loop once.
THEOREM OneBreak == Spec => []BrokenOnce
<1>1. IInv => BrokenOnce
  BY DEF IInv, OneBreaker, BrokenOnce
<1> QED
  BY <1>1, Invariance, PTL

\* nextPacket (pcap.cpp:84) delivers at most one packet after the stop.
THEOREM OnePacket == Spec => []OnePacketAfterStop
<1>1. IInv => OnePacketAfterStop
  BY DEF IInv, OneMorePacket, OnePacketAfterStop
<1> QED
  BY <1>1, Invariance, PTL
=============================================================================
