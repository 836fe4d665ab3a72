---------------------------- MODULE CaptureShutdown ----------------------------
(***************************************************************************)
(* How PRISM stops (src/PRISM/src/main.cpp:112-303): the detached signal   *)
(* watcher calls capture.stop() and clears running while the packet loop   *)
(* polls, drains packets or waits inside libpcap; then main stops the      *)
(* capture again, destroys it and returns.                                 *)
(***************************************************************************)
EXTENDS Integers

CONSTANTS
  RingSize,   \* bound: packets that wait in libpcap's ring
  MaxDrain    \* max_drain: packets handled before running is polled again

ASSUME BoundsAssumption == RingSize \in Nat \ {0} /\ MaxDrain \in Nat \ {0}

VARIABLES
  handle, active, closed, breakFlag, ring,   \* PcapCapture
  running,      \* the flag both threads share
  selectable,   \* is there a descriptor to poll, or only the fallback loop
  main,         \* where the packet loop is
  watcher,      \* where the signal watcher is
  drained,      \* drained
  pollFailed,   \* history: the loop was left because poll failed
  breaks,       \* history: calls of pcap_breakloop
  lastPackets   \* history: packets delivered since the capture was stopped

Capture == INSTANCE PcapCapture

captureVars == <<handle, active, closed, breakFlag, ring>>
historyVars == <<pollFailed, breaks, lastPackets>>
vars == <<captureVars, running, selectable, main, watcher, drained,
          historyVars>>

MainPlaces == {"loop", "poll", "drain", "read", "handle", "enforce", "stop",
               "break", "destroy", "close", "exited"}

WatcherPlaces == {"sigwait", "stop", "break", "clear", "done"}

TypeOK ==
  /\ Capture!CaptureTypeOK
  /\ running \in BOOLEAN
  /\ selectable \in BOOLEAN
  /\ main \in MainPlaces
  /\ watcher \in WatcherPlaces
  /\ drained \in 0..MaxDrain
  /\ pollFailed \in BOOLEAN
  /\ breaks \in Nat
  /\ lastPackets \in Nat

Init ==
  /\ Capture!CaptureInit
  /\ running = TRUE
  /\ selectable \in BOOLEAN
  /\ main = "loop"
  /\ watcher = "sigwait"
  /\ drained = 0
  /\ pollFailed = FALSE
  /\ breaks = 0
  /\ lastPackets = 0

-----------------------------------------------------------------------------
\* The packet loop

MainGoes(from, to) == main = from /\ main' = to

\* while (running.load()): of the poll loop, or of the fallback loop, which
\* goes straight to nextPacket.
LoopTest ==
  /\ MainGoes("loop", IF ~running THEN "stop"
                      ELSE IF selectable THEN "poll" ELSE "drain")
  /\ UNCHANGED <<captureVars, running, selectable, watcher, drained,
                 historyVars>>

\* poll returns POLLIN: start draining.
PollReady ==
  /\ ring > 0
  /\ MainGoes("poll", "drain")
  /\ drained' = 0
  /\ UNCHANGED <<captureVars, running, selectable, watcher, historyVars>>

\* poll times out after a second.
PollTimesOut ==
  /\ MainGoes("poll", "loop")
  /\ UNCHANGED <<captureVars, running, selectable, watcher, drained,
                 historyVars>>

\* poll fails for another reason than EINTR: break.
PollFails ==
  /\ MainGoes("poll", "stop")
  /\ pollFailed' = TRUE
  /\ UNCHANGED <<captureVars, running, selectable, watcher, drained, breaks,
                 lastPackets>>

\* Mutant: one packet too many.
DrainGoesOn_OneMore == running /\ drained <= MaxDrain /\ Capture!Usable

\* running.load() && drained < max_drain && the test at the top of nextPacket.
DrainGoesOn == running /\ drained < MaxDrain /\ Capture!Usable

DrainReads ==
  /\ DrainGoesOn
  /\ MainGoes("drain", "read")
  /\ UNCHANGED <<captureVars, running, selectable, watcher, drained,
                 historyVars>>

DrainEnds ==
  /\ ~DrainGoesOn
  /\ MainGoes("drain", "loop")
  /\ UNCHANGED <<captureVars, running, selectable, watcher, drained,
                 historyVars>>

\* pcap_next_ex has a packet that nextPacket delivers.
PacketDelivered ==
  /\ Capture!ReadPacket
  /\ MainGoes("read", "handle")
  /\ lastPackets' = IF active THEN 0 ELSE lastPackets + 1
  /\ UNCHANGED <<running, selectable, watcher, drained, pollFailed, breaks>>

\* nextPacket returns false: a malformed packet, a timeout or the break.
ReadFails ==
  /\ Capture!ReadPacket \/ Capture!ReadBroken
  /\ MainGoes("read", "loop")
  /\ UNCHANGED <<running, selectable, watcher, drained, historyVars>>

ReadTimeout ==
  /\ Capture!ReadTimesOut
  /\ MainGoes("read", "loop")
  /\ UNCHANGED <<running, selectable, watcher, drained, historyVars>>

\* A packet of another port, or a record that fills no window: counted.
HandleCounted ==
  /\ selectable
  /\ MainGoes("handle", "drain")
  /\ drained' = drained + 1
  /\ UNCHANGED <<captureVars, running, selectable, watcher, historyVars>>

\* Mutant: the drain goes on without another look at running.
HandleUncounted_NoTest ==
  /\ selectable
  /\ MainGoes("handle", "read")
  /\ UNCHANGED <<captureVars, running, selectable, watcher, drained,
                 historyVars>>

\* A record of no kind, a DNP3 frame of the plant for one, or an empty window:
\* the drain goes on and does not count it.
HandleUncounted ==
  /\ selectable
  /\ MainGoes("handle", "drain")
  /\ UNCHANGED <<captureVars, running, selectable, watcher, drained,
                 historyVars>>

\* The fallback loop counts nothing and tests running before every packet.
HandleFallback ==
  /\ ~selectable
  /\ MainGoes("handle", "loop")
  /\ UNCHANGED <<captureVars, running, selectable, watcher, drained,
                 historyVars>>

\* A window is due: it is scored and apply is called, which may block in connect;
\* the signals are masked in this thread too and do not interrupt it.
HandleScored ==
  /\ MainGoes("handle", "enforce")
  /\ UNCHANGED <<captureVars, running, selectable, watcher, drained,
                 historyVars>>

\* apply returns, the alert is logged; the drain loop counts the packet.
EnforceEnds ==
  /\ MainGoes("enforce", IF selectable THEN "drain" ELSE "loop")
  /\ drained' = IF selectable THEN drained + 1 ELSE drained
  /\ UNCHANGED <<captureVars, running, selectable, watcher, historyVars>>

\* main.cpp:300, the second call of stop: the watcher's may be under way.
MainStops ==
  /\ \/ Capture!StopDeactivates /\ MainGoes("stop", "break")
     \/ ~Capture!Usable /\ MainGoes("stop", "destroy") /\ UNCHANGED captureVars
  /\ UNCHANGED <<running, selectable, watcher, drained, historyVars>>

MainBreaks ==
  /\ MainGoes("break", "destroy")
  /\ Capture!Breakloop
  /\ breaks' = breaks + 1
  /\ UNCHANGED <<running, selectable, watcher, drained, pollFailed,
                 lastPackets>>

\* return 0 destroys capture; then the process ends.
MainDestroys ==
  /\ MainGoes("destroy", "close")
  /\ Capture!DestructorTakesHandle
  /\ UNCHANGED <<running, selectable, watcher, drained, historyVars>>

MainCloses ==
  /\ MainGoes("close", "exited")
  /\ Capture!CloseHandle
  /\ UNCHANGED <<running, selectable, watcher, drained, historyVars>>

-----------------------------------------------------------------------------
\* The signal watcher, while the process lives

WatcherGoes(from, to) == main # "exited" /\ watcher = from /\ watcher' = to

\* Mutant: running is cleared before the capture is stopped.
Signal_ClearsFirst ==
  /\ WatcherGoes("sigwait", "stop")
  /\ running' = FALSE
  /\ UNCHANGED <<captureVars, selectable, main, drained, historyVars>>

\* sigwait returns: SIGINT or SIGTERM is pending.
Signal ==
  /\ WatcherGoes("sigwait", "stop")
  /\ UNCHANGED <<captureVars, running, selectable, main, drained, historyVars>>

WatcherStops ==
  /\ \/ Capture!StopDeactivates /\ WatcherGoes("stop", "break")
     \/ ~Capture!Usable /\ WatcherGoes("stop", "clear") /\ UNCHANGED captureVars
  /\ UNCHANGED <<running, selectable, main, drained, historyVars>>

WatcherBreaks ==
  /\ WatcherGoes("break", "clear")
  /\ Capture!Breakloop
  /\ breaks' = breaks + 1
  /\ UNCHANGED <<running, selectable, main, drained, pollFailed, lastPackets>>

WatcherClears ==
  /\ WatcherGoes("clear", "done")
  /\ running' = FALSE
  /\ UNCHANGED <<captureVars, selectable, main, drained, historyVars>>

\* The interface goes on receiving.
PacketArrives ==
  /\ main # "exited"
  /\ Capture!Arrive
  /\ UNCHANGED <<running, selectable, main, watcher, drained, historyVars>>

-----------------------------------------------------------------------------

MainStep ==
  \/ LoopTest \/ PollReady \/ PollTimesOut
  \/ DrainReads \/ DrainEnds
  \/ PacketDelivered \/ ReadFails
  \/ HandleCounted \/ HandleUncounted \/ HandleFallback
  \/ HandleScored \/ EnforceEnds
  \/ MainStops \/ MainBreaks \/ MainDestroys \/ MainCloses

WatcherStep == WatcherStops \/ WatcherBreaks \/ WatcherClears

Next ==
  \/ MainStep
  \/ PollFails
  \/ ReadTimeout
  \/ Signal
  \/ WatcherStep
  \/ PacketArrives

Spec == Init /\ [][Next]_vars

-----------------------------------------------------------------------------
(***************************************************************************)
(* Properties                                                              *)
(***************************************************************************)

\* pcap_breakloop and running.store run on a handle and a flag of main's stack
\* (main.cpp:112 and 121-122, detached at 130): they come before the capture is
\* closed, unless main left the loop for a poll error instead of the signal.
WatcherBeforeDestruction ==
  (watcher \in {"stop", "break", "clear"} /\ closed) => pollFailed

\* stop is called from both threads (main.cpp:121 and 300) and breaks the
\* loop once (pcap.cpp:66).
BrokenOnce == breaks <= 1

\* nextPacket reads with the mutex released (pcap.cpp:84): at most the one
\* packet it was about to read is still delivered once the capture is stopped.
OnePacketAfterStop == lastPackets <= 1

\* The two threads run; the timeout of poll is relied on, and the kernel's of
\* connect, which ends a call of apply; libpcap's is not.
Fairness == WF_vars(MainStep) /\ WF_vars(WatcherStep)

FairSpec == Spec /\ Fairness

\* A signal stops PRISM, whatever the packet loop was doing: pcap_breakloop ends
\* a read that has nothing to read (main.cpp:120-122, pcap.cpp:70), traffic that
\* the drain does not count cannot keep it in the loop (main.cpp:153 and 168), and
\* a packet in scoring is finished first (main.cpp:184).
SignalStops == watcher = "stop" ~> main = "exited"
=============================================================================
