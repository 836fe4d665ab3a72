--------------------------- MODULE DetectionPipeline ---------------------------
(***************************************************************************)
(* PRISM from packet to decision: the body of the drain loop (main.cpp:    *)
(* 153-184) over the parsers, the window manager, the scores and the risk  *)
(* model, fed by the requests of the HMI API (api/main.go), one script     *)
(* after the other as the demo scripts start them.  Enforcement is left to *)
(* SafetyLock, the loop's other exits to CaptureShutdown.                  *)
(*                                                                         *)
(* Time is counted in tenths of a second.  PRISM reads a packet in the     *)
(* tenth in which it arrives (its timestamps are taken at the reading).    *)
(***************************************************************************)
EXTENDS SimulatorFrames, ProtocolParsers, RiskScores

CONSTANTS
  Script,        \* the phases of the traffic, see ScriptAssumption
  Flood,         \* the number of the phase that floods the PLC, 0 for none
  windowSize,    \* 50: 5000 ms in main.cpp:61
  stepSize       \* 10: 1000 ms in main.cpp:61

\* A phase: a pause, then count times one of the delays (the jitter of the API
\* makes them a set) and a request for cmd, the arguments of a client.
Phases ==
  [cmd    : [protocol : Protocols, fn : Int, addr : Int, val : Int],
   count  : Nat \ {0},
   delays : SUBSET Nat,
   pauses : SUBSET Nat]

ASSUME ScriptAssumption ==
  /\ Script \in Seq(Phases) /\ Script # <<>>
  /\ Flood \in 0..Len(Script)

ASSUME SizesAssumption ==
  /\ windowSize \in Nat
  /\ stepSize \in 1..windowSize

VARIABLES
  now,       \* steady_clock
  phase,     \* the phase of the script
  left,      \* requests of the phase still to send
  pending,   \* packets in the ring
  seen,      \* the records passed to addRecord, in order
  writeLocked,   \* write_locked of the PLC
  isOn,      \* isOn_ of the risk model
  decision,  \* the last decision
  alarms,    \* history: the phases in which a decision was High
  \* the window manager (see WindowManager)
  buffer, nextEmitTime, lastTime, initialized, outWindow, returned, accepted,
  emitted

traffic == <<now, phase, left>>
window == <<buffer, nextEmitTime, lastTime, initialized, outWindow, returned,
            accepted, emitted>>
risk == <<isOn, decision, alarms>>
vars == <<traffic, pending, seen, risk, window, writeLocked>>

Risk == INSTANCE RiskModel

Windows == INSTANCE WindowManager WITH
             Timestamps <- Nat, Arrivals <- Nat \ {0}

PLC == INSTANCE ModbusLock

\* The PLC once its lock is engaged.
LockedPLC == INSTANCE ModbusLock WITH writeLocked <- TRUE

\* What a request puts on the wire: a segment without payload, the frame and
\* its echo, or the exception of a PLC that refuses it, within one tenth of a
\* second.
Exchange(cmd, refused) ==
  LET packet(toServer, payload) == Packet(cmd.protocol, toServer, payload)
  IN  <<packet(TRUE, <<>>), packet(TRUE, FrameOf(cmd)),
        packet(FALSE, IF refused THEN ModbusException(AsByte(cmd.fn))
                      ELSE FrameOf(cmd))>>

\* The PLC refuses the request; it would if it were locked.
Refused(cmd) ==
  cmd.protocol = "Modbus" /\ PLC!IsBlocked(ModbusPdu(FrameOf(cmd)))

IsRefusable(cmd) ==
  cmd.protocol = "Modbus" /\ LockedPLC!IsBlocked(ModbusPdu(FrameOf(cmd)))

Done == phase > Len(Script)

TypeOK ==
  /\ now \in Nat
  /\ phase \in 1..(Len(Script) + 1)
  /\ left \in Nat
  /\ Len(pending) <= 3
  /\ seen \in Seq(Records)
  /\ writeLocked \in BOOLEAN
  /\ isOn \in BOOLEAN
  /\ decision \in Risk!Decisions
  /\ alarms \subseteq 1..Len(Script)
  /\ \A r \in buffer : r.n \in DOMAIN seen /\ r.timestamp <= now

Init ==
  /\ now = 0
  /\ phase = 1
  /\ left = Script[1].count
  /\ pending = <<>>
  /\ seen = <<>>
  /\ writeLocked = FALSE
  /\ isOn = FALSE
  /\ decision = [level |-> "Low", restrictWrites |-> FALSE]
  /\ alarms = {}
  /\ Windows!Init

-----------------------------------------------------------------------------
\* The traffic

\* The goroutine of a handler wakes up and starts a client, which sends; the next
\* one is not due before PRISM has read what this one left in the ring.
Request ==
  /\ ~Done
  /\ left > 0
  /\ pending = <<>>
  /\ LET cmd == Script[phase].cmd
     IN  /\ pending' = Exchange(cmd, Refused(cmd))
         /\ writeLocked' = IF cmd.protocol = "Modbus"
                           THEN PLC!LockAfter(ModbusPdu(FrameOf(cmd)))
                           ELSE writeLocked
  /\ left' = left - 1
  /\ \E delay \in Script[phase].delays : now' = now + delay
  /\ UNCHANGED <<phase, seen, risk, window>>

\* The script goes on to its next command.
NextPhase ==
  /\ ~Done
  /\ left = 0
  /\ pending = <<>>
  /\ phase' = phase + 1
  /\ IF phase < Len(Script)
     THEN /\ left' = Script[phase + 1].count
          /\ \E pause \in Script[phase + 1].pauses : now' = now + pause
     ELSE UNCHANGED <<left, now>>
  /\ UNCHANGED <<pending, seen, risk, window, writeLocked>>

\* A signal that PRISM sent because of a High decision reaches the PLC.  Whether
\* and when one does is SafetyLock's question: here any may, at any time.
SignalArrives ==
  /\ alarms # {}
  /\ ~writeLocked
  /\ writeLocked' = TRUE
  /\ UNCHANGED <<traffic, pending, seen, risk, window>>

-----------------------------------------------------------------------------
\* PRISM

\* nextPacket, classify, parse: the record, given to addRecord or skipped.
NextRecord(r) ==
  /\ pending # <<>>
  /\ pending' = Tail(pending)
  /\ r = Parse(Head(pending))
  /\ UNCHANGED <<traffic, writeLocked>>

SkipPacket ==
  /\ pending # <<>>
  /\ NextRecord(Parse(Head(pending)))
  /\ Skips(Parse(Head(pending)))
  /\ UNCHANGED <<seen, risk, window>>

\* The record's place in the order of arrival.
Arrival == [n |-> Len(seen) + 1, timestamp |-> now]

Kept ==
  /\ pending # <<>>
  /\ LET r == Parse(Head(pending))
     IN  NextRecord(r) /\ ~Skips(r) /\ seen' = Append(seen, r)

\* addRecord returns false: no window is due.  (steady_clock does not go back,
\* so it never refuses a record.)
BufferRecord ==
  /\ Kept
  /\ Windows!BufferRecord(Arrival, now)
  /\ UNCHANGED risk

\* The records of a window, with what the parser returned for each.
Contents(w, s) == {[n |-> r.n, timestamp |-> r.timestamp, of |-> s[r.n]] : r \in w}

\* addRecord returns a window: an empty one is skipped, another is scored.
EvaluateWindow ==
  /\ Kept
  /\ Windows!EmitWindow(Arrival, now)
  /\ LET W == Contents(outWindow'.records, seen')
         pHst == Percent(HstScore(W))
         pBurst == Percent(BurstScore(W))
     IN  \/ W = {} /\ UNCHANGED risk
         \/ /\ W # {}
            /\ \E d \in Risk!Decisions :
                 /\ Risk!Evaluate(pHst, pBurst, d)
                 /\ decision' = d
                 /\ alarms' = IF d.level = "High" THEN alarms \cup {phase}
                              ELSE alarms

Next ==
  \/ Request \/ NextPhase \/ SignalArrives
  \/ SkipPacket \/ BufferRecord \/ EvaluateWindow

Spec == Init /\ [][Next]_vars

-----------------------------------------------------------------------------
(***************************************************************************)
(* Properties                                                              *)
(***************************************************************************)

\* The window just evaluated; empty when the last step evaluated none.
Evaluated == IF returned THEN Contents(outWindow.records, seen) ELSE {}

HasWrite(W) == \E r \in W : r.of.isWrite

\* The longest silence between two consecutive records.
Silence(W, length) == \E r \in Followers(W) : Gap(W, r) >= length

\* A mixture is not a disguise (hst.cpp:14-18, risk_model.cpp:31): whatever the
\* other traffic, a window with three writes in ten is reported High.  High is what
\* the code calls High, from a probability of 0.7 on; in docs/theory.md:103-104 it
\* begins above 0.8.
WriteHeavyIsHigh ==
  Evaluated # {}
    /\ 10 * Cardinality({r \in Evaluated : r.of.isWrite})
         >= 3 * Cardinality(Evaluated)
  => decision.level = "High"

\* No escalation without a cause (burst.cpp:11-23, hst.cpp:10-20): the window
\* that raises one has a write or a silence of more than 1.7 s.
EscalationHasCause ==
  [][~isOn /\ isOn' => HasWrite(Evaluated') \/ Silence(Evaluated', 18)]_vars

\* Hysteresis lets go (risk_model.cpp:33): a window of reads without a silence
\* of 1.5 s ends an escalation, whatever came before.
RegularReadsClear ==
  Evaluated # {} /\ ~HasWrite(Evaluated) /\ ~Silence(Evaluated, 15) => ~isOn

\* exec_demo.sh:40 "this should NOT trigger an alert", quickstart.md:39 "baseline, no
\* alert expected": before its flood, a script leads to no High decision.
CalmBeforeFlood == phase < Flood => alarms = {}

\* exec_demo.sh:56 "PRISM should detect this", :59 "should trigger CRITICAL":
\* when the script is over, PRISM has reported High since its flood began.
FloodDetected == Done /\ Flood # 0 => \E p \in alarms : p >= Flood

\* PRISM/docs/testing.md:11 "slow, read-only traffic that stays below the risk
\* threshold": a script of reads never leads to a High decision.
ReadsStayBelow == alarms = {}

\* PRISM/docs/heuristics.md:8 "a sliding update every second": addRecord emits one
\* window per record (window_manager.cpp:37), and still, when a command of the
\* script is through, none of the windows that ended before its last record is due.
WindowsCatchUp ==
  pending = <<>> /\ left = 0 /\ seen # <<>> => lastTime < nextEmitTime

-----------------------------------------------------------------------------
(***************************************************************************)
(* Scripts: what the theorems about FloodDetected, WindowsCatchUp and the  *)
(* size of a window ask of the traffic                                     *)
(***************************************************************************)

\* A command whose request and echo leave a record each, and one that PRISM sees
\* as a write.
IsRecorded(cmd) ==
  \/ cmd.protocol = "Modbus"
  \/ cmd.protocol = "IEC104" /\ AsByte(cmd.fn) # 0

IsWriting(cmd) ==
  \/ cmd.protocol = "Modbus" /\ ModbusWrite(AsByte(cmd.fn))
  \/ cmd.protocol = "IEC104" /\ AsByte(cmd.fn) \in 45..50

\* The requests of the first k phases are at least d apart.
Spaced(k, d) == \A p \in 1..k : \A delay \in Script[p].delays : delay >= d

\* So many records fit into a window of requests d apart.
MostRecords(d) == 2 * (windowSize \div d + 1)

\* The table of logarithms has an entry for every window.
FitsTable(d) == Spaced(Len(Script), d) /\ MostRecords(d) <= Len(VLog)

\* The records that a request leaves at the least: a PLC whose lock may be engaged
\* can answer a write with an exception, which leaves none.
Yield(cmd, locked) == IF locked /\ IsRefusable(cmd) THEN 1 ELSE 2

\* Each record ends one window at most: a phase makes up for its pause when the
\* time it takes is no more than a step for every record.
Brisk(p, locked) ==
  LET cmd == Script[p].cmd
      time == Yield(cmd, locked) * stepSize
  IN  /\ IsRecorded(cmd)
      /\ \A delay \in Script[p].delays :
           /\ delay <= time
           /\ p > 1 =>
                \A pause \in Script[p].pauses :
                  pause + Script[p].count * delay <= Script[p].count * time

KeepsUp(k, locked) == \A p \in 1..k : Brisk(p, locked)

\* None of the first k phases engages the PLC's lock itself.
NeverEngages(k) ==
  \A p \in 1..k :
    LET cmd == Script[p].cmd
    IN  cmd.protocol = "Modbus" => ~PLC!IsEngage(ModbusPdu(FrameOf(cmd)))

\* A flood of writes, from least to most apart.  Its last requests, late of them,
\* may still be waiting for a window when it ends; the scored ones before them fit
\* into one window, with whatever was sent before the flood, d apart, and outweigh
\* it.
DenseFlood(d, least, most, late, scored) ==
  /\ Flood # 0
  /\ IsWriting(Script[Flood].cmd)
  /\ \A delay \in Script[Flood].delays : least <= delay /\ delay <= most
  /\ Spaced(Flood - 1, d)
  /\ late * least >= stepSize
  /\ late + scored <= Script[Flood].count
  /\ (late + scored) * most <= windowSize
  /\ 7 * scored >= 3 * (windowSize \div d + 1)

\* before[p] requests were sent before phase p: with those of the flood they take
\* longer than a window, so that one has been emitted.
WarmsUp(before, d, least) ==
  /\ before[1] = 0
  /\ \A p \in 1..(Flood - 1) : before[p + 1] <= before[p] + Script[p].count
  /\ before[Flood] # 0
  /\ (before[Flood] - 1) * d + Script[Flood].count * least >= windowSize
=============================================================================
