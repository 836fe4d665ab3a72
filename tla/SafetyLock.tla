------------------------------ MODULE SafetyLock ------------------------------
(***************************************************************************)
(* The write-lock across the two programs: PRISM's risk model and          *)
(* enforcement engine (RiskModel, Enforcer), the simulated PLC             *)
(* (ModbusServer) and the HMI's one-shot clients (run_client of            *)
(* src/PRISM_simulator/proto/modbus/client.cpp), over TCP connections that *)
(* queue in front of the PLC.  PRISM and the PLC may crash and come back   *)
(* (docker-compose.yml: restart: unless-stopped).                          *)
(***************************************************************************)
EXTENDS Integers, Sequences

CONSTANTS
  Clients,        \* HMI command-line clients, each with one connection
  Requests,       \* the requests they may be started with
  Probabilities,  \* the percentages the detectors' scores come to
  MaxCrashes,     \* bound: crashes of PRISM and of the PLC together
  Backlog,        \* connections the kernel queues for listen(fd, 1)
  None            \* no connection, no request, no reply

\* PRISM opens a new connection for every signal.  A connection is followed by
\* a lock, by a crash of the PLC or by a crash of PRISM, so these are enough.
Signals == 1..(MaxCrashes + 1)

Conns == Clients \cup Signals

VARIABLES
  isOn,                                                   \* RiskModel
  locked, at, report,                                     \* Enforcer
  up, writeLocked, backlog, serving, unread, closed, reply,  \* ModbusServer
  signal,       \* PRISM's latest connection, 0 before the first
  client,       \* for each client, how far run_client has come
  request,      \* for each client, the request it was started with
  crashes,      \* crashes so far
  engagements,  \* history: signals written since PRISM started
  late,         \* history: clients connected after PRISM's signal connection
  undone        \* history: has the lock been released, or has the PLC died,
                \*   since PRISM's signal connected

Risk == INSTANCE RiskModel
EE   == INSTANCE Enforcer
PLC  == INSTANCE ModbusServer

ASSUME ClientsAssumption == None \notin Conns /\ Clients \cap Signals = {}
ASSUME RequestsAssumption ==
  Requests \subseteq PLC!Frames /\ None \notin PLC!Frames \cup PLC!Replies
ASSUME ProbabilitiesAssumption == Probabilities \subseteq 0..100
ASSUME BoundsAssumption == MaxCrashes \in Nat /\ Backlog \in Nat

enforcerVars == <<locked, at, report>>
plcVars     == <<up, writeLocked, backlog, serving, unread, closed, reply>>
clientVars  == <<client, request>>
historyVars == <<engagements, late, undone>>

vars == <<isOn, enforcerVars, plcVars, signal, clientVars, crashes,
          historyVars>>

\* sendSafetyCoil(0xFF00): FC5 on coil 0xFFFF.
EngageFrame == [function |-> 5, address |-> 65535, value |-> 65280]

TypeOK ==
  /\ isOn \in BOOLEAN
  /\ EE!EnforcerTypeOK
  /\ PLC!PlcTypeOK
  /\ signal \in Signals \cup {0}
  /\ at = "write" => signal # 0
  /\ client \in [Clients -> {"new", "connected", "waiting"}]
  /\ request \in [Clients -> Requests \cup {None}]
  /\ crashes \in 0..MaxCrashes
  /\ engagements \in Nat
  /\ late \in SUBSET Clients
  /\ undone \in BOOLEAN

Init ==
  /\ isOn = FALSE
  /\ EE!EnforcerInit
  /\ PLC!PlcInit
  /\ signal = 0
  /\ client = [c \in Clients |-> "new"]
  /\ request = [c \in Clients |-> None]
  /\ crashes = 0
  /\ engagements = 0
  /\ late = {}
  /\ undone = FALSE

-----------------------------------------------------------------------------
\* PRISM's packet loop

\* A window was emitted: evaluate its scores and apply the decision
\* (main.cpp:181-184).  No other thread reads what these two calls write, so
\* they are one step up to the socket calls.
EvaluateAndApply ==
  /\ \E pHst, pBurst \in Probabilities, d \in Risk!Decisions :
       /\ Risk!Evaluate(pHst, pBurst, d)
       /\ EE!ApplyReports(d) \/ EE!ApplySignals(d)
  /\ UNCHANGED <<plcVars, signal, clientVars, crashes, historyVars>>

\* A connection of PRISM has entered the PLC's queue.
SignalConnects ==
  /\ EE!ConnectSucceeds
  /\ signal' = signal + 1
  /\ signal + 1 \in Signals
  /\ PLC!Connect(signal + 1)
  /\ UNCHANGED <<isOn, clientVars, crashes, historyVars>>

\* connect fails: it is refused when there is no server, and times out when the
\* PLC's queue stays full.
SignalRefused ==
  /\ ~up \/ Len(backlog) >= Backlog
  /\ EE!SignalFails("connect")
  /\ UNCHANGED <<isOn, plcVars, signal, clientVars, crashes,
                 historyVars>>

\* write and close; locked_ is set on the strength of the write alone.
SignalWritten ==
  /\ EE!WriteSucceeds
  /\ PLC!WriteAndClose(signal, EngageFrame)
  /\ engagements' = engagements + 1
  /\ UNCHANGED <<isOn, signal, clientVars, crashes, late, undone>>

\* The PLC died after the connection.  write fails if its kernel has reset the
\* connection, which it does to those accept had not returned.
SignalReset ==
  /\ ~PLC!Connected(signal)
  /\ EE!SignalFails("write")
  /\ UNCHANGED <<isOn, plcVars, signal, clientVars, crashes,
                 historyVars>>

\* An accepted connection is closed in order when the server dies: write puts the
\* frame in the local send buffer and succeeds, and nobody will read it.
SignalLost ==
  /\ ~PLC!Connected(signal)
  /\ EE!WriteSucceeds
  /\ engagements' = engagements + 1
  /\ undone' = TRUE
  /\ UNCHANGED <<isOn, plcVars, signal, clientVars, crashes, late>>

\* PRISM dies and is started again: RiskModel and EnforcementEngine are new,
\* a connection it had open is closed by the kernel.
PrismCrash ==
  /\ crashes < MaxCrashes
  /\ crashes' = crashes + 1
  /\ isOn' = FALSE
  /\ locked' = FALSE
  /\ at' = "outside"
  /\ report' = "none"
  /\ IF at = "write" THEN PLC!Close(signal) ELSE UNCHANGED plcVars
  /\ engagements' = 0
  /\ late' = {}
  /\ undone' = FALSE
  /\ UNCHANGED <<signal, clientVars>>

-----------------------------------------------------------------------------
\* The HMI's clients

prismVars == <<isOn, enforcerVars, signal, crashes>>

\* A signal of the running PRISM is in the PLC's queue, or past it.
SignalAhead == locked \/ (at = "write" /\ PLC!Connected(signal))

ClientConnects(c, f) ==
  /\ client[c] = "new"
  /\ PLC!Connect(c)
  /\ client' = [client EXCEPT ![c] = "connected"]
  /\ request' = [request EXCEPT ![c] = f]
  /\ late' = IF SignalAhead THEN late \cup {c} ELSE late
  /\ UNCHANGED <<prismVars, engagements, undone>>

ClientSends(c) ==
  /\ client[c] = "connected"
  /\ PLC!Write(c, request[c])
  /\ client' = [client EXCEPT ![c] = "waiting"]
  /\ UNCHANGED <<prismVars, request, historyVars>>

\* A refused connect changes nothing: the client exits as it was started.

\* send or recv ends, with an answer or because the PLC died; the process exits
\* and another command may be started.
ClientExits(c) ==
  /\ client[c] # "new"
  /\ PLC!Forget(c)
  /\ client' = [client EXCEPT ![c] = "new"]
  /\ request' = [request EXCEPT ![c] = None]
  /\ late' = late \ {c}
  /\ UNCHANGED <<prismVars, engagements, undone>>

-----------------------------------------------------------------------------
\* The PLC

\* A signal is written and not yet read.
EngageInFlight ==
  \E s \in Signals : PLC!Connected(s) /\ unread[s] = EngageFrame

PlcServesCoil ==
  /\ PLC!ServeSafetyCoil
  /\ undone' = (undone \/ (/\ PLC!IsRelease(unread[serving])
                           /\ locked
                           /\ ~EngageInFlight))
  /\ UNCHANGED <<prismVars, clientVars, engagements, late>>

PlcStep ==
  /\ \/ PLC!Accept
     \/ PLC!ServeBlocked
     \/ PLC!ServeNormal
     \/ PLC!DropClosed
  /\ UNCHANGED <<prismVars, clientVars, historyVars>>

PlcCrash ==
  /\ crashes < MaxCrashes
  /\ crashes' = crashes + 1
  /\ PLC!Crash
  /\ undone' = (undone \/ locked)
  /\ UNCHANGED <<isOn, enforcerVars, signal, clientVars, engagements,
                 late>>

PlcRestart ==
  /\ PLC!Restart
  /\ UNCHANGED <<prismVars, clientVars, historyVars>>

-----------------------------------------------------------------------------

Prism ==
  \/ EvaluateAndApply
  \/ SignalConnects
  \/ SignalRefused
  \/ SignalWritten
  \/ SignalReset
  \/ SignalLost
  \/ PrismCrash

Client(c) ==
  \/ \E f \in Requests : ClientConnects(c, f)
  \/ ClientSends(c)
  \/ ClientExits(c)

Plc ==
  \/ PlcServesCoil
  \/ PlcStep
  \/ PlcCrash
  \/ PlcRestart

Next ==
  \/ Prism
  \/ \E c \in Clients : Client(c)
  \/ Plc

Spec == Init /\ [][Next]_vars

-----------------------------------------------------------------------------
(***************************************************************************)
(* Safety                                                                  *)
(***************************************************************************)

\* PRISM's flag and the PLC's lock are two copies of one fact, the second
\* behind a queue and a lossy crash (enforcer.cpp:28, server.cpp:56).  They
\* part only by an operator's release or the death of the PLC.
LockTracked == locked /\ ~undone => writeLocked \/ EngageInFlight

\* docs/theory.md:139: the signal is sent once per attack engagement, however
\* many HIGH evaluations follow (enforcer.cpp:26-37); a failed attempt may be
\* repeated, a successful one is not.
AtMostOneSignal == engagements <= 1

\* The PLC serves its queue in order and one connection at a time
\* (server.cpp:38-78), so a client that connects after PRISM's signal connection
\* never gets a write through, even before PRISM's frame is written or read.
LateWritesBlocked ==
  \A c \in late :
    (/\ request[c] # None
     /\ PLC!IsWriteFc(request[c])
     /\ ~PLC!IsSafetyCoil(request[c])
     /\ reply[c] = PLC!Echo(request[c]))
    => undone

\* The lock never locks out the operator who wants to release it: a request on
\* the safety coil is answered by an echo, locked or not (server.cpp:54-66).
SafetyCoilNeverBlocked ==
  \A c \in Clients :
    (request[c] # None /\ reply[c] # None /\ PLC!IsSafetyCoil(request[c]))
    => reply[c] = PLC!Echo(request[c])

\* exec_demo.sh:30 resets the coil to "allow reruns without container restart",
\* docs/theory.md:139 promises a signal "exactly once per attack engagement":
\* when a new attack raises the escalation, PRISM signals, unless the PLC is
\* locked or about to be.
NewAttackIsLocked ==
  [][~isOn /\ isOn' => at' = "connect" \/ writeLocked \/ EngageInFlight]_vars

\* What the two programs promise together, as an atomic lock.
Abstract == INSTANCE WriteLock WITH
              threat <- isOn, signalled <- locked, lock <- writeLocked,
              pending <- {s \in Signals :
                            PLC!Connected(s) /\ unread[s] = EngageFrame}

\* The lock engages by a signal of an escalation and by nothing else, once for
\* each signal, is released by the operator or by the death of the PLC only, and
\* PRISM signals once in its life, through every queue, crash and lost write
\* (enforcer.cpp:18-76, server.cpp:38-79).  The clients must not forge the signal.
ImplementsWriteLock == Abstract!Spec

-----------------------------------------------------------------------------
(***************************************************************************)
(* Liveness                                                                *)
(***************************************************************************)

\* Packets keep making windows due while an escalation lasts, whatever their scores
\* come to; the PLC's thread and the clients run.  Crashes and new clients owe nothing; nor does the
\* restart of the PLC, which comes with its container only (docker-compose.yml:29,
\* the API of the simulator starts its servers once).
Fairness ==
  /\ WF_vars(isOn /\ EvaluateAndApply /\ isOn')
  /\ WF_vars(SignalConnects)
  /\ WF_vars(~up /\ SignalRefused)
  /\ WF_vars(SignalWritten)
  /\ WF_vars(SignalReset)
  /\ \A c \in Clients : WF_vars(ClientSends(c)) /\ WF_vars(ClientExits(c))
  /\ WF_vars(PlcServesCoil)
  /\ WF_vars(PlcStep)

FairSpec == Spec /\ Fairness

\* The signal PRISM does not wait for (enforcer.cpp:74-76) takes effect, unless
\* the lock is released or one of the two programs dies first.
SignalTakesEffect == locked ~> (writeLocked \/ undone \/ ~locked)

\* An escalation that lasts ends in an engaged lock, across refused connections
\* and restarts: a failed signal is tried again (enforcer.cpp:26-35).  From some
\* time on the PLC must be up, and its other peers must leave PRISM a place in its
\* short queue (server.cpp:35).
EscalationEngages ==
  <>[](up /\ Len(backlog) < Backlog) => (isOn ~> (locked \/ ~isOn))

\* No client waits for ever in the PLC's queue, behind a peer that died before
\* it wrote included (server.cpp:44-45 and 78).
ClientsServed ==
  \A c \in Clients : client[c] = "connected" ~> client[c] = "new"
=============================================================================
