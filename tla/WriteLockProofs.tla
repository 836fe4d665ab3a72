--------------------------- MODULE WriteLockProofs ---------------------------
(***************************************************************************)
(* SafetyLock implements WriteLock, and a write that comes after PRISM's   *)
(* signal is blocked: both rest on the order in which the PLC's queue      *)
(* holds the signals, over every backlog and number of crashes.            *)
(***************************************************************************)
EXTENDS SafetyLockProofs

USE DEF plcVars, enforcerVars, clientVars, historyVars, prismVars

-----------------------------------------------------------------------------
(***************************************************************************)
(* The signals and the queue                                               *)
(***************************************************************************)

InFlight(s) == PLC!Connected(s) /\ unread[s] = EngageFrame

\* PRISM numbers its connections; each carries a frame once it is written.
SignalsSent ==
  /\ \A s \in Signals : s > signal =>
       /\ ~PLC!Connected(s)
       /\ unread[s] = None
       /\ s \notin closed
  /\ at = "write" => unread[signal] = None /\ signal \notin closed
  /\ at # "outside" => isOn

\* Only PRISM engages the lock.
ClientsDoNotForge == \A c \in Clients : unread[c] # EngageFrame

RInv == TypeOK /\ SignalState /\ SignalsSent /\ ClientsDoNotForge


\* The PLC's thread has dealt with a connection, or lost them all.
PlcEnds ==
  \/ PLC!ServeSafetyCoil \/ PLC!ServeBlocked \/ PLC!ServeNormal
  \/ PLC!DropClosed \/ PLC!Crash

\* A connection enters the queue by connect only.
LEMMA OnlyConnectAdds ==
  ASSUME NEW c \in Conns, backlog \in Seq(Conns), PLC!Connected(c)',
         \/ PLC!Accept
         \/ PlcEnds
         \/ \E new \in Conns : new # c /\ PLC!Connect(new)
         \/ UNCHANGED <<backlog, serving>>
  PROVE  PLC!Connected(c)
<1>1. CASE PLC!Accept
  <2>1. /\ backlog # <<>> /\ serving' = Head(backlog)
        /\ backlog' = Tail(backlog)
    BY <1>1 DEF PLC!Accept
  <2>2. CASE c = serving'
    BY <2>1, <2>2 DEF PLC!Connected
  <2>3. CASE \E i \in DOMAIN backlog' : backlog'[i] = c
    <3>1. PICK i \in DOMAIN backlog' : backlog'[i] = c
      BY <2>3
    <3>2. i + 1 \in DOMAIN backlog /\ backlog[i + 1] = c
      BY <2>1, <3>1
    <3> QED
      BY <3>2 DEF PLC!Connected
  <2> QED
    BY <2>2, <2>3 DEF PLC!Connected
<1>2. CASE PlcEnds
  <2>1. serving' = None /\ (backlog' = backlog \/ backlog' = <<>>)
    BY <1>2 DEF PlcEnds, PLC!ServeSafetyCoil, PLC!ServeBlocked,
                PLC!ServeNormal, PLC!DropClosed, PLC!Crash, PLC!Answer
  <2>2. PICK i \in DOMAIN backlog' : backlog'[i] = c
    BY <2>1, ClientsAssumption DEF PLC!Connected
  <2>3. backlog' = backlog
    BY <2>1, <2>2
  <2> QED
    BY <2>2, <2>3 DEF PLC!Connected
<1>3. CASE \E new \in Conns : new # c /\ PLC!Connect(new)
  <2>1. PICK new \in Conns : new # c /\ PLC!Connect(new)
    BY <1>3
  <2>2. backlog' = Append(backlog, new) /\ serving' = serving
    BY <2>1 DEF PLC!Connect
  <2>3. CASE c = serving'
    BY <2>2, <2>3 DEF PLC!Connected
  <2>4. CASE \E i \in DOMAIN backlog' : backlog'[i] = c
    <3>1. PICK i \in DOMAIN backlog' : backlog'[i] = c
      BY <2>4
    <3>2. i \in DOMAIN backlog /\ backlog[i] = c
      BY <2>1, <2>2, <3>1
    <3> QED
      BY <3>2 DEF PLC!Connected
  <2> QED
    BY <2>3, <2>4 DEF PLC!Connected
<1>4. CASE UNCHANGED <<backlog, serving>>
  BY <1>4 DEF PLC!Connected
<1> QED
  BY <1>1, <1>2, <1>3, <1>4

LEMMA NextSignalsSent ==
  TypeOK /\ SignalState /\ SignalsSent /\ [Next]_vars => SignalsSent'
<1> SUFFICES ASSUME TypeOK, SignalState, SignalsSent, [Next]_vars
             PROVE  SignalsSent'
  OBVIOUS
<1>t. /\ backlog \in Seq(Conns) /\ Signals \subseteq Conns
      /\ signal \in Signals \cup {0}
      /\ unread \in [Conns -> PLC!Frames \cup {None}]
      /\ closed \in SUBSET Conns
      /\ Clients \cap Signals = {}
  BY ClientsAssumption DEF TypeOK, PLC!PlcTypeOK, Conns
<1>i. Signals \subseteq Nat
  BY DEF Signals
\* Steps that open no connection, write nothing and close nothing of PRISM's.
<1>q. ASSUME UNCHANGED signal,
             \A s \in Signals : PLC!Connected(s)' => PLC!Connected(s),
             \A s \in Signals : unread'[s] \in {unread[s], None},
             \A s \in Signals : s \in closed' => s \in closed,
             at' = "write" => at = "write",
             at' # "outside" => isOn'
      PROVE  SignalsSent'
  <2>1. at' = "write" => signal \in Signals
    BY <1>q DEF TypeOK
  <2> QED
    BY <1>q, <2>1 DEF SignalsSent
<1>1. CASE EvaluateAndApply
  <2>1. UNCHANGED <<plcVars, signal>>
    BY <1>1 DEF EvaluateAndApply
  <2>2. at' # "outside" => isOn' /\ at' = "connect"
    BY <1>1 DEF EvaluateAndApply, EE!ApplyReports, EE!ApplySignals,
                EE!NeedsSignal, Risk!Evaluate, Risk!Decision
  <2>3. \A s \in Signals : PLC!Connected(s)' => PLC!Connected(s)
    BY <2>1 DEF PLC!Connected
  <2> QED
    BY <1>q, <2>1, <2>2, <2>3
<1>2. CASE SignalConnects
  <2>1. /\ at = "connect" /\ at' = "write" /\ isOn' = isOn
        /\ signal' = signal + 1 /\ signal + 1 \in Signals
        /\ PLC!Connect(signal + 1)
        /\ UNCHANGED <<unread, closed>>
    BY <1>2 DEF SignalConnects, EE!ConnectSucceeds, PLC!Connect
  <2>2. ASSUME NEW s \in Signals, s > signal'
        PROVE  ~PLC!Connected(s)'
    <3>1. s # signal + 1 /\ ~PLC!Connected(s)
      BY <1>t, <1>i, <2>1, <2>2 DEF SignalsSent
    <3>2. s \in Conns /\ \E new \in Conns : new # s /\ PLC!Connect(new)
      BY <1>t, <2>1, <3>1
    <3> QED
      BY <1>t, <3>1, <3>2, OnlyConnectAdds
  <2>3. ASSUME NEW s \in Signals, s > signal'
        PROVE  unread[s] = None /\ s \notin closed
    BY <1>t, <1>i, <2>1, <2>3 DEF SignalsSent
  <2>4. unread[signal + 1] = None /\ signal + 1 \notin closed
    BY <1>t, <1>i, <2>1 DEF SignalsSent
  <2> QED
    BY <2>1, <2>2, <2>3, <2>4 DEF SignalsSent
<1>3. CASE SignalRefused
  <2>1. UNCHANGED <<plcVars, signal>> /\ at' = "outside"
    BY <1>3 DEF SignalRefused, EE!SignalFails
  <2>2. \A s \in Signals : PLC!Connected(s)' => PLC!Connected(s)
    BY <2>1 DEF PLC!Connected
  <2> QED
    BY <1>q, <2>1, <2>2
<1>4. CASE SignalWritten
  <2>1. /\ at' = "outside" /\ signal \in Signals
        /\ UNCHANGED <<backlog, serving, signal>>
        /\ unread' = [unread EXCEPT ![signal] = EngageFrame]
        /\ closed' = closed \cup {signal}
    BY <1>4 DEF SignalWritten, EE!WriteSucceeds, PLC!WriteAndClose, TypeOK
  <2>2. \A s \in Signals : s > signal =>
          unread'[s] = unread[s] /\ (s \in closed' => s \in closed)
    BY <1>t, <1>i, <2>1
  <2>3. \A s \in Signals : PLC!Connected(s)' => PLC!Connected(s)
    BY <2>1 DEF PLC!Connected
  <2> QED
    BY <2>1, <2>2, <2>3 DEF SignalsSent
<1>5. CASE SignalReset \/ SignalLost
  <2>1. UNCHANGED <<plcVars, signal>> /\ at' = "outside"
    BY <1>5 DEF SignalReset, EE!SignalFails, SignalLost, EE!WriteSucceeds
  <2>2. \A s \in Signals : PLC!Connected(s)' => PLC!Connected(s)
    BY <2>1 DEF PLC!Connected
  <2> QED
    BY <1>q, <2>1, <2>2
<1>6. CASE PrismCrash
  <2>1. /\ UNCHANGED <<backlog, serving, unread, signal>>
        /\ at' = "outside"
        /\ closed' = closed \/ (closed' = closed \cup {signal} /\ at = "write")
    BY <1>6 DEF PrismCrash, PLC!Close
  <2>2. \A s \in Signals : s > signal /\ s \in closed' => s \in closed
    BY <1>t, <1>i, <2>1
  <2>3. \A s \in Signals : PLC!Connected(s)' => PLC!Connected(s)
    BY <2>1 DEF PLC!Connected
  <2> QED
    BY <2>1, <2>2, <2>3 DEF SignalsSent
<1>7. ASSUME NEW c \in Clients, Client(c)
      PROVE  SignalsSent'
  <2>1. c \in Conns /\ c \notin Signals
    BY <1>t DEF Conns
  <2>2. UNCHANGED <<signal, closed, at, isOn>>
    BY <1>7, <2>1 DEF Client, ClientConnects, ClientSends, ClientExits,
                      PLC!Connect, PLC!Write, PLC!Forget
  <2>3. \A s \in Signals : unread'[s] = unread[s]
    BY <1>7, <1>t, <2>1
       DEF Client, ClientConnects, ClientSends, ClientExits, PLC!Connect,
           PLC!Write, PLC!Forget
  <2>4. PLC!Connect(c) \/ UNCHANGED <<backlog, serving>>
    BY <1>7 DEF Client, ClientConnects, ClientSends, ClientExits,
                PLC!Write, PLC!Forget
  <2>5. ASSUME NEW s \in Signals, PLC!Connected(s)'
        PROVE  PLC!Connected(s)
    <3>1. s \in Conns /\ s # c
      BY <1>t, <2>1
    <3> QED
      BY <1>t, <2>1, <2>4, <2>5, <3>1, OnlyConnectAdds
  <2>6. at' # "outside" => isOn'
    BY <2>2 DEF SignalsSent
  <2> QED
    BY <1>q, <2>2, <2>3, <2>5, <2>6
<1>8. ASSUME PLC!Accept \/ PlcEnds,
             UNCHANGED <<signal, at, isOn>>
      PROVE  SignalsSent'
  <2>1. \A s \in Signals : PLC!Connected(s)' => PLC!Connected(s)
    BY <1>t, <1>8, OnlyConnectAdds
  <2>2. UNCHANGED closed
    BY <1>8 DEF PlcEnds, PLC!Accept, PLC!ServeSafetyCoil, PLC!ServeBlocked,
                PLC!ServeNormal, PLC!DropClosed, PLC!Crash, PLC!Answer
  <2>3. \A s \in Signals : unread'[s] \in {unread[s], None}
    BY <1>t, <1>8
       DEF PlcEnds, PLC!Accept, PLC!ServeSafetyCoil, PLC!ServeBlocked,
           PLC!ServeNormal, PLC!DropClosed, PLC!Crash, PLC!Answer
  <2>4. at' # "outside" => isOn'
    BY <1>8 DEF SignalsSent
  <2> QED
    BY <1>q, <1>8, <2>1, <2>2, <2>3, <2>4
<1>9. CASE PlcServesCoil \/ PlcStep \/ PlcCrash
  BY <1>8, <1>9 DEF PlcServesCoil, PlcStep, PlcCrash, PlcEnds
<1>10. CASE PlcRestart \/ UNCHANGED vars
  <2>1. UNCHANGED <<backlog, serving, unread, closed, signal, at, isOn>>
    BY <1>10 DEF PlcRestart, PLC!Restart, vars
  <2>2. \A s \in Signals : PLC!Connected(s)' => PLC!Connected(s)
    BY <2>1 DEF PLC!Connected
  <2>3. at' # "outside" => isOn'
    BY <2>1 DEF SignalsSent
  <2> QED
    BY <1>q, <2>1, <2>2, <2>3
<1> QED
  BY <1>1, <1>2, <1>3, <1>4, <1>5, <1>6, <1>7, <1>9, <1>10
     DEF Next, Prism, Plc

LEMMA NextClientsDoNotForge ==
  ASSUME EngageFrame \notin Requests
  PROVE  TypeOK /\ ClientsDoNotForge /\ [Next]_vars => ClientsDoNotForge'
<1> SUFFICES ASSUME TypeOK, ClientsDoNotForge, [Next]_vars
             PROVE  ClientsDoNotForge'
  OBVIOUS
<1>t. /\ Clients \subseteq Conns
      /\ unread \in [Conns -> PLC!Frames \cup {None}]
      /\ Clients \cap Signals = {}
      /\ None # EngageFrame
  BY ClientsAssumption, RequestsAssumption, EngageIsFrame
     DEF TypeOK, PLC!PlcTypeOK, Conns
<1>1. ASSUME \A c \in Clients : unread'[c] \in {unread[c], None}
      PROVE  ClientsDoNotForge'
  BY <1>t, <1>1 DEF ClientsDoNotForge
<1>2. CASE Prism
  <2>1. \A c \in Clients : unread'[c] = unread[c]
    <3>1. CASE SignalWritten
      BY <1>t, <3>1
         DEF SignalWritten, EE!WriteSucceeds, PLC!WriteAndClose, TypeOK
    <3>2. CASE ~SignalWritten
      <4>1. UNCHANGED unread
        BY <1>2, <3>2
           DEF Prism, EvaluateAndApply, SignalConnects, SignalRefused,
               SignalReset, SignalLost, PrismCrash, PLC!Connect, PLC!Close
      <4> QED
        BY <4>1
    <3> QED
      BY <3>1, <3>2
  <2> QED
    BY <1>1, <2>1
<1>3. ASSUME NEW c \in Clients, Client(c)
      PROVE  ClientsDoNotForge'
  <2>1. CASE ClientSends(c)
    <3>1. unread' = [unread EXCEPT ![c] = request[c]]
      BY <2>1 DEF ClientSends, PLC!Write
    <3>2. request[c] # EngageFrame
      BY <1>t DEF TypeOK
    <3> QED
      BY <1>t, <3>1, <3>2 DEF ClientsDoNotForge
  <2>2. CASE ~ClientSends(c)
    <3>1. UNCHANGED unread
      BY <1>3, <2>2 DEF Client, ClientConnects, ClientExits, PLC!Connect,
                        PLC!Forget
    <3> QED
      BY <1>1, <3>1
  <2> QED
    BY <2>1, <2>2
<1>4. CASE Plc
  <2>1. \A c \in Clients : unread'[c] \in {unread[c], None}
    BY <1>4, <1>t
       DEF Plc, PlcServesCoil, PlcStep, PlcCrash, PlcRestart, PLC!Accept,
           PLC!ServeSafetyCoil, PLC!ServeBlocked, PLC!ServeNormal,
           PLC!DropClosed, PLC!Crash, PLC!Restart, PLC!Answer
  <2> QED
    BY <1>1, <2>1
<1>5. CASE UNCHANGED vars
  BY <1>1, <1>5 DEF vars
<1> QED
  BY <1>2, <1>3, <1>4, <1>5 DEF Next

-----------------------------------------------------------------------------
(***************************************************************************)
(* What is in flight                                                       *)
(***************************************************************************)

\* No signal is added to the queue and none taken from it.
LEMMA NoSignalMoves ==
  ASSUME TypeOK,
         \A s \in Signals : unread'[s] = unread[s],
         \/ PLC!Accept
         \/ PLC!DropClosed
         \/ \E c \in Conns : /\ PLC!Connect(c)
                             /\ c \in Clients \/ unread[c] # EngageFrame
         \/ UNCHANGED <<backlog, serving>>
  PROVE  \A s \in Signals : InFlight(s)' <=> InFlight(s)
<1> SUFFICES ASSUME NEW s \in Signals, unread[s] = EngageFrame
             PROVE  PLC!Connected(s)' <=> PLC!Connected(s)
  BY DEF InFlight
<1>t. /\ s \in Conns /\ s \notin Clients /\ backlog \in Seq(Conns)
      /\ None # EngageFrame
  BY ClientsAssumption, RequestsAssumption, EngageIsFrame
     DEF TypeOK, PLC!PlcTypeOK, Conns
<1>1. CASE PLC!Accept
  BY <1>t, <1>1, OnlyConnectAdds, AcceptKeepsConnected
<1>2. CASE PLC!DropClosed
  <2>1. s # serving
    BY <1>t, <1>2 DEF PLC!DropClosed
  <2>2. PLC!Connected(s) => PLC!Connected(s)'
    BY <1>2, <2>1 DEF PLC!DropClosed, PLC!Connected
  <2> QED
    BY <1>t, <1>2, <2>2, OnlyConnectAdds DEF PlcEnds
<1>3. ASSUME NEW c \in Conns, PLC!Connect(c),
             c \in Clients \/ unread[c] # EngageFrame
      PROVE  PLC!Connected(s)' <=> PLC!Connected(s)
  <2>1. \E new \in Conns : new # s /\ PLC!Connect(new)
    BY <1>t, <1>3
  <2> QED
    BY <1>t, <1>3, <2>1, OnlyConnectAdds, ConnectKeepsConnected
<1>4. CASE UNCHANGED <<backlog, serving>>
  BY <1>4 DEF PLC!Connected
<1> QED
  BY <1>1, <1>2, <1>3, <1>4

\* An answer takes the connection being served away, and no other.
LEMMA AnswerTakesOne ==
  ASSUME TypeOK, NEW response, PLC!Answer(response), serving # None
  PROVE  \A s \in Signals : InFlight(s)' <=> InFlight(s) /\ s # serving
<1> SUFFICES ASSUME NEW s \in Signals
             PROVE  InFlight(s)' <=> InFlight(s) /\ s # serving
  OBVIOUS
<1>1. /\ s \in Conns /\ serving \in Conns /\ s # None /\ None # EngageFrame
      /\ unread \in [Conns -> PLC!Frames \cup {None}]
  BY ClientsAssumption, RequestsAssumption, EngageIsFrame
     DEF TypeOK, PLC!PlcTypeOK, Conns
<1>2. /\ unread' = [unread EXCEPT ![serving] = None]
      /\ serving' = None /\ backlog' = backlog
  BY DEF PLC!Answer
<1>3. CASE s = serving
  BY <1>1, <1>2, <1>3 DEF InFlight
<1>4. CASE s # serving
  BY <1>1, <1>2, <1>4 DEF InFlight, PLC!Connected
<1> QED
  BY <1>3, <1>4

-----------------------------------------------------------------------------
(***************************************************************************)
(* The refinement                                                          *)
(***************************************************************************)

\* The PLC takes no other frame for PRISM's.
LEMMA OnlyOneFrameEngages ==
  \A f \in PLC!Frames : PLC!IsEngage(f) => f = EngageFrame
<1> DEFINE Byte == 0..255
           Word == 0..65535
<1>1. PLC!Frames = [function : Byte, address : Word, value : Word]
  BY DEF PLC!Frames
<1> HIDE DEF Byte, Word
<1> SUFFICES ASSUME NEW f \in PLC!Frames, PLC!IsEngage(f)
             PROVE  f = EngageFrame
  OBVIOUS
<1>2. f = [function |-> f.function, address |-> f.address, value |-> f.value]
  BY <1>1
<1> QED
  BY <1>2 DEF EngageFrame, PLC!IsEngage, PLC!IsSafetyCoil

\* Each step of PRISM, the clients and the PLC is a step of WriteLock or one it
\* does not see.
LEMMA StepImplementsWriteLock ==
  ASSUME EngageFrame \notin Requests
  PROVE  RInv /\ [Next]_vars => [Abstract!Next]_(Abstract!vars)
<1> SUFFICES ASSUME RInv, [Next]_vars
             PROVE  [Abstract!Next]_(Abstract!vars)
  OBVIOUS
<1> DEFINE pending == {s \in Signals : PLC!Connected(s)
                                       /\ unread[s] = EngageFrame}
<1>t. /\ TypeOK /\ SignalState /\ SignalsSent /\ ClientsDoNotForge
      /\ Signals \subseteq Conns /\ Clients \subseteq Conns
      /\ unread \in [Conns -> PLC!Frames \cup {None}]
      /\ None # EngageFrame /\ None \notin Conns
      /\ Clients \cap Signals = {}
  BY ClientsAssumption, RequestsAssumption, EngageIsFrame
     DEF RInv, TypeOK, PLC!PlcTypeOK, Conns
<1>p. (\A s \in Signals : InFlight(s)' <=> InFlight(s)) => pending' = pending
  BY DEF InFlight
\* Where no signal moves, only the escalation can.
<1>q. ASSUME pending' = pending, UNCHANGED <<locked, writeLocked>>,
             isOn' \in BOOLEAN
      PROVE  Abstract!Next
  BY <1>q DEF Abstract!Next, Abstract!Evaluate
<1>1. CASE EvaluateAndApply
  <2>1. UNCHANGED <<plcVars, locked>> /\ isOn' \in BOOLEAN
    BY <1>1 DEF EvaluateAndApply, EE!ApplyReports, EE!ApplySignals,
                Risk!Evaluate, Risk!NextOn
  <2>2. pending' = pending
    BY <1>p, <1>t, <2>1, NoSignalMoves
  <2> QED
    BY <1>q, <2>1, <2>2
<1>2. CASE SignalConnects
  <2>1. /\ signal + 1 \in Signals /\ PLC!Connect(signal + 1)
        /\ UNCHANGED <<locked, isOn, writeLocked, unread>>
    BY <1>2 DEF SignalConnects, EE!ConnectSucceeds, PLC!Connect
  <2>2. unread[signal + 1] = None
    BY <1>t, <2>1 DEF SignalsSent, TypeOK, Signals
  <2>3. pending' = pending
    BY <1>p, <1>t, <2>1, <2>2, NoSignalMoves
  <2> QED
    BY <1>q, <1>t, <2>1, <2>3 DEF TypeOK
<1>3. CASE SignalRefused \/ SignalReset
  <2>1. UNCHANGED <<plcVars, locked, isOn>>
    BY <1>3 DEF SignalRefused, SignalReset, EE!SignalFails
  <2>2. pending' = pending
    BY <1>p, <1>t, <2>1, NoSignalMoves
  <2> QED
    BY <1>q, <1>t, <2>1, <2>2 DEF TypeOK
<1>4. CASE SignalWritten \/ SignalLost
  <2>1. /\ at = "write" /\ locked' = TRUE
        /\ signal \in Signals /\ unread[signal] = None
        /\ UNCHANGED <<isOn, writeLocked, backlog, serving>>
    BY <1>4, <1>t
       DEF SignalWritten, SignalLost, EE!WriteSucceeds, PLC!WriteAndClose,
           TypeOK, SignalsSent
  <2>2. isOn /\ ~locked
    BY <1>t, <2>1 DEF SignalsSent, SignalState
  <2>3. signal \notin pending
    BY <1>t, <2>1
  <2>4. pending' \in {pending, pending \cup {signal}}
    <3>1. CASE SignalWritten
      <4>1. /\ PLC!Connected(signal)
            /\ unread' = [unread EXCEPT ![signal] = EngageFrame]
        BY <3>1 DEF SignalWritten, PLC!WriteAndClose
      <4>2. \A s \in Signals : PLC!Connected(s)' <=> PLC!Connected(s)
        BY <2>1 DEF PLC!Connected
      <4> QED
        BY <1>t, <2>1, <4>1, <4>2
    <3>2. CASE SignalLost
      <4>1. UNCHANGED plcVars
        BY <3>2 DEF SignalLost
      <4> QED
        BY <1>p, <1>t, <4>1, NoSignalMoves
    <3> QED
      BY <1>4, <3>1, <3>2
  <2>5. PICK s \in Signals : s = signal
    BY <2>1
  <2>6. Abstract!Signal(s)
    BY <2>1, <2>2, <2>3, <2>4, <2>5 DEF Abstract!Signal
  <2> QED
    BY <2>6 DEF Abstract!Next
<1>5. CASE PrismCrash
  <2>1. /\ isOn' = FALSE /\ locked' = FALSE
        /\ UNCHANGED <<writeLocked, backlog, serving, unread>>
    BY <1>5 DEF PrismCrash, PLC!Close
  <2>2. pending' = pending
    BY <1>p, <1>t, <2>1, NoSignalMoves
  <2>3. Abstract!MonitorRestarts
    BY <2>1, <2>2 DEF Abstract!MonitorRestarts
  <2> QED
    BY <2>3 DEF Abstract!Next
<1>6. ASSUME NEW c \in Clients, Client(c)
      PROVE  Abstract!Next
  <2>1. /\ UNCHANGED <<isOn, locked, writeLocked>>
        /\ \A s \in Signals : unread'[s] = unread[s]
        /\ \/ UNCHANGED <<backlog, serving>>
           \/ PLC!Connect(c)
    BY <1>6, <1>t
       DEF Client, ClientConnects, ClientSends, ClientExits, PLC!Connect,
           PLC!Write, PLC!Forget
  <2>2. pending' = pending
    BY <1>p, <1>t, <2>1, NoSignalMoves
  <2> QED
    BY <1>q, <1>t, <2>1, <2>2 DEF TypeOK
\* The safety coil: PRISM's frame, the operator's release, or another value.
<1>7. CASE PlcServesCoil
  <2> DEFINE f == unread[serving]
  <2>1. /\ serving # None /\ f # None /\ PLC!IsSafetyCoil(f)
        /\ writeLocked' = PLC!LockAfter(f)
        /\ PLC!Answer(PLC!Echo(f))
        /\ UNCHANGED <<isOn, locked>>
    BY <1>7 DEF PlcServesCoil, PLC!ServeSafetyCoil
  <2>2. pending' = pending \ {serving}
    BY <1>t, <2>1, AnswerTakesOne DEF InFlight
  <2>3. serving \in Conns /\ f \in PLC!Frames
    BY <1>t, <2>1 DEF TypeOK, PLC!PlcTypeOK
  <2>4. CASE f = EngageFrame
    <3>1. serving \in Signals
      BY <1>t, <2>3, <2>4 DEF ClientsDoNotForge, Conns
    <3>2. serving \in pending
      BY <2>4, <3>1 DEF PLC!Connected
    <3>3. PLC!IsEngage(f)
      BY <2>4 DEF EngageFrame, PLC!IsEngage, PLC!IsSafetyCoil
    <3>4. writeLocked' = TRUE
      BY <2>1, <3>3 DEF PLC!LockAfter
    <3> QED
      BY <2>1, <2>2, <3>1, <3>2, <3>4 DEF Abstract!Next, Abstract!Engage
  <2>5. CASE f # EngageFrame
    <3>1. pending' = pending
      BY <2>2, <2>5
    <3>2. ~PLC!IsEngage(f)
      BY <2>3, <2>5, OnlyOneFrameEngages
    <3>3. CASE PLC!IsRelease(f)
      <4>1. writeLocked' = FALSE
        BY <2>1, <3>2, <3>3 DEF PLC!LockAfter
      <4> QED
        BY <2>1, <3>1, <4>1 DEF Abstract!Next, Abstract!Release
    <3>4. CASE ~PLC!IsRelease(f)
      <4>1. writeLocked' = writeLocked
        BY <1>t, <2>1, <3>2, <3>4 DEF PLC!LockAfter, TypeOK, PLC!PlcTypeOK
      <4> QED
        BY <1>q, <1>t, <2>1, <3>1, <4>1 DEF TypeOK
    <3> QED
      BY <3>3, <3>4
  <2> QED
    BY <2>4, <2>5
<1>8. CASE PlcStep
  <2>1. UNCHANGED <<isOn, locked, writeLocked>>
    BY <1>8 DEF PlcStep, PLC!Accept, PLC!ServeBlocked, PLC!ServeNormal,
                PLC!DropClosed
  <2>2. CASE PLC!Accept \/ PLC!DropClosed
    <3>1. UNCHANGED unread
      BY <2>2 DEF PLC!Accept, PLC!DropClosed
    <3>2. pending' = pending
      BY <1>p, <1>t, <2>2, <3>1, NoSignalMoves
    <3> QED
      BY <1>q, <1>t, <2>1, <3>2 DEF TypeOK
  <2>3. CASE PLC!ServeBlocked \/ PLC!ServeNormal
    <3>1. serving # None /\ ~PLC!IsSafetyCoil(unread[serving])
      BY <2>3 DEF PLC!ServeBlocked, PLC!ServeNormal, PLC!IsBlocked
    <3>2. unread[serving] # EngageFrame
      BY <3>1 DEF PLC!IsSafetyCoil, EngageFrame
    <3>3. PICK response : PLC!Answer(response)
      BY <2>3 DEF PLC!ServeBlocked, PLC!ServeNormal
    <3>4. pending' = pending
      BY <1>t, <3>1, <3>2, <3>3, AnswerTakesOne DEF InFlight
    <3> QED
      BY <1>q, <1>t, <2>1, <3>4 DEF TypeOK
  <2> QED
    BY <1>8, <2>2, <2>3 DEF PlcStep
<1>9. CASE PlcCrash
  <2>1. /\ writeLocked' = FALSE /\ unread' = [c \in Conns |-> None]
        /\ UNCHANGED <<isOn, locked>>
    BY <1>9 DEF PlcCrash, PLC!Crash
  <2>2. pending' = {}
    BY <1>t, <2>1
  <2> QED
    BY <2>1, <2>2 DEF Abstract!Next, Abstract!PlantDies
<1>10. CASE PlcRestart \/ UNCHANGED vars
  <2>1. UNCHANGED <<backlog, serving, unread, writeLocked, isOn, locked>>
    BY <1>10 DEF PlcRestart, PLC!Restart, vars
  <2>2. pending' = pending
    BY <1>p, <1>t, <2>1, NoSignalMoves
  <2> QED
    BY <1>q, <1>t, <2>1, <2>2 DEF TypeOK
<1> QED
  BY <1>1, <1>2, <1>3, <1>4, <1>5, <1>6, <1>7, <1>8, <1>9, <1>10
     DEF Next, Prism, Plc

LEMMA InitImplementsWriteLock ==
  Init => Abstract!Init /\ SignalState /\ SignalsSent
<1> SUFFICES ASSUME Init
             PROVE  Abstract!Init /\ SignalState /\ SignalsSent
  OBVIOUS
<1>1. /\ unread = [c \in Conns |-> None] /\ Signals \subseteq Conns
      /\ None # EngageFrame /\ None \notin Conns
      /\ backlog = <<>> /\ serving = None /\ closed = {}
      /\ isOn = FALSE /\ locked = FALSE /\ writeLocked = FALSE
      /\ at = "outside" /\ engagements = 0
  BY ClientsAssumption, RequestsAssumption, EngageIsFrame
     DEF Init, EE!EnforcerInit, PLC!PlcInit, Conns
<1>2. \A s \in Signals : unread[s] = None /\ ~PLC!Connected(s)
  BY <1>1 DEF PLC!Connected
<1>3. Abstract!Init
  BY <1>1, <1>2 DEF Abstract!Init
<1> QED
  BY <1>1, <1>2, <1>3 DEF SignalState, SignalsSent

\* If only PRISM sends the engage frame, the two programs and the sockets between
\* them behave as one atomic lock: engaged by a signal of an escalation only, once
\* for each, and signalled once in a life of PRISM (enforcer.cpp:18-76,
\* server.cpp:38-79).
THEOREM Refinement ==
  ASSUME EngageFrame \notin Requests
  PROVE  Spec => ImplementsWriteLock
<1>1. Init => ClientsDoNotForge
  BY RequestsAssumption, EngageIsFrame
     DEF Init, PLC!PlcInit, ClientsDoNotForge, Conns
<1>2. Init => RInv
  BY <1>1, InitTypeOK, InitImplementsWriteLock DEF RInv
<1>3. RInv /\ [Next]_vars => RInv'
  BY NextTypeOK, NextSignalState, NextSignalsSent, NextClientsDoNotForge
     DEF RInv
<1> QED
  BY <1>2, <1>3, InitImplementsWriteLock, StepImplementsWriteLock, PTL
     DEF Spec, Abstract!Spec, ImplementsWriteLock

-----------------------------------------------------------------------------
(***************************************************************************)
(* A write that comes after PRISM's signal is blocked, for every set of    *)
(* clients and requests, every backlog and every number of crashes: an     *)
(* argument about the order in which the PLC's queue holds the connections *)
(* of PRISM and of the clients.                                            *)
(***************************************************************************)

\* If b waits, a is served before it.
Before(a, b) ==
  /\ serving # b
  /\ \A j \in DOMAIN backlog : backlog[j] = b =>
       a = serving \/ \E i \in DOMAIN backlog : i < j /\ backlog[i] = a

\* No connection is in the queue twice.
QueuedOnce ==
  /\ \A i, j \in DOMAIN backlog : backlog[i] = backlog[j] => i = j
  /\ \A i \in DOMAIN backlog : backlog[i] # serving

\* A client that has not connected has no place in the queue and no answer.
NewAreAway ==
  /\ \A c \in Clients :
       client[c] = "new" => ~PLC!Connected(c) /\ reply[c] = None
  /\ \A c \in late : client[c] # "new"

\* PRISM's signals are served in the order it sent them.
SignalsInOrder ==
  \A r, s \in Signals : r < s /\ PLC!Connected(r) => Before(r, s)

\* The running PRISM's signal is in the queue, written or about to be.
Ahead ==
  /\ PLC!Connected(signal)
  /\ at = "write" \/ (locked /\ unread[signal] = EngageFrame)

\* It has taken effect, and no other will come.
Settled == writeLocked /\ locked /\ ~EngageInFlight

LockHolds ==
  /\ locked => signal # 0
  /\ locked /\ ~undone => Ahead \/ Settled

\* A late client that waits is behind the signal, or behind its effect.
LateWait ==
  ~undone =>
    \A c \in late : PLC!Connected(c) =>
      /\ reply[c] = None
      /\ (Ahead /\ Before(signal, c)) \/ Settled

QInv ==
  /\ TypeOK
  /\ SignalState
  /\ SignalsSent
  /\ QueuedOnce
  /\ NewAreAway
  /\ SignalsInOrder
  /\ LockHolds
  /\ LateWait
  /\ LateWritesBlocked

-----------------------------------------------------------------------------
(***************************************************************************)
(* How the queue moves                                                     *)
(***************************************************************************)

\* The connection being served is closed.
Closes == serving # None /\ serving' = None /\ backlog' = backlog

\* Who may join: a client that is new, PRISM's next signal.
Joins(c) ==
  /\ PLC!Connect(c)
  /\ \/ c \in Clients /\ client[c] = "new" /\ UNCHANGED signal
     \/ c \in Signals /\ c = signal + 1 /\ signal' = c

Moves ==
  \/ UNCHANGED <<backlog, serving, signal>>
  \/ PLC!Accept /\ UNCHANGED signal
  \/ Closes /\ UNCHANGED signal
  \/ backlog' = <<>> /\ serving' = None /\ UNCHANGED signal
  \/ \E c \in Conns : Joins(c)

LEMMA NextMoves == TypeOK /\ [Next]_vars => Moves
<1> SUFFICES ASSUME TypeOK, [Next]_vars PROVE Moves
  OBVIOUS
<1> USE DEF Moves
<1>1. CASE Prism
  <2>1. CASE SignalConnects
    <3>1. PICK s \in Signals : s = signal + 1
      BY <2>1 DEF SignalConnects
    <3>2. Joins(s)
      BY <2>1, <3>1 DEF SignalConnects, Joins, PLC!Connect
    <3> QED
      BY <3>1, <3>2 DEF Conns
  <2>2. CASE ~SignalConnects
    BY <1>1, <2>2
       DEF Prism, EvaluateAndApply, SignalRefused, SignalWritten, SignalReset,
           SignalLost, PrismCrash, PLC!WriteAndClose, PLC!Close
  <2> QED
    BY <2>1, <2>2
<1>2. ASSUME NEW c \in Clients, Client(c)
      PROVE  Moves
  <2>1. CASE \E f \in Requests : ClientConnects(c, f)
    <3>1. Joins(c)
      BY <2>1 DEF ClientConnects, Joins
    <3> QED
      BY <3>1 DEF Conns
  <2>2. CASE ClientSends(c) \/ ClientExits(c)
    BY <2>2 DEF ClientSends, ClientExits, PLC!Write, PLC!Forget
  <2> QED
    BY <1>2, <2>1, <2>2 DEF Client
<1>3. CASE Plc
  <2>1. CASE PlcServesCoil \/ PlcStep
    BY <2>1 DEF PlcServesCoil, PlcStep, PLC!ServeSafetyCoil, PLC!ServeBlocked,
                PLC!ServeNormal, PLC!DropClosed, PLC!Answer, Closes
  <2>2. CASE PlcCrash \/ PlcRestart
    BY <2>2 DEF PlcCrash, PlcRestart, PLC!Crash, PLC!Restart
  <2> QED
    BY <1>3, <2>1, <2>2 DEF Plc
<1>4. CASE UNCHANGED vars
  BY <1>4 DEF vars
<1> QED
  BY <1>1, <1>2, <1>3, <1>4 DEF Next

\* The order of two connections is kept until the first is served, whatever joins.
LEMMA AcceptKeepsOrder ==
  ASSUME backlog \in Seq(Conns), NEW a \in Conns, NEW b \in Conns,
         Before(a, b), PLC!Accept
  PROVE  Before(a, b)'
<1>1. /\ backlog # <<>> /\ serving = None /\ a # None
      /\ serving' = Head(backlog) /\ backlog' = Tail(backlog)
  BY ClientsAssumption DEF PLC!Accept
<1>2. serving' # b
  <2>1. SUFFICES ASSUME backlog[1] = b PROVE FALSE
    BY <1>1
  <2>2. 1 \in DOMAIN backlog
    BY <1>1
  <2>3. \E i \in DOMAIN backlog : i < 1
    BY <1>1, <2>1, <2>2 DEF Before
  <2> QED
    BY <2>3
<1>3. ASSUME NEW j \in DOMAIN backlog', backlog'[j] = b
      PROVE  a = serving' \/ \E i \in DOMAIN backlog' : i < j /\ backlog'[i] = a
  <2>1. j + 1 \in DOMAIN backlog /\ backlog[j + 1] = b /\ j \in Nat
    BY <1>1, <1>3
  <2>2. PICK i \in DOMAIN backlog : i < j + 1 /\ backlog[i] = a
    BY <1>1, <2>1 DEF Before
  <2>3. CASE i = 1
    BY <1>1, <2>2, <2>3
  <2>4. CASE i # 1
    <3>1. i - 1 \in DOMAIN backlog' /\ i - 1 < j /\ backlog'[i - 1] = a
      BY <1>1, <2>1, <2>2, <2>4
    <3> QED
      BY <3>1
  <2> QED
    BY <2>3, <2>4
<1> QED
  BY <1>2, <1>3 DEF Before

LEMMA ConnectKeepsOrder ==
  ASSUME backlog \in Seq(Conns), NEW a \in Conns, NEW b \in Conns,
         NEW c \in Conns, PLC!Connect(c), PLC!Connected(a),
         Before(a, b), c = b => ~PLC!Connected(b)
  PROVE  Before(a, b)'
<1>1. /\ backlog' = Append(backlog, c) /\ serving' = serving
      /\ serving # b
  BY DEF PLC!Connect, Before
<1>2. ASSUME NEW j \in DOMAIN backlog', backlog'[j] = b, a # serving
      PROVE  \E i \in DOMAIN backlog' : i < j /\ backlog'[i] = a
  <2>1. CASE j \in DOMAIN backlog
    <3>1. backlog[j] = b
      BY <1>1, <1>2, <2>1
    <3>2. PICK i \in DOMAIN backlog : i < j /\ backlog[i] = a
      BY <1>2, <2>1, <3>1 DEF Before
    <3> QED
      BY <1>1, <3>2
  <2>2. CASE j \notin DOMAIN backlog
    <3>1. j = Len(backlog) + 1
      BY <1>1, <2>2
    <3>2. PICK i \in DOMAIN backlog : backlog[i] = a
      BY <1>2 DEF PLC!Connected
    <3> QED
      BY <1>1, <3>1, <3>2
  <2> QED
    BY <2>1, <2>2
<1> QED
  BY <1>1, <1>2 DEF Before

LEMMA CloseKeepsOrder ==
  ASSUME NEW a \in Conns, NEW b \in Conns, Before(a, b),
         Closes /\ a # serving
  PROVE  Before(a, b)'
BY ClientsAssumption DEF Before, Closes

LEMMA NextQueuedOnce ==
  TypeOK /\ SignalsSent /\ QueuedOnce /\ NewAreAway /\ Moves => QueuedOnce'
<1> SUFFICES ASSUME TypeOK, SignalsSent, QueuedOnce, NewAreAway, Moves
             PROVE  QueuedOnce'
  OBVIOUS
<1>t. backlog \in Seq(Conns) /\ None \notin Conns /\ Signals \subseteq Nat
  BY ClientsAssumption DEF TypeOK, PLC!PlcTypeOK, Signals
<1>1. CASE UNCHANGED <<backlog, serving>>
  BY <1>1 DEF QueuedOnce
<1>2. CASE PLC!Accept
  <2>1. /\ backlog # <<>> /\ serving' = Head(backlog)
        /\ backlog' = Tail(backlog)
    BY <1>2 DEF PLC!Accept
  <2>2. \A i \in DOMAIN backlog' :
          /\ i + 1 \in DOMAIN backlog /\ backlog'[i] = backlog[i + 1]
          /\ i \in Nat /\ i + 1 # 1
    BY <1>t, <2>1
  <2>3. \A i, j \in DOMAIN backlog' : backlog'[i] = backlog'[j] => i = j
    <3> SUFFICES ASSUME NEW i \in DOMAIN backlog', NEW j \in DOMAIN backlog',
                        backlog'[i] = backlog'[j]
                 PROVE  i = j
      OBVIOUS
    <3>1. i + 1 = j + 1
      BY <2>2 DEF QueuedOnce
    <3> QED
      BY <2>2, <3>1
  <2>4. 1 \in DOMAIN backlog /\ serving' = backlog[1]
    BY <1>t, <2>1
  <2>5. ASSUME NEW i \in DOMAIN backlog'
        PROVE  backlog'[i] # serving'
    <3>1. backlog[i + 1] = backlog[1] => i + 1 = 1
      BY <2>2, <2>4 DEF QueuedOnce
    <3> QED
      BY <2>2, <2>4, <3>1
  <2> QED
    BY <2>3, <2>5 DEF QueuedOnce
<1>3. CASE Closes \/ (backlog' = <<>> /\ serving' = None)
  BY <1>t, <1>3 DEF Closes, QueuedOnce
<1>4. ASSUME NEW c \in Conns, Joins(c)
      PROVE  QueuedOnce'
  <2>1. backlog' = Append(backlog, c) /\ serving' = serving
    BY <1>4 DEF Joins, PLC!Connect
  <2>2. ~PLC!Connected(c)
    <3>1. CASE c \in Clients /\ client[c] = "new"
      BY <3>1 DEF NewAreAway
    <3>2. CASE c \in Signals /\ c = signal + 1
      <4>1. signal \in Nat /\ c > signal
        BY <1>t, <3>2 DEF TypeOK
      <4> QED
        BY <3>2, <4>1 DEF SignalsSent
    <3> QED
      BY <1>4, <3>1, <3>2 DEF Joins
  <2>3. c # serving /\ \A i \in DOMAIN backlog : backlog[i] # c
    BY <2>2 DEF PLC!Connected
  <2> QED
    BY <1>t, <2>1, <2>3 DEF QueuedOnce
<1> QED
  BY <1>1, <1>2, <1>3, <1>4 DEF Moves

LEMMA NextSignalsInOrder ==
  TypeOK /\ SignalsSent /\ QueuedOnce /\ SignalsInOrder /\ Moves
    => SignalsInOrder'
<1> SUFFICES ASSUME TypeOK, SignalsSent, QueuedOnce, SignalsInOrder, Moves,
                    NEW r \in Signals, NEW s \in Signals, r < s,
                    PLC!Connected(r)'
             PROVE  Before(r, s)'
  BY DEF SignalsInOrder
<1>t. /\ backlog \in Seq(Conns) /\ None \notin Conns
      /\ Signals \subseteq Nat /\ r \in Conns /\ s \in Conns
      /\ signal \in Nat
      /\ Clients \cap Signals = {}
  BY ClientsAssumption DEF TypeOK, PLC!PlcTypeOK, Signals, Conns
<1>1. CASE UNCHANGED <<backlog, serving>>
  BY <1>1 DEF SignalsInOrder, Before, PLC!Connected
<1>2. CASE PLC!Accept
  <2>1. PLC!Connected(r)
    BY <1>t, <1>2, OnlyConnectAdds
  <2> QED
    BY <1>t, <1>2, <2>1, AcceptKeepsOrder DEF SignalsInOrder
<1>3. CASE Closes
  <2>1. \E i \in DOMAIN backlog : backlog[i] = r
    BY <1>t, <1>3 DEF Closes, PLC!Connected
  <2>2. PLC!Connected(r) /\ r # serving
    BY <2>1 DEF PLC!Connected, QueuedOnce
  <2> QED
    BY <1>t, <1>3, <2>2, CloseKeepsOrder DEF SignalsInOrder
<1>4. CASE backlog' = <<>> /\ serving' = None
  BY <1>t, <1>4 DEF PLC!Connected
<1>5. ASSUME NEW c \in Conns, Joins(c)
      PROVE  Before(r, s)'
  <2>1. PLC!Connect(c)
    BY <1>5 DEF Joins
  <2>2. CASE c = r
    <3>1. s > signal /\ s # c
      BY <1>5, <1>t, <2>2 DEF Joins
    <3>2. ~PLC!Connected(s)
      BY <3>1 DEF SignalsSent
    <3>3. ~PLC!Connected(s)'
      <4>1. \E new \in Conns : new # s /\ PLC!Connect(new)
        BY <2>1, <3>1
      <4> QED
        BY <1>t, <3>2, <4>1, OnlyConnectAdds
    <3> QED
      BY <3>3 DEF Before, PLC!Connected
  <2>3. CASE c # r
    <3>1. PLC!Connected(r)
      <4>1. \E new \in Conns : new # r /\ PLC!Connect(new)
        BY <2>1, <2>3
      <4> QED
        BY <1>t, <4>1, OnlyConnectAdds
    <3>2. c = s => ~PLC!Connected(s)
      BY <1>5, <1>t DEF Joins, SignalsSent
    <3> QED
      BY <1>t, <2>1, <3>1, <3>2, ConnectKeepsOrder DEF SignalsInOrder
  <2> QED
    BY <2>2, <2>3
<1> QED
  BY <1>1, <1>2, <1>3, <1>4, <1>5 DEF Moves

\* The answers go to connections in the queue.
LEMMA NextNewAreAway ==
  TypeOK /\ NewAreAway /\ [Next]_vars => NewAreAway'
<1> SUFFICES ASSUME TypeOK, NewAreAway, [Next]_vars PROVE NewAreAway'
  OBVIOUS
<1>t. /\ backlog \in Seq(Conns) /\ Clients \subseteq Conns
      /\ client \in [Clients -> {"new", "connected", "waiting"}]
      /\ reply \in [Conns -> PLC!Replies \cup {None}]
      /\ late \subseteq Clients
      /\ Clients \cap Signals = {} /\ None \notin Conns
  BY ClientsAssumption DEF TypeOK, PLC!PlcTypeOK, Conns
\* Steps after which nobody is new who was not.
<1>q. ASSUME \A c \in Clients : client'[c] = "new" => client[c] = "new",
             \A c \in Clients : client[c] = "new" =>
               (PLC!Connected(c)' => PLC!Connected(c)) /\ reply'[c] = reply[c],
             late' \subseteq late
      PROVE  NewAreAway'
  <2>1. late' \subseteq Clients
    BY <1>q, <1>t
  <2>2. ASSUME NEW c \in Clients, client'[c] = "new"
        PROVE  ~PLC!Connected(c)' /\ reply'[c] = None
    BY <1>q, <2>2 DEF NewAreAway
  <2>3. \A c \in late' : client'[c] # "new"
    BY <1>q, <1>t DEF NewAreAway
  <2> QED
    BY <2>2, <2>3 DEF NewAreAway
<1>1. CASE Prism
  <2>1. UNCHANGED <<client, reply>> /\ late' \subseteq late
    BY <1>1 DEF Prism, EvaluateAndApply, SignalConnects, SignalRefused,
                SignalWritten, SignalReset, SignalLost, PrismCrash,
                PLC!Connect, PLC!WriteAndClose, PLC!Close
  <2>2. ASSUME NEW c \in Clients, PLC!Connected(c)'
        PROVE  PLC!Connected(c)
    <3>1. CASE SignalConnects
      <4>1. \E new \in Conns : new # c /\ PLC!Connect(new)
        BY <1>t, <3>1 DEF SignalConnects, Conns
      <4> QED
        BY <1>t, <2>2, <4>1, OnlyConnectAdds
    <3>2. CASE ~SignalConnects
      <4>1. UNCHANGED <<backlog, serving>>
        BY <1>1, <3>2
           DEF Prism, EvaluateAndApply, SignalRefused, SignalWritten,
               SignalReset, SignalLost, PrismCrash, PLC!WriteAndClose,
               PLC!Close
      <4> QED
        BY <1>t, <2>2, <4>1, OnlyConnectAdds
    <3> QED
      BY <3>1, <3>2
  <2> QED
    BY <1>q, <2>1, <2>2
<1>2. ASSUME NEW d \in Clients, NEW f \in Requests, ClientConnects(d, f)
      PROVE  NewAreAway'
  <2>1. /\ client[d] = "new" /\ PLC!Connect(d)
        /\ client' = [client EXCEPT ![d] = "connected"]
        /\ reply' = reply
        /\ late' \subseteq late \cup {d}
    BY <1>2 DEF ClientConnects, PLC!Connect
  <2>2. ASSUME NEW c \in Clients, client'[c] = "new"
        PROVE  ~PLC!Connected(c)' /\ reply'[c] = None
    <3>1. c # d /\ client[c] = "new"
      BY <1>t, <2>1, <2>2
    <3>2. \E new \in Conns : new # c /\ PLC!Connect(new)
      BY <1>t, <2>1, <3>1
    <3> QED
      BY <1>t, <2>1, <3>1, <3>2, OnlyConnectAdds DEF NewAreAway
  <2>3. \A c \in late' : client'[c] # "new"
    BY <1>t, <2>1 DEF NewAreAway
  <2> QED
    BY <2>2, <2>3 DEF NewAreAway
<1>3. ASSUME NEW d \in Clients, ClientSends(d)
      PROVE  NewAreAway'
  <2>1. /\ client' = [client EXCEPT ![d] = "waiting"]
        /\ UNCHANGED <<reply, late, backlog, serving>>
    BY <1>3 DEF ClientSends, PLC!Write
  <2>2. \A c \in Clients : PLC!Connected(c)' => PLC!Connected(c)
    BY <2>1 DEF PLC!Connected
  <2>3. \A c \in Clients : client'[c] = "new" => client[c] = "new"
    BY <1>t, <2>1
  <2> QED
    BY <1>q, <2>1, <2>2, <2>3
<1>4. ASSUME NEW d \in Clients, ClientExits(d)
      PROVE  NewAreAway'
  <2>1. /\ ~PLC!Connected(d) /\ d \in Conns
        /\ client' = [client EXCEPT ![d] = "new"]
        /\ reply' = [reply EXCEPT ![d] = None]
        /\ late' = late \ {d}
        /\ UNCHANGED <<backlog, serving>>
    BY <1>t, <1>4 DEF ClientExits, PLC!Forget
  <2>2. \A c \in Clients : PLC!Connected(c)' <=> PLC!Connected(c)
    BY <2>1 DEF PLC!Connected
  <2>3. \A c \in Clients : c # d => client'[c] = client[c]
                                     /\ reply'[c] = reply[c]
    BY <1>t, <2>1
  <2>4. reply'[d] = None
    BY <1>t, <2>1
  <2>5. ASSUME NEW c \in Clients, client'[c] = "new"
        PROVE  ~PLC!Connected(c)' /\ reply'[c] = None
    BY <2>1, <2>2, <2>3, <2>4, <2>5 DEF NewAreAway
  <2>6. \A c \in late' : client'[c] # "new"
    BY <1>t, <2>1, <2>3 DEF NewAreAway
  <2> QED
    BY <2>5, <2>6 DEF NewAreAway
<1>5. CASE Plc
  <2>1. UNCHANGED <<client, late>>
    BY <1>5 DEF Plc, PlcServesCoil, PlcStep, PlcCrash, PlcRestart
  <2>2. \A c \in Clients : PLC!Connected(c)' => PLC!Connected(c)
    BY <1>5, <1>t, OnlyConnectAdds
       DEF Plc, PlcServesCoil, PlcStep, PlcCrash, PlcRestart, PLC!Restart,
           PlcEnds
  <2>3. ASSUME NEW c \in Clients, client[c] = "new"
        PROVE  reply'[c] = reply[c]
    <3>1. c # serving
      BY <2>3 DEF NewAreAway, PLC!Connected
    <3> QED
      BY <1>5, <1>t, <3>1
         DEF Plc, PlcServesCoil, PlcStep, PlcCrash, PlcRestart, PLC!Restart,
             PLC!Accept, PLC!ServeSafetyCoil, PLC!ServeBlocked,
             PLC!ServeNormal, PLC!DropClosed, PLC!Crash, PLC!Answer
  <2> QED
    BY <1>q, <2>1, <2>2, <2>3
<1>6. CASE UNCHANGED vars
  <2>1. UNCHANGED <<client, late, reply, backlog, serving>>
    BY <1>6 DEF vars
  <2>2. \A c \in Clients : PLC!Connected(c)' => PLC!Connected(c)
    BY <2>1 DEF PLC!Connected
  <2> QED
    BY <1>q, <2>1, <2>2
<1> QED
  BY <1>1, <1>2, <1>3, <1>4, <1>5, <1>6 DEF Next, Client

-----------------------------------------------------------------------------
(***************************************************************************)
(* How the lock covers the queue                                           *)
(***************************************************************************)

\* What the lemmas below share.
LEMMA Types ==
  ASSUME TypeOK
  PROVE  /\ backlog \in Seq(Conns)
         /\ serving \in Conns \cup {None}
         /\ unread \in [Conns -> PLC!Frames \cup {None}]
         /\ reply \in [Conns -> PLC!Replies \cup {None}]
         /\ late \subseteq Clients
         /\ signal \in Nat /\ (signal # 0 => signal \in Signals)
         /\ Signals \subseteq Conns /\ Signals \subseteq Nat
         /\ Clients \subseteq Conns
         /\ Clients \cap Signals = {} /\ None \notin Conns
         /\ None # EngageFrame
BY ClientsAssumption, RequestsAssumption, EngageIsFrame
   DEF TypeOK, PLC!PlcTypeOK, Conns, Signals

\* The signal that is ahead is a connection of PRISM's.
LEMMA AheadIsSignal ==
  TypeOK /\ LockHolds /\ Ahead => signal \in Signals
BY Types DEF TypeOK, LockHolds, Ahead

\* An engage frame that is answered was PRISM's last one in the queue.
LEMMA SignalServed ==
  ASSUME TypeOK, SignalState, SignalsSent, SignalsInOrder, LockHolds, Ahead,
         serving = signal, ~undone',
         \/ PlcServesCoil
         \/ PlcStep /\ ~PLC!Accept
  PROVE  Settled'
<1>t. signal \in Signals /\ signal \in Conns /\ signal # None
  BY AheadIsSignal, Types
<1>1. at # "write"
  <2>1. at = "write" => unread[serving] = None /\ serving \notin closed
    BY DEF SignalsSent
  <2> QED
    BY <1>t, <2>1
       DEF PlcServesCoil, PlcStep, PLC!ServeSafetyCoil, PLC!ServeBlocked,
           PLC!ServeNormal, PLC!DropClosed
<1>2. locked /\ unread[serving] = EngageFrame
  BY <1>1 DEF Ahead
<1>3. PLC!IsEngage(unread[serving]) /\ PLC!IsSafetyCoil(unread[serving])
  BY <1>2 DEF EngageFrame, PLC!IsEngage, PLC!IsSafetyCoil
<1>4. PlcServesCoil
  BY <1>2, <1>3, Types
     DEF PlcStep, PLC!ServeBlocked, PLC!ServeNormal, PLC!IsBlocked,
         PLC!DropClosed
<1>5. /\ writeLocked' = TRUE /\ locked' = locked
      /\ PLC!Answer(PLC!Echo(unread[serving]))
  BY <1>3, <1>4 DEF PlcServesCoil, PLC!ServeSafetyCoil, PLC!LockAfter
<1>6. ASSUME NEW s \in Signals, InFlight(s)'
      PROVE  FALSE
  <2>1. InFlight(s) /\ s # serving
    BY <1>5, <1>6, <1>t, AnswerTakesOne
  <2>2. s \in Nat /\ signal \in Nat /\ s # signal
    BY <2>1, Types
  <2>3. CASE s > signal
    BY <2>1, <2>3 DEF SignalsSent, InFlight
  <2>4. CASE s < signal
    BY <1>t, <2>1, <2>4 DEF SignalsInOrder, Before, InFlight
  <2> QED
    BY <2>2, <2>3, <2>4
<1> QED
  BY <1>2, <1>5, <1>6 DEF Settled, EngageInFlight, InFlight

\* Once the signal has taken effect, only a release or a death undoes it.
LEMMA SettledStays ==
  ASSUME TypeOK, SignalState, Settled, ~undone', [Next]_vars, ~PrismCrash
  PROVE  Settled'
<1>t. writeLocked /\ locked /\ at = "outside" /\ \A s \in Signals : ~InFlight(s)
  BY DEF Settled, SignalState, EngageInFlight, InFlight
<1>q. ASSUME writeLocked', locked', \A s \in Signals : InFlight(s)' => InFlight(s)
      PROVE  Settled'
  BY <1>q, <1>t DEF Settled, EngageInFlight, InFlight
<1>1. CASE EvaluateAndApply \/ PlcRestart \/ UNCHANGED vars
  <2>1. UNCHANGED <<writeLocked, locked, unread, backlog, serving>>
    BY <1>1 DEF EvaluateAndApply, EE!ApplyReports, EE!ApplySignals,
                PlcRestart, PLC!Restart, vars
  <2> QED
    BY <1>q, <1>t, <2>1, NoSignalMoves
<1>2. ~SignalConnects /\ ~SignalRefused /\ ~SignalWritten /\ ~SignalReset
      /\ ~SignalLost
  BY <1>t DEF SignalConnects, SignalRefused, SignalWritten, SignalReset,
              SignalLost, EE!ConnectSucceeds, EE!SignalFails, EE!WriteSucceeds
<1>3. ASSUME NEW c \in Clients, Client(c)
      PROVE  Settled'
  <2>1. /\ UNCHANGED <<locked, writeLocked>>
        /\ \A s \in Signals : unread'[s] = unread[s]
        /\ UNCHANGED <<backlog, serving>> \/ PLC!Connect(c)
    BY <1>3, Types
       DEF Client, ClientConnects, ClientSends, ClientExits, PLC!Connect,
           PLC!Write, PLC!Forget
  <2>2. c \in Conns
    BY Types
  <2> QED
    BY <1>q, <1>t, <2>1, <2>2, NoSignalMoves
<1>4. CASE PlcServesCoil
  <2> DEFINE f == unread[serving]
  <2>1. /\ serving # None /\ writeLocked' = PLC!LockAfter(f)
        /\ PLC!Answer(PLC!Echo(f)) /\ locked' = locked
        /\ ~PLC!IsRelease(f)
    BY <1>4, <1>t DEF PlcServesCoil, PLC!ServeSafetyCoil, Settled
  <2>2. writeLocked'
    BY <1>t, <2>1 DEF PLC!LockAfter
  <2> QED
    BY <1>q, <1>t, <2>1, <2>2, AnswerTakesOne
<1>5. CASE PlcStep
  <2>1. UNCHANGED <<locked, writeLocked>>
    BY <1>5 DEF PlcStep, PLC!Accept, PLC!ServeBlocked, PLC!ServeNormal,
                PLC!DropClosed
  <2>2. CASE PLC!Accept \/ PLC!DropClosed
    <3>1. UNCHANGED unread
      BY <2>2 DEF PLC!Accept, PLC!DropClosed
    <3> QED
      BY <1>q, <1>t, <2>1, <2>2, <3>1, NoSignalMoves
  <2>3. CASE PLC!ServeBlocked \/ PLC!ServeNormal
    <3>1. PICK response : PLC!Answer(response) /\ serving # None
      BY <2>3 DEF PLC!ServeBlocked, PLC!ServeNormal
    <3> QED
      BY <1>q, <1>t, <2>1, <3>1, AnswerTakesOne
  <2> QED
    BY <1>5, <2>2, <2>3 DEF PlcStep
<1>6. ~PlcCrash
  BY <1>t DEF PlcCrash
<1> QED
  BY <1>1, <1>2, <1>3, <1>4, <1>5, <1>6 DEF Next, Prism, Plc

\* While the signal waits, it and those behind it stay; when it is served, the
\* lock is engaged.
LEMMA AheadStays ==
  ASSUME TypeOK, SignalState, SignalsSent, NewAreAway, SignalsInOrder,
         LockHolds, Ahead, ~undone', [Next]_vars, ~PrismCrash, ~PlcCrash
  PROVE  \/ Settled'
         \/ /\ Ahead' /\ signal' = signal
            /\ \A c \in Clients : Before(signal, c) => Before(signal, c)'
<1>t. /\ signal \in Signals /\ signal \in Conns /\ signal # None
      /\ PLC!Connected(signal)
      /\ backlog \in Seq(Conns) /\ Clients \subseteq Conns
      /\ signal \notin Clients
  BY AheadIsSignal, Types DEF Ahead
\* Steps that leave the queue alone.
<1>q. ASSUME UNCHANGED <<backlog, serving, signal>>, Ahead'
      PROVE  /\ Ahead' /\ signal' = signal
             /\ \A c \in Clients : Before(signal, c) => Before(signal, c)'
  BY <1>q DEF Before
\* Steps that leave what makes the signal wait alone.
<1>a. ASSUME UNCHANGED <<signal, locked, at>>, unread'[signal] = unread[signal],
             PLC!Connected(signal)'
      PROVE  Ahead'
  BY <1>a DEF Ahead
<1>1. CASE EvaluateAndApply
  <2>1. /\ UNCHANGED <<plcVars, signal, locked>> /\ at = "outside"
    BY <1>1 DEF EvaluateAndApply, EE!ApplyReports, EE!ApplySignals
  <2>2. PLC!Connected(signal)'
    BY <1>t, <2>1 DEF PLC!Connected
  <2> QED
    BY <1>q, <2>1, <2>2 DEF Ahead
<1>2. CASE SignalWritten
  <2>1. /\ at = "write" /\ locked' = TRUE
        /\ unread' = [unread EXCEPT ![signal] = EngageFrame]
        /\ UNCHANGED <<backlog, serving, signal>>
    BY <1>2 DEF SignalWritten, EE!WriteSucceeds, PLC!WriteAndClose
  <2>2. unread'[signal] = EngageFrame
    BY <1>t, <2>1, Types
  <2>3. PLC!Connected(signal)'
    BY <1>t, <2>1 DEF PLC!Connected
  <2> QED
    BY <1>q, <2>1, <2>2, <2>3 DEF Ahead
<1>3. ~SignalConnects /\ ~SignalRefused
  BY DEF SignalConnects, SignalRefused, EE!ConnectSucceeds, EE!SignalFails,
         SignalState, Ahead
<1>4. ~SignalReset /\ ~SignalLost
  BY <1>t DEF SignalReset, SignalLost
<1>5. ASSUME NEW c \in Clients, NEW f \in Requests, ClientConnects(c, f)
      PROVE  /\ Ahead' /\ signal' = signal
             /\ \A d \in Clients : Before(signal, d) => Before(signal, d)'
  <2>1. /\ UNCHANGED <<signal, locked, at, unread>> /\ PLC!Connect(c)
        /\ c \in Conns
    BY <1>5, Types DEF ClientConnects, PLC!Connect
  <2>2. PLC!Connected(signal)'
    BY <1>t, <2>1, ConnectKeepsConnected
  <2>3. Ahead'
    BY <1>a, <2>1, <2>2
  <2>4. ASSUME NEW d \in Clients, Before(signal, d)
        PROVE  Before(signal, d)'
    <3>1. ~PLC!Connected(c)
      BY <1>5 DEF ClientConnects, NewAreAway
    <3> QED
      BY <1>t, <2>1, <2>4, <3>1, ConnectKeepsOrder
  <2> QED
    BY <2>1, <2>3, <2>4
<1>6. ASSUME NEW c \in Clients, ClientSends(c) \/ ClientExits(c)
      PROVE  /\ Ahead' /\ signal' = signal
             /\ \A d \in Clients : Before(signal, d) => Before(signal, d)'
  <2>1. /\ UNCHANGED <<signal, locked, at, backlog, serving>>
        /\ unread'[signal] = unread[signal]
    BY <1>6, <1>t, Types DEF ClientSends, ClientExits, PLC!Write, PLC!Forget
  <2>2. PLC!Connected(signal)'
    BY <1>t, <2>1 DEF PLC!Connected
  <2> QED
    BY <1>a, <1>q, <2>1, <2>2
<1>7. CASE PlcStep /\ PLC!Accept
  <2>1. UNCHANGED <<signal, locked, at, unread>>
    BY <1>7 DEF PlcStep, PLC!Accept
  <2>2. PLC!Connected(signal)'
    <3>1. PICK s \in Conns : s = signal
      BY <1>t
    <3>2. PLC!Connected(s)
      BY <1>t, <3>1
    <3>3. PLC!Connected(s)'
      BY <1>t, <1>7, <3>2, AcceptKeepsConnected
    <3> QED
      BY <2>1, <3>1, <3>3 DEF PLC!Connected
  <2>3. Ahead'
    BY <1>a, <2>1, <2>2
  <2> QED
    BY <1>t, <1>7, <2>1, <2>3, AcceptKeepsOrder
<1>8. CASE ((PlcStep /\ ~PLC!Accept) \/ PlcServesCoil) /\ serving = signal
  BY <1>8, SignalServed
<1>9. CASE ((PlcStep /\ ~PLC!Accept) \/ PlcServesCoil) /\ serving # signal
  <2>1. UNCHANGED <<signal, locked, at>> /\ Closes
    BY <1>9 DEF PlcStep, PlcServesCoil, PLC!ServeSafetyCoil, PLC!ServeBlocked,
                PLC!ServeNormal, PLC!DropClosed, PLC!Answer, Closes
  <2>2. unread'[signal] = unread[signal]
    BY <1>9, <1>t, Types
       DEF PlcStep, PlcServesCoil, PLC!ServeSafetyCoil, PLC!ServeBlocked,
           PLC!ServeNormal, PLC!DropClosed, PLC!Answer
  <2>3. PLC!Connected(signal)'
    <3>1. PICK i \in DOMAIN backlog : backlog[i] = signal
      BY <1>9, <1>t DEF PLC!Connected
    <3>2. i \in DOMAIN backlog' /\ backlog'[i] = signal'
      BY <2>1, <3>1 DEF Closes
    <3> QED
      BY <3>2 DEF PLC!Connected
  <2>4. Ahead'
    BY <1>a, <2>1, <2>2, <2>3
  <2> QED
    BY <1>9, <1>t, <2>1, <2>4, CloseKeepsOrder
<1>10. CASE PlcRestart \/ UNCHANGED vars
  <2>1. UNCHANGED <<signal, locked, at, unread, backlog, serving>>
    BY <1>10 DEF PlcRestart, PLC!Restart, vars
  <2>2. PLC!Connected(signal)'
    BY <1>t, <2>1 DEF PLC!Connected
  <2> QED
    BY <1>a, <1>q, <2>1, <2>2
<1> QED
  BY <1>1, <1>2, <1>3, <1>4, <1>5, <1>6, <1>7, <1>8, <1>9, <1>10
     DEF Next, Prism, Client, Plc

LEMMA NextLockHolds ==
  /\ TypeOK /\ SignalState /\ SignalsSent /\ NewAreAway /\ SignalsInOrder
  /\ LockHolds /\ [Next]_vars
  => LockHolds'
<1> SUFFICES ASSUME TypeOK, SignalState, SignalsSent, NewAreAway,
                    SignalsInOrder, LockHolds, [Next]_vars
             PROVE  LockHolds'
  OBVIOUS
<1>1. CASE PrismCrash
  BY <1>1 DEF PrismCrash, LockHolds
<1>2. CASE SignalWritten \/ SignalLost
  <2>1. /\ at = "write" /\ locked' = TRUE /\ signal' = signal /\ signal # 0
    BY <1>2 DEF SignalWritten, SignalLost, EE!WriteSucceeds, TypeOK
  <2>2. SignalLost => undone'
    BY DEF SignalLost
  <2>3. SignalWritten => Ahead
    BY <2>1 DEF SignalWritten, PLC!WriteAndClose, Ahead
  <2>4. ~undone' => Ahead' \/ Settled'
    BY <1>2, <2>2, <2>3, AheadStays
       DEF PlcCrash, PLC!Crash, PrismCrash, SignalWritten, PLC!WriteAndClose,
           EE!WriteSucceeds
  <2> QED
    BY <2>1, <2>4 DEF LockHolds
<1>3. CASE SignalConnects
  <2>1. locked' = locked /\ ~locked
    BY <1>3 DEF SignalConnects, EE!ConnectSucceeds, SignalState
  <2> QED
    BY <2>1 DEF LockHolds
<1>4. CASE ~PrismCrash /\ ~SignalWritten /\ ~SignalLost /\ ~SignalConnects
  <2>1. UNCHANGED <<locked, signal>>
    BY <1>4
       DEF Next, Prism, Client, Plc, EvaluateAndApply, EE!ApplyReports,
           EE!ApplySignals, SignalRefused, SignalReset, EE!SignalFails,
           ClientConnects, ClientSends, ClientExits, PlcServesCoil, PlcStep,
           PlcCrash, PlcRestart, vars
  <2>2. ASSUME locked, ~undone'
        PROVE  Ahead' \/ Settled'
    <3>1. ~PlcCrash
      BY <2>2 DEF PlcCrash
    <3>2. ~undone
      BY <1>4, <2>2
         DEF Next, Prism, Client, Plc, EvaluateAndApply, SignalRefused,
             SignalReset, ClientConnects, ClientSends, ClientExits,
             PlcServesCoil, PlcStep, PlcCrash, PlcRestart, vars
    <3> QED
      BY <1>4, <2>2, <3>1, <3>2, AheadStays, SettledStays DEF LockHolds
  <2> QED
    BY <2>1, <2>2 DEF LockHolds
<1> QED
  BY <1>1, <1>2, <1>3, <1>4

\* Who is late: nobody becomes so but a client that connects behind the signal.
LEMMA NextLateWait ==
  /\ TypeOK /\ SignalState /\ SignalsSent /\ QueuedOnce /\ NewAreAway
  /\ SignalsInOrder /\ LockHolds /\ LateWait /\ [Next]_vars
  => LateWait'
<1> SUFFICES ASSUME TypeOK, SignalState, SignalsSent, QueuedOnce, NewAreAway,
                    SignalsInOrder, LockHolds, LateWait, [Next]_vars,
                    ~undone', NEW c \in late', PLC!Connected(c)'
             PROVE  /\ reply'[c] = None
                    /\ (Ahead /\ Before(signal, c))' \/ Settled'
  BY DEF LateWait
<1>0. ~PrismCrash
  BY DEF PrismCrash
<1>1. ~PlcCrash
  <2>1. c \in Conns
    BY NextTypeOK, Types DEF TypeOK, PLC!PlcTypeOK, Conns
  <2> QED
    BY <2>1, ClientsAssumption DEF PlcCrash, PLC!Crash, PLC!Connected
<1>2. ~undone
  BY <1>0
     DEF Next, Prism, Client, Plc, EvaluateAndApply, SignalConnects,
         SignalRefused, SignalWritten, SignalReset, SignalLost, ClientConnects,
         ClientSends, ClientExits, PlcServesCoil, PlcStep, PlcCrash, PlcRestart,
         vars
<1>t. /\ c \in Clients /\ c \in Conns /\ c # None /\ c \notin Signals
      /\ backlog \in Seq(Conns)
  <2>1. late' \subseteq Clients
    BY NextTypeOK DEF TypeOK
  <2> QED
    BY <2>1, Types
\* From a cover before the step to one after it.
<1>q. ASSUME reply'[c] = None,
             (Ahead /\ Before(signal, c)) \/ Settled
      PROVE  /\ reply'[c] = None
             /\ (Ahead /\ Before(signal, c))' \/ Settled'
  <2>1. CASE Settled
    BY <1>0, <1>q, <2>1, SettledStays
  <2>2. CASE Ahead /\ Before(signal, c)
    <3>1. \/ Settled'
          \/ /\ Ahead' /\ signal' = signal
             /\ Before(signal, c)'
      BY <1>0, <1>1, <1>t, <2>2, AheadStays
    <3> QED
      BY <1>q, <3>1
  <2> QED
    BY <1>q, <2>1, <2>2
<1>3. ASSUME NEW f \in Requests, ClientConnects(c, f)
      PROVE  /\ reply'[c] = None
             /\ (Ahead /\ Before(signal, c))' \/ Settled'
  <2>1. /\ ~PLC!Connected(c) /\ reply[c] = None /\ c \notin late
        /\ reply' = reply
        /\ c \in late' => SignalAhead
    BY <1>3, <1>t DEF ClientConnects, PLC!Connect, NewAreAway
  <2>2. Before(signal, c)
    BY <2>1 DEF Before, PLC!Connected
  <2>3. Ahead \/ Settled
    BY <1>2, <2>1 DEF SignalAhead, LockHolds, Ahead
  <2> QED
    BY <1>q, <2>1, <2>2, <2>3
<1>4. CASE ~(\E f \in Requests : ClientConnects(c, f))
  <2>1. c \in late
    BY <1>4, <1>t
       DEF Next, Prism, Client, Plc, EvaluateAndApply, SignalConnects,
           SignalRefused, SignalWritten, SignalReset, SignalLost, PrismCrash,
           ClientConnects, ClientSends, ClientExits, PlcServesCoil, PlcStep,
           PlcCrash, PlcRestart, vars
  <2>2. PLC!Connected(c)
    <3>1. ~Joins(c)
      BY <1>t, <2>1 DEF Joins, NewAreAway
    <3>2. CASE \E d \in Conns : Joins(d)
      <4>1. \E d \in Conns : d # c /\ PLC!Connect(d)
        BY <3>1, <3>2 DEF Joins
      <4> QED
        BY <1>t, <4>1, OnlyConnectAdds
    <3>3. CASE Closes
      BY <1>t, <3>3 DEF Closes, PLC!Connected
    <3>4. CASE PLC!Accept \/ UNCHANGED <<backlog, serving>>
      BY <1>t, <3>4, OnlyConnectAdds
    <3>5. CASE backlog' = <<>> /\ serving' = None
      BY <1>t, <3>5 DEF PLC!Connected
    <3> QED
      BY <3>2, <3>3, <3>4, <3>5, NextMoves DEF Moves
  <2>3. reply[c] = None /\ ((Ahead /\ Before(signal, c)) \/ Settled)
    BY <1>2, <2>1, <2>2 DEF LateWait
  <2>4. Closes => c # serving
    BY <1>t DEF Closes, QueuedOnce, PLC!Connected
  <2>5. reply'[c] = None
    <3>1. CASE PlcServesCoil \/ PlcStep
      BY <1>t, <2>3, <2>4, <3>1, Types
         DEF PlcServesCoil, PlcStep, PLC!Accept, PLC!ServeSafetyCoil,
             PLC!ServeBlocked, PLC!ServeNormal, PLC!DropClosed, PLC!Answer,
             Closes
    <3>2. ASSUME NEW d \in Clients, Client(d)
          PROVE  reply'[c] = None
      BY <1>t, <2>3, <3>2, Types
         DEF Client, ClientConnects, ClientSends, ClientExits, PLC!Connect,
             PLC!Write, PLC!Forget
    <3>3. CASE Prism \/ PlcCrash \/ PlcRestart \/ UNCHANGED vars
      <4>1. reply' = reply
        BY <3>3
           DEF Prism, EvaluateAndApply, SignalConnects, SignalRefused,
               SignalWritten, SignalReset, SignalLost, PrismCrash, PlcCrash,
               PlcRestart, PLC!Connect, PLC!WriteAndClose, PLC!Close,
               PLC!Crash, PLC!Restart, vars
      <4> QED
        BY <2>3, <4>1
    <3> QED
      BY <3>1, <3>2, <3>3 DEF Next, Plc
  <2> QED
    BY <1>q, <2>3, <2>5
<1> QED
  BY <1>3, <1>4

\* The answer a late client gets when its turn comes is no echo of a write.
LEMMA NextLateWritesBlocked ==
  /\ TypeOK /\ SignalState /\ SignalsSent /\ QueuedOnce /\ NewAreAway
  /\ LateWait /\ LateWritesBlocked /\ [Next]_vars
  => LateWritesBlocked'
<1> SUFFICES ASSUME TypeOK, QueuedOnce, NewAreAway, LateWait,
                    LateWritesBlocked, [Next]_vars, ~undone',
                    NEW c \in late', request'[c] # None,
                    PLC!IsWriteFc(request'[c]), ~PLC!IsSafetyCoil(request'[c]),
                    reply'[c] = PLC!Echo(request'[c])
             PROVE  FALSE
  BY DEF LateWritesBlocked
<1>0. ~PrismCrash
  BY DEF PrismCrash
<1>1. ~undone
  BY <1>0
     DEF Next, Prism, Client, Plc, EvaluateAndApply, SignalConnects,
         SignalRefused, SignalWritten, SignalReset, SignalLost, ClientConnects,
         ClientSends, ClientExits, PlcServesCoil, PlcStep, PlcCrash, PlcRestart,
         vars
<1>t. c \in Clients /\ c \in Conns
  <2>1. late' \subseteq Clients
    BY NextTypeOK DEF TypeOK
  <2> QED
    BY <2>1, Types
<1>2. \A f, g : /\ PLC!Echo(f) # PLC!Exception(g)
                /\ PLC!Echo(f) = PLC!Echo(g) => f = g
  <2> SUFFICES ASSUME NEW f, NEW g
               PROVE  /\ PLC!Echo(f) # PLC!Exception(g)
                      /\ PLC!Echo(f) = PLC!Echo(g) => f = g
    OBVIOUS
  <2>1. /\ PLC!Echo(f).kind = "echo" /\ PLC!Exception(g).kind = "exception"
        /\ PLC!Echo(f).frame = f /\ PLC!Echo(g).frame = g
    BY DEF PLC!Echo, PLC!Exception
  <2> QED
    BY <2>1
\* An echo that was there before is excluded by the invariant.
<1>3. ASSUME reply'[c] = reply[c], request'[c] = request[c], c \in late
      PROVE  FALSE
  BY <1>1, <1>3 DEF LateWritesBlocked
\* What c is served by: the safety coil, or a request under the lock.
<1>4. ASSUME PlcServesCoil \/ PlcStep, serving = c
      PROVE  writeLocked \/ PLC!Accept
  <2>1. c \in late /\ PLC!Connected(c)
    BY <1>4 DEF PlcServesCoil, PlcStep, PLC!Connected
  <2>2. (Ahead /\ Before(signal, c)) \/ Settled
    BY <1>1, <2>1 DEF LateWait
  <2> QED
    BY <1>4, <2>2 DEF Before, Settled
<1>5. CASE PlcServesCoil
  <2>1. /\ reply' = [reply EXCEPT ![serving] = PLC!Echo(unread[serving])]
        /\ PLC!IsSafetyCoil(unread[serving])
        /\ UNCHANGED <<request, late>>
    BY <1>5 DEF PlcServesCoil, PLC!ServeSafetyCoil, PLC!Answer
  <2>2. CASE serving = c
    <3>1. reply'[c] = PLC!Echo(unread[serving])
      BY <1>t, <2>1, <2>2, Types
    <3> QED
      BY <1>2, <2>1, <3>1
  <2>3. CASE serving # c
    BY <1>3, <1>t, <2>1, <2>3, Types
  <2> QED
    BY <2>2, <2>3
<1>6. CASE PlcStep
  <2>1. UNCHANGED <<request, late>>
    BY <1>6 DEF PlcStep
  <2>2. CASE PLC!Accept \/ PLC!DropClosed
    BY <1>3, <2>1, <2>2 DEF PLC!Accept, PLC!DropClosed
  <2>3. CASE serving # c /\ (PLC!ServeBlocked \/ PLC!ServeNormal)
    BY <1>3, <1>t, <2>1, <2>3, Types
       DEF PLC!ServeBlocked, PLC!ServeNormal, PLC!Answer
  <2>4. CASE serving = c /\ PLC!ServeBlocked
    <3>1. reply'[c] = PLC!Exception(unread[serving])
      BY <1>t, <2>4, Types DEF PLC!ServeBlocked, PLC!Answer
    <3> QED
      BY <1>2, <3>1
  <2>5. CASE serving = c /\ PLC!ServeNormal
    <3>1. /\ reply'[c] = PLC!Echo(unread[serving])
          /\ ~PLC!IsBlocked(unread[serving])
      BY <1>t, <2>5, Types DEF PLC!ServeNormal, PLC!Answer
    <3>2. unread[serving] = request'[c]
      BY <1>2, <3>1
    <3>3. writeLocked
      BY <1>4, <1>6, <1>t, <2>5, Types DEF PLC!ServeNormal, PLC!Accept
    <3> QED
      BY <3>1, <3>2, <3>3 DEF PLC!IsBlocked
  <2> QED
    BY <1>6, <2>2, <2>3, <2>4, <2>5 DEF PlcStep
<1>7. ASSUME NEW d \in Clients, Client(d)
      PROVE  FALSE
  <2>1. CASE d # c
    <3>1. reply'[c] = reply[c]
      BY <1>7, <1>t, <2>1, Types
         DEF Client, ClientConnects, ClientSends, ClientExits, PLC!Connect,
             PLC!Write, PLC!Forget
    <3>2. request'[c] = request[c]
      BY <1>7, <1>t, <2>1
         DEF Client, ClientConnects, ClientSends, ClientExits, TypeOK
    <3>3. c \in late
      BY <1>7, <2>1 DEF Client, ClientConnects, ClientSends, ClientExits
    <3> QED
      BY <1>3, <3>1, <3>2, <3>3
  <2>2. CASE d = c /\ \E f \in Requests : ClientConnects(c, f)
    <3>1. reply'[c] = None /\ request'[c] \in Requests
      BY <1>t, <2>2, NextTypeOK
         DEF ClientConnects, PLC!Connect, NewAreAway, TypeOK
    <3>2. PLC!Echo(request'[c]) \in PLC!Replies
      BY <3>1, FramesAreTyped, RequestsAssumption
    <3> QED
      BY <3>1, <3>2, RequestsAssumption
  <2>3. CASE d = c /\ ClientSends(c)
    BY <1>3, <2>3 DEF ClientSends, PLC!Write
  <2>4. CASE d = c /\ ClientExits(c)
    BY <2>4 DEF ClientExits
  <2> QED
    BY <1>7, <2>1, <2>2, <2>3, <2>4 DEF Client
<1>8. CASE Prism \/ PlcCrash \/ PlcRestart \/ UNCHANGED vars
  <2>1. UNCHANGED <<reply, request, late>>
    BY <1>0, <1>8
       DEF Prism, EvaluateAndApply, SignalConnects, SignalRefused,
           SignalWritten, SignalReset, SignalLost, PlcCrash, PlcRestart,
           PLC!Connect, PLC!WriteAndClose, PLC!Close, PLC!Crash, PLC!Restart,
           vars
  <2> QED
    BY <1>3, <2>1
<1> QED
  BY <1>5, <1>6, <1>7, <1>8 DEF Next, Plc

-----------------------------------------------------------------------------

LEMMA InitQInv == Init => QInv
<1> SUFFICES ASSUME Init PROVE QInv
  OBVIOUS
<1>1. /\ backlog = <<>> /\ serving = None /\ late = {} /\ locked = FALSE
      /\ reply = [c \in Conns |-> None] /\ Clients \subseteq Conns
  BY DEF Init, PLC!PlcInit, EE!EnforcerInit, Conns
<1>2. TypeOK /\ SignalState /\ SignalsSent
  BY InitTypeOK, InitImplementsWriteLock
<1>3. \A c \in Conns : ~PLC!Connected(c)
  BY <1>1, ClientsAssumption DEF PLC!Connected
<1>4. QueuedOnce /\ NewAreAway
  BY <1>1, <1>3 DEF QueuedOnce, NewAreAway
<1>5. SignalsInOrder
  BY <1>2, <1>3, Types DEF SignalsInOrder
<1>6. LockHolds /\ LateWait /\ LateWritesBlocked
  BY <1>1 DEF LockHolds, LateWait, LateWritesBlocked
<1> QED
  BY <1>2, <1>4, <1>5, <1>6 DEF QInv

\* The PLC's queue (server.cpp:35-78) orders PRISM's signal and the clients
\* behind it so that, through every crash, no client that connects after the
\* signal gets a write through before the lock is released or lost.
THEOREM LateWritesAreBlocked == Spec => []LateWritesBlocked
<1>1. QInv /\ [Next]_vars => QInv'
  BY NextMoves, NextTypeOK, NextSignalState, NextSignalsSent, NextQueuedOnce,
     NextNewAreAway, NextSignalsInOrder, NextLockHolds, NextLateWait,
     NextLateWritesBlocked
     DEF QInv
<1>2. QInv => LateWritesBlocked
  BY DEF QInv
<1> QED
  BY InitQInv, <1>1, <1>2, PTL DEF Spec
=============================================================================
