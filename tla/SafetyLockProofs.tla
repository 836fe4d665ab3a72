--------------------------- MODULE SafetyLockProofs ---------------------------
(***************************************************************************)
(* SafetyLock, for every set of clients and requests, every set of         *)
(* probabilities, every backlog and every number of crashes: typing, the   *)
(* agreement of PRISM's flag with the PLC's lock, one signal per life of   *)
(* PRISM, and the safety coil that is never blocked.                       *)
(***************************************************************************)
EXTENDS SafetyLock, TLAPS

USE DEF plcVars, enforcerVars, clientVars, historyVars, prismVars

\* A connection the PLC knows stays known while its thread takes one to serve.
LEMMA AcceptKeepsConnected ==
  ASSUME NEW c \in Conns, backlog \in Seq(Conns), PLC!Accept, PLC!Connected(c)
  PROVE  PLC!Connected(c)'
<1>1. /\ backlog # <<>> /\ serving = None
      /\ serving' = Head(backlog) /\ backlog' = Tail(backlog)
  BY DEF PLC!Accept
<1>2. PICK i \in DOMAIN backlog : backlog[i] = c
  BY <1>1, ClientsAssumption DEF PLC!Connected
<1>3. i \in 1..Len(backlog) /\ Len(backlog) \in Nat
  BY <1>2
<1>4. CASE i = 1
  BY <1>1, <1>2, <1>4 DEF PLC!Connected
<1>5. CASE i # 1
  <2>1. i - 1 \in 1..Len(backlog')
    BY <1>1, <1>3, <1>5
  <2>2. backlog'[i - 1] = c
    BY <1>1, <1>2, <1>3, <1>5
  <2> QED
    BY <1>1, <2>1, <2>2 DEF PLC!Connected
<1> QED
  BY <1>4, <1>5

\* It stays known when another connection joins the queue.
LEMMA ConnectKeepsConnected ==
  ASSUME NEW c \in Conns, NEW new \in Conns, backlog \in Seq(Conns),
         PLC!Connect(new), PLC!Connected(c)
  PROVE  PLC!Connected(c)'
<1>1. backlog' = Append(backlog, new) /\ serving' = serving
  BY DEF PLC!Connect
<1>2. CASE c = serving
  BY <1>1, <1>2 DEF PLC!Connected
<1>3. CASE c # serving
  <2>1. PICK i \in DOMAIN backlog : backlog[i] = c
    BY <1>3 DEF PLC!Connected
  <2>2. i \in 1..Len(backlog) /\ Len(backlog) \in Nat
    BY <2>1
  <2>3. i \in 1..Len(backlog') /\ backlog'[i] = c
    BY <1>1, <2>1, <2>2
  <2> QED
    BY <1>1, <2>3 DEF PLC!Connected
<1> QED
  BY <1>2, <1>3

-----------------------------------------------------------------------------
(***************************************************************************)
(* Typing                                                                  *)
(***************************************************************************)

LEMMA EngageIsFrame == EngageFrame \in PLC!Frames
<1>1. 5 \in 0..255 /\ 65535 \in 0..65535 /\ 65280 \in 0..65535
  OBVIOUS
<1> QED
  BY <1>1 DEF EngageFrame, PLC!Frames

LEMMA FramesAreTyped ==
  ASSUME NEW f \in PLC!Frames
  PROVE  PLC!Echo(f) \in PLC!Replies /\ PLC!Exception(f) \in PLC!Replies
BY DEF PLC!Echo, PLC!Exception, PLC!Replies

LEMMA InitTypeOK == Init => TypeOK
<1> SUFFICES ASSUME Init PROVE TypeOK
  OBVIOUS
<1>1. EE!EnforcerTypeOK
  BY DEF Init, EE!EnforcerInit, EE!EnforcerTypeOK, EE!Places, EE!Reports
<1>2. PLC!PlcTypeOK
  <2>1. backlog \in Seq(Conns) /\ serving \in Conns \cup {None}
    BY DEF Init, PLC!PlcInit
  <2>2. unread \in [Conns -> PLC!Frames \cup {None}]
    BY DEF Init, PLC!PlcInit
  <2>3. reply \in [Conns -> PLC!Replies \cup {None}]
    BY DEF Init, PLC!PlcInit
  <2> QED
    BY <2>1, <2>2, <2>3 DEF Init, PLC!PlcInit, PLC!PlcTypeOK
<1>3. /\ client \in [Clients -> {"new", "connected", "waiting"}]
      /\ request \in [Clients -> Requests \cup {None}]
  BY DEF Init
<1>4. crashes \in 0..MaxCrashes /\ at # "write"
  BY BoundsAssumption DEF Init, EE!EnforcerInit
<1> QED
  BY <1>1, <1>2, <1>3, <1>4 DEF Init, TypeOK

\* The PLC's thread keeps the PLC's types.
LEMMA PlcThreadTypeOK ==
  ASSUME PLC!PlcTypeOK,
         \/ PLC!Accept \/ PLC!ServeSafetyCoil \/ PLC!ServeBlocked
         \/ PLC!ServeNormal \/ PLC!DropClosed
  PROVE  PLC!PlcTypeOK'
<1> USE DEF PLC!PlcTypeOK
<1>1. CASE PLC!Accept
  <2>1. serving' \in Conns /\ backlog' \in Seq(Conns)
    BY <1>1 DEF PLC!Accept
  <2> QED
    BY <1>1, <2>1 DEF PLC!Accept
<1>2. ASSUME NEW response \in PLC!Replies, PLC!Answer(response),
             serving # None, writeLocked' \in BOOLEAN
      PROVE  PLC!PlcTypeOK'
  BY <1>2 DEF PLC!Answer
<1>3. serving # None /\ unread[serving] # None =>
        /\ PLC!Echo(unread[serving]) \in PLC!Replies
        /\ PLC!Exception(unread[serving]) \in PLC!Replies
  BY FramesAreTyped
<1>4. CASE PLC!ServeSafetyCoil
  <2>1. writeLocked' \in BOOLEAN
    BY <1>4 DEF PLC!ServeSafetyCoil, PLC!LockAfter, PLC!IsEngage,
                PLC!IsSafetyCoil, PLC!IsRelease
  <2> QED
    BY <1>2, <1>3, <1>4, <2>1 DEF PLC!ServeSafetyCoil
<1>5. CASE PLC!ServeBlocked
  BY <1>2, <1>3, <1>5 DEF PLC!ServeBlocked
<1>6. CASE PLC!ServeNormal
  BY <1>2, <1>3, <1>6 DEF PLC!ServeNormal
<1>7. CASE PLC!DropClosed
  BY <1>7 DEF PLC!DropClosed
<1> QED
  BY <1>1, <1>4, <1>5, <1>6, <1>7

\* A new connection keeps the PLC's types.
LEMMA ConnectTypeOK ==
  ASSUME PLC!PlcTypeOK, NEW c \in Conns, PLC!Connect(c)
  PROVE  PLC!PlcTypeOK'
<1>1. backlog' \in Seq(Conns)
  BY DEF PLC!PlcTypeOK, PLC!Connect
<1> QED
  BY <1>1 DEF PLC!PlcTypeOK, PLC!Connect

LEMMA NextTypeOK == TypeOK /\ [Next]_vars => TypeOK'
<1> SUFFICES ASSUME TypeOK, [Next]_vars PROVE TypeOK'
  OBVIOUS
<1> USE DEF TypeOK
<1>1. CASE EvaluateAndApply
  <2>1. PICK pHst \in Probabilities, pBurst \in Probabilities,
             d \in Risk!Decisions :
               /\ Risk!Evaluate(pHst, pBurst, d)
               /\ EE!ApplyReports(d) \/ EE!ApplySignals(d)
    BY <1>1 DEF EvaluateAndApply
  <2>2. isOn' \in BOOLEAN
    BY <2>1 DEF Risk!Evaluate, Risk!NextOn
  <2>3. EE!EnforcerTypeOK' /\ (at' = "write" => at = "write")
    BY <2>1 DEF EE!ApplyReports, EE!ApplySignals, EE!EnforcerTypeOK,
                EE!Places, EE!Reports, EE!ReportFor, Risk!Decisions
  <2> QED
    BY <1>1, <2>2, <2>3 DEF EvaluateAndApply, PLC!PlcTypeOK
<1>2. CASE SignalConnects
  <2>1. signal + 1 \in Conns
    BY <1>2 DEF SignalConnects, Conns
  <2>2. PLC!PlcTypeOK'
    BY <1>2, <2>1, ConnectTypeOK DEF SignalConnects
  <2>3. signal' \in Signals /\ signal' # 0
    BY <1>2 DEF SignalConnects, Signals
  <2> QED
    BY <1>2, <2>2, <2>3 DEF SignalConnects, EE!ConnectSucceeds,
                            EE!EnforcerTypeOK, EE!Places
<1>3. CASE SignalRefused
  BY <1>3 DEF SignalRefused, EE!SignalFails, EE!EnforcerTypeOK, EE!Places,
              EE!Reports, PLC!PlcTypeOK
<1>4. CASE SignalWritten
  <2>1. PLC!PlcTypeOK'
    <3>1. signal \in Conns
      BY <1>4 DEF SignalWritten, EE!WriteSucceeds, Conns
    <3> QED
      BY <1>4, <3>1, EngageIsFrame
         DEF SignalWritten, PLC!WriteAndClose, PLC!PlcTypeOK
  <2>2. EE!EnforcerTypeOK' /\ at' # "write"
    BY <1>4 DEF SignalWritten, EE!WriteSucceeds, EE!EnforcerTypeOK, EE!Places,
                EE!Reports
  <2> QED
    BY <1>4, <2>1, <2>2 DEF SignalWritten
<1>5. CASE SignalReset
  BY <1>5 DEF SignalReset, EE!SignalFails, EE!EnforcerTypeOK, EE!Places,
              EE!Reports, PLC!PlcTypeOK
<1>5a. CASE SignalLost
  <2>1. EE!EnforcerTypeOK' /\ at' # "write"
    BY <1>5a DEF SignalLost, EE!WriteSucceeds, EE!EnforcerTypeOK, EE!Places,
                 EE!Reports
  <2>2. undone' \in BOOLEAN /\ engagements' \in Nat
    BY <1>5a DEF SignalLost
  <2> QED
    BY <1>5a, <2>1, <2>2 DEF SignalLost, PLC!PlcTypeOK
<1>6. CASE PrismCrash
  <2>1. PLC!PlcTypeOK'
    <3>1. CASE at = "write"
      <4>1. signal \in Conns
        BY <3>1 DEF Conns
      <4> QED
        BY <1>6, <3>1, <4>1 DEF PrismCrash, PLC!Close, PLC!PlcTypeOK
    <3>2. CASE at # "write"
      BY <1>6, <3>2 DEF PrismCrash, PLC!PlcTypeOK
    <3> QED BY <3>1, <3>2
  <2>2. EE!EnforcerTypeOK' /\ at' # "write"
    BY <1>6 DEF PrismCrash, EE!EnforcerTypeOK, EE!Places, EE!Reports
  <2>3. crashes' \in 0..MaxCrashes
    BY <1>6, BoundsAssumption DEF PrismCrash
  <2> QED
    BY <1>6, <2>1, <2>2, <2>3 DEF PrismCrash
<1>7. ASSUME NEW c \in Clients, Client(c)
      PROVE  TypeOK'
  <2>1. c \in Conns
    BY DEF Conns
  <2>2. CASE \E f \in Requests : ClientConnects(c, f)
    <3>1. PLC!PlcTypeOK'
      BY <2>1, <2>2, ConnectTypeOK DEF ClientConnects
    <3> QED
      BY <2>2, <3>1 DEF ClientConnects, EE!EnforcerTypeOK
  <2>3. CASE ClientSends(c)
    <3>1. request[c] \in PLC!Frames \cup {None}
      BY RequestsAssumption
    <3>2. PLC!PlcTypeOK'
      BY <2>1, <2>3, <3>1 DEF ClientSends, PLC!Write, PLC!PlcTypeOK
    <3> QED
      BY <2>3, <3>2 DEF ClientSends, EE!EnforcerTypeOK
  <2>4. CASE ClientExits(c)
    <3>1. PLC!PlcTypeOK'
      BY <2>1, <2>4 DEF ClientExits, PLC!Forget, PLC!PlcTypeOK
    <3> QED
      BY <2>4, <3>1 DEF ClientExits, EE!EnforcerTypeOK
  <2> QED
    BY <1>7, <2>2, <2>3, <2>4 DEF Client
<1>8. CASE PlcServesCoil
  <2>1. PLC!PlcTypeOK'
    BY <1>8, PlcThreadTypeOK DEF PlcServesCoil
  <2>2. undone' \in BOOLEAN
    BY <1>8 DEF PlcServesCoil
  <2> QED
    BY <1>8, <2>1, <2>2 DEF PlcServesCoil, EE!EnforcerTypeOK
<1>9. CASE PlcStep
  <2>1. PLC!PlcTypeOK'
    BY <1>9, PlcThreadTypeOK DEF PlcStep
  <2> QED
    BY <1>9, <2>1 DEF PlcStep, EE!EnforcerTypeOK
<1>10. CASE PlcCrash
  <2>1. PLC!PlcTypeOK'
    <3>1. backlog' \in Seq(Conns) /\ unread' \in [Conns -> PLC!Frames \cup {None}]
      BY <1>10 DEF PlcCrash, PLC!Crash
    <3> QED
      BY <1>10, <3>1 DEF PlcCrash, PLC!Crash, PLC!PlcTypeOK
  <2>2. crashes' \in 0..MaxCrashes /\ undone' \in BOOLEAN
    BY <1>10, BoundsAssumption DEF PlcCrash, EE!EnforcerTypeOK
  <2> QED
    BY <1>10, <2>1, <2>2 DEF PlcCrash, EE!EnforcerTypeOK
<1>11. CASE PlcRestart
  BY <1>11 DEF PlcRestart, PLC!Restart, PLC!PlcTypeOK, EE!EnforcerTypeOK
<1>12. CASE UNCHANGED vars
  BY <1>12 DEF vars, PLC!PlcTypeOK, EE!EnforcerTypeOK
<1> QED
  BY <1>1, <1>2, <1>3, <1>4, <1>5, <1>5a, <1>6, <1>7, <1>8, <1>9, <1>10, <1>11,
     <1>12
     DEF Next, Prism, Plc

\* Every variable of the two programs and of the clients keeps its type.
THEOREM TypeCorrect == Spec => []TypeOK
<1> QED
  BY InitTypeOK, NextTypeOK, PTL DEF Spec

-----------------------------------------------------------------------------
(***************************************************************************)
(* One signal in a life of PRISM                                           *)
(***************************************************************************)

\* The flag counts the signal, and apply signals only while it is down.
SignalState ==
  /\ engagements = IF locked THEN 1 ELSE 0
  /\ at # "outside" => ~locked

LEMMA NextSignalState == TypeOK /\ SignalState /\ [Next]_vars => SignalState'
<1> SUFFICES ASSUME TypeOK, SignalState, [Next]_vars PROVE SignalState'
  OBVIOUS
<1> USE DEF SignalState
<1>1. CASE EvaluateAndApply
  BY <1>1 DEF EvaluateAndApply, EE!ApplyReports, EE!ApplySignals,
              EE!NeedsSignal
<1>2. CASE SignalConnects
  BY <1>2 DEF SignalConnects, EE!ConnectSucceeds
<1>3. CASE SignalRefused
  BY <1>3 DEF SignalRefused, EE!SignalFails
<1>4. CASE SignalWritten \/ SignalLost
  <2>1. /\ at = "write" /\ at' = "outside" /\ locked' = TRUE
        /\ engagements' = engagements + 1
    BY <1>4 DEF SignalWritten, SignalLost, EE!WriteSucceeds
  <2>2. engagements = 0
    BY <2>1
  <2> QED
    BY <2>1, <2>2
<1>5. CASE SignalReset
  BY <1>5 DEF SignalReset, EE!SignalFails
<1>6. CASE PrismCrash
  BY <1>6 DEF PrismCrash
<1>7. ASSUME NEW c \in Clients, Client(c)
      PROVE  SignalState'
  BY <1>7 DEF Client, ClientConnects, ClientSends, ClientExits
<1>8. CASE Plc
  BY <1>8 DEF Plc, PlcServesCoil, PlcStep, PlcCrash, PlcRestart
<1>9. CASE UNCHANGED vars
  BY <1>9 DEF vars
<1> QED
  BY <1>1, <1>2, <1>3, <1>4, <1>5, <1>6, <1>7, <1>8, <1>9 DEF Next, Prism

\* However many HIGH evaluations follow, a PRISM process writes one signal
\* (enforcer.cpp:26-37).
THEOREM OneSignal == Spec => []AtMostOneSignal
<1>1. Init => SignalState
  BY DEF Init, EE!EnforcerInit, SignalState
<1>2. SignalState => AtMostOneSignal
  BY DEF SignalState, AtMostOneSignal
<1> QED
  BY <1>1, <1>2, NextSignalState, TypeCorrect, PTL DEF Spec

-----------------------------------------------------------------------------
(***************************************************************************)
(* The flag and the lock                                                   *)
(***************************************************************************)

\* Where the PLC's thread takes no request, what is in flight stays there.
LEMMA InFlightStays ==
  ASSUME TypeOK, EngageInFlight, unread' = unread,
         \/ PLC!Accept
         \/ PLC!DropClosed
         \/ \E c \in Conns : PLC!Connect(c)
         \/ UNCHANGED <<backlog, serving>>
  PROVE  EngageInFlight'
<1>1. PICK s \in Signals : PLC!Connected(s) /\ unread[s] = EngageFrame
  BY DEF EngageInFlight
<1>2. s \in Conns /\ backlog \in Seq(Conns)
  BY DEF Conns, TypeOK, PLC!PlcTypeOK
<1>3. PLC!Connected(s)'
  <2>1. CASE PLC!Accept
    BY <1>1, <1>2, <2>1, AcceptKeepsConnected
  <2>2. CASE PLC!DropClosed
    <3>1. s # serving
      BY <1>1, <2>2, EngageIsFrame, RequestsAssumption DEF PLC!DropClosed
    <3> QED
      BY <1>1, <2>2, <3>1 DEF PLC!DropClosed, PLC!Connected
  <2>3. CASE \E c \in Conns : PLC!Connect(c)
    BY <1>1, <1>2, <2>3, ConnectKeepsConnected
  <2>4. CASE UNCHANGED <<backlog, serving>>
    BY <1>1, <2>4 DEF PLC!Connected
  <2> QED BY <2>1, <2>2, <2>3, <2>4
<1> QED
  BY <1>1, <1>3 DEF EngageInFlight

\* Answering one connection leaves the others where they are.
LEMMA InFlightElsewhere ==
  ASSUME TypeOK, NEW response, PLC!Answer(response), serving # None,
         NEW s \in Signals, PLC!Connected(s), unread[s] = EngageFrame,
         s # serving
  PROVE  EngageInFlight'
<1>1. s \in Conns /\ serving \in Conns
  BY DEF Conns, TypeOK, PLC!PlcTypeOK
<1>2. unread'[s] = EngageFrame
  BY <1>1 DEF PLC!Answer, TypeOK, PLC!PlcTypeOK
<1>3. PLC!Connected(s)'
  BY DEF PLC!Answer, PLC!Connected
<1> QED
  BY <1>2, <1>3 DEF EngageInFlight

LEMMA NextLockTracked == TypeOK /\ LockTracked /\ [Next]_vars => LockTracked'
<1> SUFFICES ASSUME TypeOK, LockTracked, [Next]_vars, locked', ~undone'
             PROVE  writeLocked' \/ EngageInFlight'
  BY DEF LockTracked
<1> USE DEF LockTracked
<1>1. CASE EvaluateAndApply
  <2>1. UNCHANGED <<plcVars, undone>> /\ locked
    BY <1>1 DEF EvaluateAndApply, EE!ApplyReports, EE!ApplySignals
  <2> QED
    BY <2>1, InFlightStays
<1>2. CASE SignalConnects
  <2>1. /\ PLC!Connect(signal + 1)
        /\ signal + 1 \in Conns
        /\ locked /\ ~undone
    BY <1>2 DEF SignalConnects, EE!ConnectSucceeds, Conns
  <2>2. UNCHANGED <<writeLocked, unread>>
    BY <2>1 DEF PLC!Connect
  <2> QED
    BY <2>1, <2>2, InFlightStays
<1>3. CASE SignalRefused
  <2>1. UNCHANGED <<plcVars, undone>> /\ locked
    BY <1>3 DEF SignalRefused, EE!SignalFails
  <2> QED
    BY <2>1, InFlightStays
<1>4. CASE SignalWritten
  <2>1. signal \in Signals
    BY <1>4 DEF SignalWritten, EE!WriteSucceeds, TypeOK
  <2>2. /\ PLC!Connected(signal)
        /\ unread' = [unread EXCEPT ![signal] = EngageFrame]
        /\ UNCHANGED <<backlog, serving, signal>>
    BY <1>4 DEF SignalWritten, PLC!WriteAndClose
  <2>3. unread'[signal] = EngageFrame
    BY <2>1, <2>2 DEF TypeOK, PLC!PlcTypeOK, Conns
  <2>4. PLC!Connected(signal)'
    BY <2>2 DEF PLC!Connected
  <2> QED
    BY <2>1, <2>2, <2>3, <2>4 DEF EngageInFlight
<1>5. CASE SignalReset
  <2>1. UNCHANGED <<plcVars, undone>> /\ locked
    BY <1>5 DEF SignalReset, EE!SignalFails
  <2> QED
    BY <2>1, InFlightStays
<1>5a. CASE SignalLost
  BY <1>5a DEF SignalLost
<1>6. CASE PrismCrash
  BY <1>6 DEF PrismCrash
<1>7. ASSUME NEW c \in Clients, Client(c)
      PROVE  writeLocked' \/ EngageInFlight'
  <2>1. c \in Conns /\ UNCHANGED <<writeLocked, locked, undone>>
    <3>1. c \in Conns
      BY DEF Conns
    <3>2. CASE \E f \in Requests : ClientConnects(c, f)
      BY <3>1, <3>2 DEF ClientConnects, PLC!Connect
    <3>3. CASE ClientSends(c)
      BY <3>1, <3>3 DEF ClientSends, PLC!Write
    <3>4. CASE ClientExits(c)
      BY <3>1, <3>4 DEF ClientExits, PLC!Forget
    <3> QED
      BY <1>7, <3>2, <3>3, <3>4 DEF Client
  <2>2. CASE \E f \in Requests : ClientConnects(c, f)
    <3>1. PLC!Connect(c) /\ UNCHANGED unread
      BY <2>2 DEF ClientConnects, PLC!Connect
    <3> QED
      BY <2>1, <3>1, InFlightStays
  <2>3. CASE ClientSends(c)
    <3>1. SUFFICES ASSUME EngageInFlight PROVE EngageInFlight'
      BY <2>1
    <3>2. PICK s \in Signals : PLC!Connected(s) /\ unread[s] = EngageFrame
      BY <3>1 DEF EngageInFlight
    <3>3. s # c /\ s \in Conns
      BY ClientsAssumption DEF Conns
    <3>4. unread'[s] = EngageFrame /\ PLC!Connected(s)'
      BY <2>1, <2>3, <3>2, <3>3
         DEF ClientSends, PLC!Write, PLC!Connected, TypeOK, PLC!PlcTypeOK
    <3> QED
      BY <3>4 DEF EngageInFlight
  <2>4. CASE ClientExits(c)
    <3>1. UNCHANGED <<unread, backlog, serving>>
      BY <2>4 DEF ClientExits, PLC!Forget
    <3> QED
      BY <2>1, <3>1, InFlightStays
  <2> QED
    BY <1>7, <2>2, <2>3, <2>4 DEF Client
<1>8. ASSUME NEW response, PLC!Answer(response), serving # None,
             EngageInFlight, unread[serving] # EngageFrame
      PROVE  EngageInFlight'
  <2>1. PICK s \in Signals : PLC!Connected(s) /\ unread[s] = EngageFrame
    BY <1>8 DEF EngageInFlight
  <2> QED
    BY <1>8, <2>1, InFlightElsewhere
<1>9. CASE PlcServesCoil
  <2> DEFINE f == unread[serving]
  <2>1. /\ serving # None /\ f # None
        /\ writeLocked' = PLC!LockAfter(f)
        /\ PLC!Answer(PLC!Echo(f))
        /\ locked /\ ~undone
        /\ ~PLC!IsRelease(f) \/ EngageInFlight
    BY <1>9 DEF PlcServesCoil, PLC!ServeSafetyCoil, TypeOK
  <2>2. CASE f = EngageFrame
    <3>1. PLC!IsEngage(f)
      BY <2>2 DEF EngageFrame, PLC!IsEngage, PLC!IsSafetyCoil
    <3> QED
      BY <2>1, <3>1 DEF PLC!LockAfter
  <2>3. CASE f # EngageFrame /\ EngageInFlight
    BY <1>8, <2>1, <2>3
  <2>4. CASE ~EngageInFlight
    <3>1. writeLocked /\ ~PLC!IsRelease(f)
      BY <2>1, <2>4
    <3> QED
      BY <2>1, <3>1 DEF PLC!LockAfter
  <2> QED
    BY <2>2, <2>3, <2>4
<1>10. CASE PlcStep
  <2>1. UNCHANGED writeLocked /\ locked /\ ~undone
    BY <1>10 DEF PlcStep, PLC!Accept, PLC!ServeBlocked, PLC!ServeNormal,
                 PLC!DropClosed
  <2>2. CASE PLC!Accept \/ PLC!DropClosed
    <3>1. UNCHANGED unread
      BY <2>2 DEF PLC!Accept, PLC!DropClosed
    <3> QED
      BY <2>1, <2>2, <3>1, InFlightStays
  <2>3. CASE PLC!ServeBlocked \/ PLC!ServeNormal
    <3>1. ~PLC!IsSafetyCoil(unread[serving]) /\ serving # None
      BY <2>3 DEF PLC!ServeBlocked, PLC!ServeNormal, PLC!IsBlocked
    <3>2. unread[serving] # EngageFrame
      BY <3>1 DEF PLC!IsSafetyCoil, EngageFrame
    <3>3. PICK response : PLC!Answer(response)
      BY <2>3 DEF PLC!ServeBlocked, PLC!ServeNormal
    <3> QED
      BY <1>8, <2>1, <3>1, <3>2, <3>3
  <2> QED
    BY <1>10, <2>2, <2>3 DEF PlcStep
<1>11. CASE PlcCrash
  BY <1>11 DEF PlcCrash
<1>12. CASE PlcRestart
  <2>1. UNCHANGED <<writeLocked, unread, backlog, serving>> /\ locked /\ ~undone
    BY <1>12 DEF PlcRestart, PLC!Restart
  <2> QED
    BY <2>1, InFlightStays
<1>13. CASE UNCHANGED vars
  <2>1. UNCHANGED <<plcVars, undone>> /\ locked
    BY <1>13 DEF vars
  <2> QED
    BY <2>1, InFlightStays
<1> QED
  BY <1>1, <1>2, <1>3, <1>4, <1>5, <1>5a, <1>6, <1>7, <1>9, <1>10, <1>11, <1>12,
     <1>13
     DEF Next, Prism, Plc

\* PRISM's flag (enforcer.cpp:28) and the PLC's lock (server.cpp:10) part only by
\* a release on the safety coil or by the death of the PLC.
THEOREM LockIsTracked == Spec => []LockTracked
<1>1. Init => LockTracked
  BY DEF Init, EE!EnforcerInit, LockTracked
<1> QED
  BY <1>1, NextLockTracked, TypeCorrect, PTL DEF Spec

-----------------------------------------------------------------------------
(***************************************************************************)
(* The safety coil is never blocked                                        *)
(***************************************************************************)

\* What is unread on a client's connection is its request, on a connection the
\* PLC knows; a client that has not connected left nothing behind; and the answer
\* to a request on the safety coil is its echo.
ClientState(c) ==
  /\ unread[c] # None => PLC!Connected(c) /\ unread[c] = request[c]
  /\ client[c] = "new" => unread[c] = None /\ reply[c] = None
  /\ (request[c] # None /\ reply[c] # None /\ PLC!IsSafetyCoil(request[c]))
     => reply[c] = PLC!Echo(request[c])

ClientStates == \A c \in Clients : ClientState(c)

LEMMA NextClientStates == TypeOK /\ ClientStates /\ [Next]_vars => ClientStates'
<1> SUFFICES ASSUME TypeOK, ClientStates, [Next]_vars, NEW c \in Clients
             PROVE  ClientState(c)'
  BY DEF ClientStates
<1>0. ClientState(c) /\ c \in Conns
  BY DEF ClientStates, Conns
<1>a. /\ unread \in [Conns -> PLC!Frames \cup {None}]
      /\ reply \in [Conns -> PLC!Replies \cup {None}]
      /\ client \in [Clients -> {"new", "connected", "waiting"}]
      /\ request \in [Clients -> Requests \cup {None}]
      /\ backlog \in Seq(Conns)
      /\ serving \in Conns \cup {None}
      /\ None \notin Conns
  BY ClientsAssumption DEF TypeOK, PLC!PlcTypeOK
<1> USE DEF PLC!IsSafetyCoil, PLC!Echo
<1>b. ASSUME /\ unread'[c] = unread[c] /\ reply'[c] = reply[c]
             /\ client'[c] = client[c] /\ request'[c] = request[c],
             PLC!Connected(c) => PLC!Connected(c)' \/ unread[c] = None
      PROVE  ClientState(c)'
  BY <1>0, <1>b DEF ClientState
<1>c. ASSUME UNCHANGED <<backlog, serving>>
      PROVE  PLC!Connected(c) <=> PLC!Connected(c)'
  BY <1>c DEF PLC!Connected
<1>1. CASE EvaluateAndApply \/ SignalRefused \/ SignalReset \/ SignalLost
  BY <1>1, <1>b, <1>c DEF EvaluateAndApply, SignalRefused, SignalReset,
                          SignalLost
<1>2. CASE SignalConnects
  <2>1. PLC!Connect(signal + 1) /\ signal + 1 \in Conns
    BY <1>2 DEF SignalConnects, Conns
  <2>2. PLC!Connected(c) => PLC!Connected(c)'
    BY <1>0, <1>a, <2>1, ConnectKeepsConnected
  <2> QED
    BY <1>2, <1>b, <2>1, <2>2 DEF SignalConnects, PLC!Connect
<1>3. CASE SignalWritten
  <2>1. signal \in Signals
    BY <1>3 DEF SignalWritten, EE!WriteSucceeds, TypeOK
  <2>2. signal # c
    BY <2>1, ClientsAssumption
  <2>3. unread'[c] = unread[c] /\ UNCHANGED <<reply, client, request, backlog, serving>>
    BY <1>3, <1>0, <1>a, <2>2 DEF SignalWritten, PLC!WriteAndClose
  <2> QED
    BY <1>b, <1>c, <2>3
<1>4. CASE PrismCrash
  BY <1>4, <1>b, <1>c DEF PrismCrash, PLC!Close
<1>5. ASSUME NEW d \in Clients, NEW f \in Requests, ClientConnects(d, f)
      PROVE  ClientState(c)'
  <2>1. /\ PLC!Connect(d) /\ d \in Conns
        /\ UNCHANGED <<unread, reply>>
        /\ client[d] = "new"
        /\ client' = [client EXCEPT ![d] = "connected"]
        /\ request' = [request EXCEPT ![d] = f]
    BY <1>5 DEF ClientConnects, PLC!Connect, Conns
  <2>2. PLC!Connected(c) => PLC!Connected(c)'
    BY <1>0, <1>a, <2>1, ConnectKeepsConnected
  <2>3. CASE c = d
    BY <1>0, <1>a, <2>1, <2>3 DEF ClientState
  <2>4. CASE c # d
    BY <1>a, <1>b, <2>1, <2>2, <2>4
  <2> QED
    BY <2>3, <2>4
<1>6. ASSUME NEW d \in Clients, ClientSends(d)
      PROVE  ClientState(c)'
  <2>1. /\ PLC!Connected(d) /\ d \in Conns
        /\ UNCHANGED <<reply, request, backlog, serving>>
        /\ unread' = [unread EXCEPT ![d] = request[d]]
        /\ client' = [client EXCEPT ![d] = "waiting"]
    BY <1>6 DEF ClientSends, PLC!Write, Conns
  <2>2. CASE c = d
    <3>1. unread'[c] = request'[c] /\ PLC!Connected(c)'
      BY <1>0, <1>a, <1>c, <2>1, <2>2
    <3>2. client'[c] # "new" /\ reply'[c] = reply[c] /\ request'[c] = request[c]
      BY <1>a, <2>1, <2>2
    <3> QED
      BY <1>0, <3>1, <3>2 DEF ClientState
  <2>3. CASE c # d
    BY <1>0, <1>a, <1>b, <1>c, <2>1, <2>3
  <2> QED
    BY <2>2, <2>3
<1>7. ASSUME NEW d \in Clients, ClientExits(d)
      PROVE  ClientState(c)'
  <2>1. /\ ~PLC!Connected(d) /\ d \in Conns
        /\ UNCHANGED <<unread, backlog, serving>>
        /\ reply' = [reply EXCEPT ![d] = None]
        /\ client' = [client EXCEPT ![d] = "new"]
        /\ request' = [request EXCEPT ![d] = None]
    BY <1>7 DEF ClientExits, PLC!Forget, Conns
  <2>2. CASE c = d
    BY <1>0, <1>a, <2>1, <2>2 DEF ClientState
  <2>3. CASE c # d
    BY <1>0, <1>a, <1>b, <1>c, <2>1, <2>3
  <2> QED
    BY <2>2, <2>3
<1>8. ASSUME NEW response, PLC!Answer(response), serving # None,
             unread[serving] # None, UNCHANGED <<client, request>>,
             \/ response = PLC!Echo(unread[serving])
             \/ ~PLC!IsSafetyCoil(unread[serving])
      PROVE  ClientState(c)'
  <2>1. /\ reply' = [reply EXCEPT ![serving] = response]
        /\ unread' = [unread EXCEPT ![serving] = None]
        /\ UNCHANGED backlog
        /\ serving \in Conns
    BY <1>8, <1>a DEF PLC!Answer
  <2>2. CASE c = serving
    <3>1. unread'[c] = None /\ reply'[c] = response /\ unread[c] = request[c]
      BY <1>0, <1>a, <1>8, <2>1, <2>2 DEF ClientState
    <3>2. client'[c] # "new" /\ request'[c] = request[c]
      BY <1>0, <1>8, <2>2 DEF ClientState
    <3> QED
      BY <1>8, <2>2, <3>1, <3>2 DEF ClientState
  <2>3. CASE c # serving
    <3>1. PLC!Connected(c) => PLC!Connected(c)'
      BY <2>1, <2>3 DEF PLC!Connected
    <3> QED
      BY <1>0, <1>a, <1>b, <1>8, <2>1, <2>3, <3>1
  <2> QED
    BY <2>2, <2>3
<1>9. CASE PlcServesCoil
  BY <1>8, <1>9 DEF PlcServesCoil, PLC!ServeSafetyCoil
<1>10. CASE PlcStep
  <2>1. CASE PLC!Accept
    <3>1. PLC!Connected(c) => PLC!Connected(c)'
      BY <1>0, <1>a, <2>1, AcceptKeepsConnected
    <3> QED
      BY <1>10, <1>b, <2>1, <3>1 DEF PlcStep, PLC!Accept
  <2>2. CASE PLC!ServeBlocked
    BY <1>8, <1>10, <2>2 DEF PlcStep, PLC!ServeBlocked, PLC!IsBlocked
  <2>3. CASE PLC!ServeNormal
    BY <1>8, <1>10, <2>3 DEF PlcStep, PLC!ServeNormal
  <2>4. CASE PLC!DropClosed
    <3>1. PLC!Connected(c) => PLC!Connected(c)' \/ unread[c] = None
      BY <2>4 DEF PLC!DropClosed, PLC!Connected
    <3> QED
      BY <1>10, <1>b, <2>4, <3>1 DEF PlcStep, PLC!DropClosed
  <2> QED
    BY <1>10, <2>1, <2>2, <2>3, <2>4 DEF PlcStep
<1>11. CASE PlcCrash
  <2>1. unread'[c] = None /\ UNCHANGED <<reply, client, request>>
    BY <1>0, <1>11 DEF PlcCrash, PLC!Crash
  <2> QED
    BY <1>0, <2>1 DEF ClientState
<1>12. CASE PlcRestart
  BY <1>12, <1>b, <1>c DEF PlcRestart, PLC!Restart
<1>13. CASE UNCHANGED vars
  BY <1>13, <1>b, <1>c DEF vars
<1> QED
  BY <1>1, <1>2, <1>3, <1>4, <1>5, <1>6, <1>7, <1>9, <1>10, <1>11, <1>12, <1>13
     DEF Next, Prism, Plc, Client

\* The operator's release is never refused by the lock it releases
\* (server.cpp:54-70).
THEOREM ReleaseIsNeverBlocked == Spec => []SafetyCoilNeverBlocked
<1>1. Init => ClientStates
  BY DEF Init, PLC!PlcInit, ClientStates, ClientState, Conns
<1>2. ClientStates => SafetyCoilNeverBlocked
  BY DEF ClientStates, ClientState, SafetyCoilNeverBlocked
<1> QED
  BY <1>1, <1>2, NextClientStates, TypeCorrect, PTL DEF Spec
=============================================================================
