------------------------- MODULE MonitoredPlantProofs -------------------------
(***************************************************************************)
(* PRISM and the PLC have one opinion of every Modbus request, whatever    *)
(* clients run and whatever their command lines say: what a client writes, *)
(* a server reads and answers and PRISM parses is followed along the wire, *)
(* and counted.                                                            *)
(***************************************************************************)
EXTENDS MonitoredPlant, ParserProofs, FiniteSetTheorems, FunctionTheorems

\* Whatever a client is given on its command line can be sent.
LEMMA CommandSendable ==
  ASSUME NEW cmd \in Commands
  PROVE  Sendable(cmd)
BY CommandsAssumption DEF Sendable

LEMMA Narrowed ==
  ASSUME NEW cmd \in Commands
  PROVE  /\ AsByte(cmd.fn) \in Bytes
         /\ AsWord(cmd.addr) \in Words /\ AsWord(cmd.val) \in Words
         /\ cmd.protocol \in {"Modbus", "DNP3", "IEC104"}
BY CommandSendable, FitsFrame

LEMMA FrameBytes ==
  ASSUME NEW cmd \in Commands
  PROVE  FrameOf(cmd) \in Seq(Bytes)
BY CommandSendable, FrameIsBytes

-----------------------------------------------------------------------------
(***************************************************************************)
(* The invariant                                                           *)
(***************************************************************************)

Directions == {"request", "response"}

Segments ==
  [packet : [srcPort : Nat, dstPort : Nat, payload : Seq(Bytes)],
   cmd : Commands, direction : Directions]

Entries == [record : Records, cmd : Commands, direction : Directions]

\* What TypeOK leaves open: where commands, frames and segments come from.
Typing ==
  /\ TypeOK
  /\ command \in [Clients -> Commands \cup {None}]
  /\ unread \in [Clients -> Seq(Bytes)]
  /\ wire \in Seq(Segments)
  /\ records \in Seq(Entries)

\* What a server has not read is the frame of its client's command.
FramesUnread ==
  \A c \in Clients :
    /\ stage[c] \in {"idle", "connected", "closed"} => unread[c] = <<>>
    /\ unread[c] # <<>> => unread[c] = FrameOf(command[c])

\* What a Modbus command puts on the wire: segments without payload, its frame
\* in both directions, the exception that may be its answer.
Honest(s) ==
  s.cmd.protocol = "Modbus" =>
    \/ s.packet = Packet("Modbus", s.direction = "request", <<>>)
    \/ s.packet = Packet("Modbus", s.direction = "request", FrameOf(s.cmd))
    \/ s.packet = Packet("Modbus", FALSE, ModbusException(AsByte(s.cmd.fn)))

HonestWire == \A i \in DOMAIN wire : Honest(wire[i])

\* What PRISM has made of it.
Agrees(e) ==
  e.cmd.protocol = "Modbus" =>
    /\ e.record.functionCode = AsByte(e.cmd.fn)
    /\ e.record.address = AsWord(e.cmd.addr)
    /\ e.record.isWrite <=> e.record.functionCode \in {5, 6, 15, 16}
    /\ e.record.isRequest <=> e.direction = "request"

RecordsAgree == \A i \in DOMAIN records : Agrees(records[i])

MInv == Typing /\ FramesUnread /\ HonestWire /\ RecordsAgree

LEMMA SegmentTyped ==
  ASSUME NEW cmd \in Commands, NEW direction \in Directions,
         NEW payload \in Seq(Bytes)
  PROVE  /\ Segment(cmd, direction, payload) \in Segments
         /\ Segment(cmd, direction, payload).cmd = cmd
         /\ Segment(cmd, direction, payload).direction = direction
         /\ Segment(cmd, direction, payload).packet
              = Packet(cmd.protocol, direction = "request", payload)
<1>1. Port[cmd.protocol] \in Nat
  BY Narrowed DEF Port
<1>2. Packet(cmd.protocol, direction = "request", payload)
        \in [srcPort : Nat, dstPort : Nat, payload : Seq(Bytes)]
  BY <1>1 DEF Packet, ClientPort
<1> QED  BY <1>2 DEF Segment, Segments

LEMMA HonestSegment ==
  ASSUME NEW cmd \in Commands, NEW direction \in Directions,
         NEW payload \in Seq(Bytes),
         cmd.protocol = "Modbus" =>
           \/ payload = <<>>
           \/ payload = FrameOf(cmd)
           \/ /\ direction = "response"
              /\ payload = ModbusException(AsByte(cmd.fn))
  PROVE  Honest(Segment(cmd, direction, payload))
<1>s. PICK s : s = Segment(cmd, direction, payload)
  OBVIOUS
<1>1. /\ s.cmd = cmd /\ s.direction = direction
      /\ s.packet = Packet(cmd.protocol, direction = "request", payload)
  BY <1>s, SegmentTyped
<1> SUFFICES ASSUME cmd.protocol = "Modbus" PROVE Honest(s)
  BY <1>s, <1>1 DEF Honest
<1>2. s.packet = Packet("Modbus", s.direction = "request", payload)
  BY <1>1
<1>3. CASE payload = <<>>
  BY <1>2, <1>3 DEF Honest
<1>4. CASE payload = FrameOf(cmd)
  BY <1>1, <1>2, <1>4 DEF Honest
<1>5. CASE direction = "response" /\ payload = ModbusException(AsByte(cmd.fn))
  <2>1. (s.direction = "request") = FALSE
    BY <1>1, <1>5
  <2> QED  BY <1>1, <1>2, <1>5, <2>1 DEF Honest
<1> QED  BY <1>3, <1>4, <1>5

\* A packet without payload leaves no record.
LEMMA EmptyUnseen ==
  ASSUME NEW protocol \in Protocols, NEW toServer \in BOOLEAN
  PROVE  Skips(Parse(Packet(protocol, toServer, <<>>)))
<1>p. PICK p : p = Packet(protocol, toServer, <<>>)
  OBVIOUS
<1>1. Len(p.payload) = 0
  BY <1>p DEF Packet
<1>2. /\ ModbusParse(p) = Skipped /\ DNP3Parse(p) = Skipped
      /\ IEC104Parse(p) = Skipped
  BY <1>1 DEF ModbusParse, DNP3Parse, IEC104Parse
<1>3. Parse(p) = Skipped
  BY <1>2 DEF Parse
<1> QED  BY <1>p, <1>3 DEF Skips

\* A segment of a Modbus command leaves no record, or one that agrees.
LEMMA HonestRecord ==
  ASSUME NEW s \in Segments, Honest(s), ~Skips(Parse(s.packet))
  PROVE  LET e == [record |-> Parse(s.packet), cmd |-> s.cmd,
                   direction |-> s.direction]
         IN  e \in Entries /\ Agrees(e)
<1>1. /\ s.cmd \in Commands /\ s.direction \in Directions
      /\ s.packet.payload \in Seq(Bytes)
  BY DEF Segments
<1>2. Parse(s.packet) \in Records
  BY <1>1, ParseTyped
<1>3. CASE s.cmd.protocol # "Modbus"
  BY <1>1, <1>2, <1>3 DEF Entries, Agrees
<1>4. CASE s.cmd.protocol = "Modbus"
  <2>fn. PICK fn \in Bytes : fn = AsByte(s.cmd.fn)
    BY <1>1, Narrowed
  <2>addr. PICK addr \in Words : addr = AsWord(s.cmd.addr)
    BY <1>1, Narrowed
  <2>val. PICK val \in Words : val = AsWord(s.cmd.val)
    BY <1>1, Narrowed
  <2>d. PICK toServer \in BOOLEAN : toServer <=> s.direction = "request"
    <3>1. (s.direction = "request") \in BOOLEAN
      OBVIOUS
    <3> QED  BY <3>1
  <2>0. "Modbus" \in Protocols
    BY DEF Protocols, Port
  <2>1. s.packet # Packet("Modbus", s.direction = "request", <<>>)
    BY EmptyUnseen, <2>0
  <2>2. s.packet # Packet("Modbus", FALSE, ModbusException(fn))
    BY ExceptionUnseen DEF Skips
  <2>b. PICK b : b = ModbusFrame(fn, addr, val)
    OBVIOUS
  <2>3. FrameOf(s.cmd) = b
    BY <1>4, <2>fn, <2>addr, <2>val, <2>b DEF FrameOf
  <2>4. s.packet = Packet("Modbus", toServer, b)
    BY <1>4, <2>1, <2>2, <2>3, <2>fn, <2>d DEF Honest, Packet
  <2>r. PICK r : r = Parse(s.packet)
    OBVIOUS
  <2>5. /\ r.functionCode = fn /\ r.address = addr
        /\ r.isWrite <=> fn \in {5, 6, 15, 16}
        /\ r.isRequest <=> toServer
    BY <2>b, <2>4, <2>r, ModbusFrameSeen
  <2>6. Agrees([record |-> r, cmd |-> s.cmd, direction |-> s.direction])
    BY <2>5, <2>fn, <2>addr, <2>d DEF Agrees
  <2>7. [record |-> r, cmd |-> s.cmd, direction |-> s.direction] \in Entries
    BY <1>1, <1>2, <2>r DEF Entries
  <2> QED  BY <2>6, <2>7, <2>r
<1> QED  BY <1>3, <1>4

-----------------------------------------------------------------------------
(***************************************************************************)
(* Every step keeps it                                                     *)
(***************************************************************************)

LEMMA InitEstablishes == Init => MInv
<1> SUFFICES ASSUME Init PROVE MInv
  OBVIOUS
<1>1. Typing
  <2>1. /\ wire = <<>> /\ wire \in Seq(Segments)
        /\ records = <<>> /\ records \in Seq(Entries)
    BY DEF Init
  <2>2. /\ unread \in [Clients -> Seq(Bytes)]
        /\ command \in [Clients -> Commands \cup {None}]
    <3>1. <<>> \in Seq(Bytes)
      OBVIOUS
    <3> QED  BY <3>1 DEF Init
  <2>3. TypeOK
    <3>1. <<>> \in Seq(Clients)
      OBVIOUS
    <3>2. sessions \in 0..MaxSessions
      BY BoundsAssumption DEF Init
    <3>3. \A i \in DOMAIN records : records[i].record \in Records
      BY <2>1
    <3> QED  BY <3>1, <3>2, <3>3 DEF Init, TypeOK
  <2> QED  BY <2>1, <2>2, <2>3 DEF Typing
<1>2. FramesUnread
  BY DEF Init, FramesUnread
<1>3. HonestWire /\ RecordsAgree
  BY DEF Init, HonestWire, RecordsAgree
<1> QED  BY <1>1, <1>2, <1>3 DEF MInv

\* A segment of a command, put on an honest wire.
LEMMA WireGrows ==
  ASSUME wire \in Seq(Segments), HonestWire, NEW s \in Segments, Honest(s),
         wire' = Append(wire, s)
  PROVE  wire' \in Seq(Segments) /\ HonestWire'
<1>1. wire' \in Seq(Segments)
  OBVIOUS
<1>2. ASSUME NEW i \in DOMAIN wire' PROVE Honest(wire'[i])
  <2>1. CASE i \in DOMAIN wire
    BY <2>1 DEF HonestWire
  <2>2. CASE i \notin DOMAIN wire
    <3>1. i = Len(wire) + 1
      BY <2>2
    <3>2. wire'[i] = s
      BY <3>1
    <3> QED  BY <3>2
  <2> QED  BY <2>1, <2>2
<1> QED  BY <1>1, <1>2 DEF HonestWire

LEMMA ConnectKeeps ==
  ASSUME MInv, NEW c \in Clients, NEW cmd \in Commands, Connect(c, cmd)
  PROVE  MInv'
<1>1. /\ <<>> \in Seq(Bytes) /\ "request" \in Directions
      /\ cmd.protocol \in Protocols /\ cmd \in Commands /\ cmd # None
  BY CommandsAssumption, BoundsAssumption DEF Directions
<1>s. PICK s : s = Segment(cmd, "request", <<>>)
  OBVIOUS
<1>2. s \in Segments /\ Honest(s)
  BY <1>1, <1>s, SegmentTyped, HonestSegment
<1>3. wire' \in Seq(Segments) /\ HonestWire'
  BY <1>2, <1>s, WireGrows DEF MInv, Typing, Connect
<1>4. backlog' \in [Protocols -> Seq(Clients)]
  <2>1. backlog[cmd.protocol] \in Seq(Clients)
    BY <1>1 DEF MInv, Typing, TypeOK
  <2>2. Append(backlog[cmd.protocol], c) \in Seq(Clients)
    BY <2>1
  <2> QED  BY <2>2 DEF MInv, Typing, TypeOK, Connect
<1>5. TypeOK'
  BY <1>1, <1>4, BoundsAssumption DEF MInv, Typing, TypeOK, Connect
<1>6. Typing'
  BY <1>3, <1>5 DEF MInv, Typing, Connect
<1>7. FramesUnread'
  BY DEF MInv, Typing, TypeOK, FramesUnread, Connect
<1>8. RecordsAgree'
  BY DEF MInv, RecordsAgree, Connect
<1> QED  BY <1>3, <1>6, <1>7, <1>8 DEF MInv

LEMMA SendKeeps ==
  ASSUME MInv, NEW c \in Clients, Send(c)
  PROVE  MInv'
<1>1. command[c] \in Commands /\ "request" \in Directions
  BY DEF MInv, Typing, TypeOK, Send, Directions
<1>2. FrameOf(command[c]) \in Seq(Bytes)
  BY <1>1, FrameBytes
<1>s. PICK s : s = Segment(command[c], "request", FrameOf(command[c]))
  OBVIOUS
<1>3. s \in Segments /\ Honest(s)
  BY <1>1, <1>2, <1>s, SegmentTyped, HonestSegment
<1>4. wire' \in Seq(Segments) /\ HonestWire'
  BY <1>3, <1>s, WireGrows DEF MInv, Typing, Send
<1>5. TypeOK'
  BY DEF MInv, Typing, TypeOK, Send
<1>6. Typing'
  BY <1>2, <1>4, <1>5 DEF MInv, Typing, Send
<1>7. FramesUnread'
  BY DEF MInv, Typing, TypeOK, FramesUnread, Send
<1>8. RecordsAgree'
  BY DEF MInv, RecordsAgree, Send
<1> QED  BY <1>4, <1>6, <1>7, <1>8 DEF MInv

LEMMA DiesKeeps ==
  ASSUME MInv, NEW c \in Clients, Dies(c)
  PROVE  MInv'
<1>1. Typing'
  BY DEF MInv, Typing, TypeOK, Dies
<1>2. FramesUnread'
  BY DEF MInv, Typing, TypeOK, FramesUnread, Dies
<1>3. HonestWire' /\ RecordsAgree'
  BY DEF MInv, HonestWire, RecordsAgree, Dies
<1> QED  BY <1>1, <1>2, <1>3 DEF MInv

LEMMA ExitKeeps ==
  ASSUME MInv, NEW c \in Clients, Exit(c)
  PROVE  MInv'
<1>1. Typing'
  BY DEF MInv, Typing, TypeOK, Exit
<1>2. FramesUnread'
  BY DEF MInv, Typing, TypeOK, FramesUnread, Exit
<1>3. HonestWire' /\ RecordsAgree'
  BY DEF MInv, HonestWire, RecordsAgree, Exit
<1> QED  BY <1>1, <1>2, <1>3 DEF MInv

LEMMA AcceptKeeps ==
  ASSUME MInv, NEW p \in Protocols, Accept(p)
  PROVE  MInv'
<1>1. /\ Head(backlog[p]) \in Clients
      /\ Tail(backlog[p]) \in Seq(Clients)
  <2>1. backlog[p] \in Seq(Clients) /\ backlog[p] # <<>>
    BY DEF MInv, Typing, TypeOK, Accept
  <2> QED  BY <2>1
<1>2. Typing'
  BY <1>1 DEF MInv, Typing, TypeOK, Accept
<1>3. FramesUnread'
  BY DEF MInv, FramesUnread, Accept
<1>4. HonestWire' /\ RecordsAgree'
  BY DEF MInv, HonestWire, RecordsAgree, Accept
<1> QED  BY <1>2, <1>3, <1>4 DEF MInv

LEMMA DropClosedKeeps ==
  ASSUME MInv, NEW p \in Protocols, DropClosed(p)
  PROVE  MInv'
<1>1. serving[p] \in Clients
  BY DEF MInv, Typing, TypeOK, DropClosed
<1>2. Typing'
  BY <1>1 DEF MInv, Typing, TypeOK, DropClosed
<1>3. FramesUnread'
  BY <1>1 DEF MInv, Typing, TypeOK, FramesUnread, DropClosed
<1>4. HonestWire' /\ RecordsAgree'
  BY DEF MInv, HonestWire, RecordsAgree, DropClosed
<1> QED  BY <1>2, <1>3, <1>4 DEF MInv

\* A server reads the frame of its client's command.
LEMMA ReadsFrame ==
  ASSUME MInv, NEW p \in Protocols, HasRead(p)
  PROVE  /\ serving[p] \in Clients
         /\ command[serving[p]] \in Commands
         /\ unread[serving[p]] = FrameOf(command[serving[p]])
<1>1. serving[p] \in Clients
  BY DEF MInv, Typing, TypeOK, HasRead
<1>2. stage[serving[p]] # "idle"
  BY <1>1 DEF MInv, FramesUnread, HasRead
<1> QED  BY <1>1, <1>2 DEF MInv, Typing, TypeOK, FramesUnread, HasRead

LEMMA AnswerKeeps ==
  ASSUME MInv, NEW p \in Protocols, HasRead(p), NEW blocked \in BOOLEAN,
         NEW payload \in Seq(Bytes), Answer(p, payload, blocked),
         Honest(Segment(command[serving[p]], "response", payload)),
         writeLocked' \in BOOLEAN
  PROVE  MInv'
<1>c. PICK c \in Clients : c = serving[p]
  BY ReadsFrame
<1>1. command[c] \in Commands /\ "response" \in Directions
  BY <1>c, ReadsFrame DEF Directions
<1>s. PICK s : s = Segment(command[c], "response", payload)
  OBVIOUS
<1>2. s \in Segments /\ Honest(s)
  BY <1>1, <1>s, <1>c, SegmentTyped
<1>3. wire' = Append(wire, s)
  BY <1>s, <1>c DEF Answer
<1>4. wire' \in Seq(Segments) /\ HonestWire'
  BY <1>2, <1>3, WireGrows DEF MInv, Typing
<1>5. /\ stage' = [stage EXCEPT ![c] = "closed"]
      /\ unread' = [unread EXCEPT ![c] = <<>>]
      /\ serving' = [serving EXCEPT ![p] = None]
      /\ UNCHANGED <<backlog, command, records, sessions>>
  BY <1>c DEF Answer
<1>6. stage[c] # "idle"
  BY <1>1, BoundsAssumption DEF MInv, Typing, TypeOK
<1>7. TypeOK'
  BY <1>5, <1>6 DEF MInv, Typing, TypeOK
<1>8. Typing'
  BY <1>4, <1>5, <1>7 DEF MInv, Typing
<1>9. FramesUnread'
  BY <1>5 DEF MInv, Typing, TypeOK, FramesUnread
<1>10. RecordsAgree'
  BY <1>5 DEF MInv, RecordsAgree
<1> QED  BY <1>4, <1>8, <1>9, <1>10 DEF MInv

LEMMA ServeEchoKeeps ==
  ASSUME MInv, NEW p \in Protocols, ServeEcho(p)
  PROVE  MInv'
<1>c. PICK c \in Clients : c = serving[p]
  BY ReadsFrame DEF ServeEcho
<1>1. command[c] \in Commands /\ unread[c] = FrameOf(command[c])
  BY <1>c, ReadsFrame DEF ServeEcho
<1>2. FrameOf(command[c]) \in Seq(Bytes) /\ "response" \in Directions
  BY <1>1, FrameBytes DEF Directions
<1>3. Honest(Segment(command[c], "response", FrameOf(command[c])))
  BY <1>1, <1>2, HonestSegment
<1>4. Answer(p, FrameOf(command[c]), FALSE) /\ HasRead(p)
  BY <1>c, <1>1 DEF ServeEcho
<1>5. writeLocked' \in BOOLEAN
  BY DEF ServeEcho, MInv, Typing, TypeOK
<1> QED  BY <1>2, <1>3, <1>4, <1>5, <1>c, AnswerKeeps

LEMMA ServeModbusKeeps ==
  ASSUME MInv, ServeModbus
  PROVE  MInv'
<1>0. "Modbus" \in Protocols /\ HasRead("Modbus")
  BY DEF Protocols, Port, ServeModbus
<1>c. PICK c \in Clients : c = serving["Modbus"]
  BY <1>0, ReadsFrame
<1>1. command[c] \in Commands /\ unread[c] = FrameOf(command[c])
  BY <1>0, <1>c, ReadsFrame
<1>b. PICK b \in Seq(Bytes) : b = unread[c]
  BY <1>1, FrameBytes
<1>pdu. PICK pdu : pdu = ModbusPdu(b)
  OBVIOUS
<1>2. pdu.function \in Bytes /\ pdu.address \in Words /\ pdu.value \in Words
  BY <1>pdu, PduTyped
<1>3. command[c].protocol = "Modbus" =>
        /\ pdu.function = AsByte(command[c].fn)
        /\ ModbusFrame(pdu.function, pdu.address, pdu.value)
             = FrameOf(command[c])
  <2> SUFFICES ASSUME command[c].protocol = "Modbus"
               PROVE  /\ pdu.function = AsByte(command[c].fn)
                      /\ ModbusFrame(pdu.function, pdu.address, pdu.value)
                           = FrameOf(command[c])
    OBVIOUS
  <2>fn. PICK fn \in Bytes : fn = AsByte(command[c].fn)
    BY <1>1, Narrowed
  <2>addr. PICK addr \in Words : addr = AsWord(command[c].addr)
    BY <1>1, Narrowed
  <2>val. PICK val \in Words : val = AsWord(command[c].val)
    BY <1>1, Narrowed
  <2>1. FrameOf(command[c]) = ModbusFrame(fn, addr, val)
    BY <2>fn, <2>addr, <2>val DEF FrameOf
  <2>2. pdu = [function |-> fn, address |-> addr, value |-> val]
    BY <2>1, <1>1, <1>b, <1>pdu, PduOfFrame
  <2> QED  BY <2>1, <2>2, <2>fn
<1>4. "response" \in Directions /\ command[c] \in Commands
  BY <1>1 DEF Directions
<1>5. CASE PLC!IsBlocked(pdu)
  <2>1. /\ Answer("Modbus", ModbusException(pdu.function), TRUE)
        /\ UNCHANGED writeLocked
    BY <1>5, <1>c, <1>b, <1>pdu DEF ServeModbus
  <2>2. ModbusException(pdu.function) \in Seq(Bytes)
    BY <1>2, ModbusExceptionBytes
  <2>3. Honest(Segment(command[c], "response", ModbusException(pdu.function)))
    BY <1>3, <1>4, <2>2, HonestSegment
  <2>4. writeLocked' \in BOOLEAN
    BY <2>1 DEF MInv, Typing, TypeOK
  <2> QED  BY <1>0, <1>c, <2>1, <2>2, <2>3, <2>4, AnswerKeeps
<1>6. CASE ~PLC!IsBlocked(pdu)
  <2>f. PICK f : f = ModbusFrame(pdu.function, pdu.address, pdu.value)
    OBVIOUS
  <2>1. Answer("Modbus", f, FALSE) /\ writeLocked' = PLC!LockAfter(pdu)
    BY <1>6, <1>c, <1>b, <1>pdu, <2>f DEF ServeModbus
  <2>2. f \in Seq(Bytes)
    BY <1>2, <2>f, ModbusFrameBytes
  <2>3. Honest(Segment(command[c], "response", f))
    BY <1>3, <1>4, <2>2, <2>f, HonestSegment
  <2>4. writeLocked' \in BOOLEAN
    BY <2>1 DEF PLC!LockAfter, PLC!IsEngage, PLC!IsSafetyCoil
  <2> QED  BY <1>0, <1>c, <2>1, <2>2, <2>3, <2>4, AnswerKeeps
<1> QED  BY <1>5, <1>6

LEMMA MonitorKeeps ==
  ASSUME MInv, Monitor
  PROVE  MInv'
<1>1. /\ wire \in Seq(Segments) /\ wire # <<>> /\ wire' = Tail(wire)
      /\ UNCHANGED <<writeLocked, backlog, serving, stage, command, unread,
                     served, sessions>>
  BY DEF MInv, Typing, Monitor
<1>s. PICK s \in Segments : s = Head(wire)
  BY <1>1
<1>2. Honest(s)
  BY <1>1, <1>s DEF MInv, HonestWire
<1>3. wire' \in Seq(Segments) /\ HonestWire'
  <2>1. wire' \in Seq(Segments)
    BY <1>1
  <2>2. ASSUME NEW i \in DOMAIN wire' PROVE Honest(wire'[i])
    <3>1. i + 1 \in DOMAIN wire /\ wire'[i] = wire[i + 1]
      BY <1>1
    <3> QED  BY <3>1 DEF MInv, HonestWire
  <2> QED  BY <2>1, <2>2 DEF HonestWire
<1>e. PICK e : e = [record |-> Parse(s.packet), cmd |-> s.cmd,
                    direction |-> s.direction]
  OBVIOUS
<1>4. \/ records' = records
      \/ records' = Append(records, e) /\ ~Skips(Parse(s.packet))
  BY <1>s, <1>e DEF Monitor
<1>5. ~Skips(Parse(s.packet)) => e \in Entries /\ Agrees(e)
  BY <1>2, <1>e, HonestRecord
<1>6. records \in Seq(Entries) /\ RecordsAgree
  BY DEF MInv, Typing
<1>7. records' \in Seq(Entries) /\ RecordsAgree'
  <2>1. CASE records' = records
    BY <1>6, <2>1 DEF RecordsAgree
  <2>2. CASE records' = Append(records, e) /\ ~Skips(Parse(s.packet))
    <3>1. records' \in Seq(Entries)
      BY <1>5, <1>6, <2>2
    <3>2. ASSUME NEW i \in DOMAIN records' PROVE Agrees(records'[i])
      <4>1. CASE i \in DOMAIN records
        BY <1>5, <1>6, <2>2, <4>1 DEF RecordsAgree
      <4>2. CASE i \notin DOMAIN records
        <5>1. i = Len(records) + 1
          BY <1>5, <1>6, <2>2, <4>2
        <5>2. records'[i] = e
          BY <1>5, <1>6, <2>2, <5>1
        <5> QED  BY <1>5, <2>2, <5>2
      <4> QED  BY <4>1, <4>2
    <3> QED  BY <3>1, <3>2 DEF RecordsAgree
  <2> QED  BY <1>4, <2>1, <2>2
<1>8. TypeOK'
  <2>1. ASSUME NEW i \in DOMAIN records' PROVE records'[i].record \in Records
    <3>1. records'[i] \in Entries
      BY <1>7
    <3> QED  BY <3>1 DEF Entries
  <2> QED  BY <1>1, <2>1 DEF MInv, Typing, TypeOK
<1>9. Typing'
  BY <1>1, <1>3, <1>7, <1>8 DEF MInv, Typing
<1>10. FramesUnread'
  BY <1>1 DEF MInv, FramesUnread
<1> QED  BY <1>3, <1>7, <1>9, <1>10 DEF MInv

LEMMA StutterKeeps ==
  ASSUME MInv, UNCHANGED vars
  PROVE  MInv'
BY DEF MInv, Typing, TypeOK, FramesUnread, HonestWire, RecordsAgree, vars

\* What is on a connection, on the wire and in PRISM's records always comes from
\* a command, and keeps what the command says.
THEOREM Invariance == Spec => []MInv
<1>1. Init => MInv
  BY InitEstablishes
<1>2. MInv /\ [Next]_vars => MInv'
  <2> SUFFICES ASSUME MInv, [Next]_vars PROVE MInv'
    OBVIOUS
  <2>1. ASSUME NEW c \in Clients, NEW cmd \in Commands, Connect(c, cmd)
        PROVE  MInv'
    BY <2>1, ConnectKeeps
  <2>2. ASSUME NEW c \in Clients, Send(c) PROVE MInv'
    BY <2>2, SendKeeps
  <2>3. ASSUME NEW c \in Clients, Dies(c) PROVE MInv'
    BY <2>3, DiesKeeps
  <2>4. ASSUME NEW c \in Clients, Exit(c) PROVE MInv'
    BY <2>4, ExitKeeps
  <2>5. ASSUME NEW p \in Protocols, Accept(p) PROVE MInv'
    BY <2>5, AcceptKeeps
  <2>6. ASSUME NEW p \in Protocols, ServeEcho(p) PROVE MInv'
    BY <2>6, ServeEchoKeeps
  <2>7. ASSUME NEW p \in Protocols, DropClosed(p) PROVE MInv'
    BY <2>7, DropClosedKeeps
  <2>8. CASE ServeModbus
    BY <2>8, ServeModbusKeeps
  <2>9. CASE Monitor
    BY <2>9, MonitorKeeps
  <2>10. CASE UNCHANGED vars
    BY <2>10, StutterKeeps
  <2> QED
    BY <2>1, <2>2, <2>3, <2>4, <2>5, <2>6, <2>7, <2>8, <2>9, <2>10 DEF Next
<1> QED  BY <1>1, <1>2, PTL DEF Spec

\* Every variable of the plant keeps its type, and every record PRISM makes of
\* what the plant's programs write fits the fields of ParsedRecord
\* (prism.hpp:26-33).
THEOREM TypeCorrect == Spec => []TypeOK
<1>1. MInv => TypeOK
  BY DEF MInv, Typing
<1> QED  BY <1>1, Invariance, PTL

\* modbus_parser.cpp:18-36 against server.cpp:12-14 and 54-70 of the simulator and
\* cli.cpp:74-82: for any clients, command lines and interleavings, PRISM records
\* of a Modbus command the function and the address that the PLC decodes, as a
\* write exactly when the locked PLC refuses it or it is for the safety coil.
THEOREM ViewsAgree == Spec => []WriteViewsAgree
<1>1. MInv => WriteViewsAgree
  <2> SUFFICES ASSUME MInv, NEW i \in DOMAIN records,
                      records[i].cmd.protocol = "Modbus"
               PROVE  LET r == records[i].record
                          pdu == ModbusPdu(FrameOf(records[i].cmd))
                      IN  /\ r.functionCode = pdu.function
                          /\ r.address = pdu.address
                          /\ r.isWrite <=> LockedPLC!IsBlocked(pdu)
                                            \/ PLC!IsSafetyCoil(pdu)
                          /\ r.isRequest <=> records[i].direction = "request"
    BY DEF WriteViewsAgree
  <2>e. PICK e : e = records[i]
    OBVIOUS
  <2>1. e \in Entries /\ Agrees(e)
    BY <2>e DEF MInv, Typing, RecordsAgree
  <2>pdu. PICK pdu : pdu = ModbusPdu(FrameOf(e.cmd))
    OBVIOUS
  <2>2. e.cmd \in Commands /\ e.cmd.protocol = "Modbus"
    BY <2>1, <2>e DEF Entries
  <2>3. pdu.function = AsByte(e.cmd.fn) /\ pdu.address = AsWord(e.cmd.addr)
    BY <2>2, <2>pdu, CommandSendable, CommandDecoded
  <2>4. LockedPLC!IsBlocked(pdu) \/ PLC!IsSafetyCoil(pdu)
          <=> pdu.function \in {5, 6, 15, 16}
    BY DEF LockedPLC!IsBlocked, LockedPLC!IsSafetyCoil, LockedPLC!IsWriteFc,
           PLC!IsSafetyCoil
  <2> QED  BY <2>e, <2>1, <2>2, <2>3, <2>4, <2>pdu DEF Agrees
<1> QED  BY <1>1, Invariance, PTL

-----------------------------------------------------------------------------
(***************************************************************************)
(* Counting the records: what is on the wire will be in the records        *)
(***************************************************************************)

\* Where a sequence holds an element of A.
Places(s, A) == {i \in DOMAIN s : s[i] \in A}

LEMMA PlacesFinite ==
  ASSUME NEW T, NEW s \in Seq(T), NEW A
  PROVE  IsFiniteSet(Places(s, A)) /\ Cardinality(Places(s, A)) \in Nat
<1>1. Len(s) \in Nat /\ DOMAIN s = 1..Len(s)
  OBVIOUS
<1>2. IsFiniteSet(1..Len(s))
  BY <1>1, FS_Interval
<1>3. Places(s, A) \in SUBSET (1..Len(s))
  BY <1>1 DEF Places
<1>4. IsFiniteSet(Places(s, A))
  BY <1>2, <1>3, FS_Subset
<1> QED  BY <1>4, FS_CardinalityType

LEMMA PlacesOfAppend ==
  ASSUME NEW T, NEW s \in Seq(T), NEW e \in T, NEW A
  PROVE  Cardinality(Places(Append(s, e), A))
           = Cardinality(Places(s, A)) + (IF e \in A THEN 1 ELSE 0)
<1>t. PICK t : t = Append(s, e)
  OBVIOUS
<1>1. /\ Len(s) \in Nat /\ DOMAIN s = 1..Len(s) /\ DOMAIN t = 1..(Len(s) + 1)
      /\ t[Len(s) + 1] = e
      /\ \A i \in DOMAIN s : t[i] = s[i]
  BY <1>t
<1>2. IsFiniteSet(Places(s, A)) /\ Cardinality(Places(s, A)) \in Nat
  BY PlacesFinite
<1>5. Len(s) + 1 \notin Places(s, A)
  BY <1>1 DEF Places
<1>3. CASE e \in A
  <2>1. Places(t, A) = Places(s, A) \cup {Len(s) + 1}
    BY <1>1, <1>3 DEF Places
  <2>2. Cardinality(Places(t, A)) = Cardinality(Places(s, A)) + 1
    BY <1>2, <1>5, <2>1, FS_AddElement
  <2> QED  BY <1>t, <1>3, <2>2
<1>4. CASE e \notin A
  <2>1. Places(t, A) = Places(s, A)
    BY <1>1, <1>4 DEF Places
  <2> QED  BY <1>t, <1>2, <1>4, <2>1
<1> QED  BY <1>3, <1>4

LEMMA PlacesOfTail ==
  ASSUME NEW T, NEW s \in Seq(T), s # <<>>, NEW A
  PROVE  Cardinality(Places(s, A))
           = Cardinality(Places(Tail(s), A))
               + (IF Head(s) \in A THEN 1 ELSE 0)
<1>t. PICK t : t = Tail(s)
  OBVIOUS
<1>1. /\ Len(s) \in Nat \ {0} /\ DOMAIN s = 1..Len(s)
      /\ DOMAIN t = 1..(Len(s) - 1) /\ Head(s) = s[1]
      /\ \A i \in DOMAIN t : t[i] = s[i + 1]
  BY <1>t
<1>q. PICK Q : Q = Places(s, A) \ {1}
  OBVIOUS
<1>2. Q = {i \in 2..Len(s) : s[i] \in A}
  BY <1>1, <1>q DEF Places
<1>3. Places(t, A) = {i \in 1..(Len(s) - 1) : s[i + 1] \in A}
  BY <1>1 DEF Places
<1>4. /\ IsFiniteSet(Places(s, A)) /\ Cardinality(Places(s, A)) \in Nat
      /\ IsFiniteSet(Q)
      /\ Cardinality(Q) = IF 1 \in Places(s, A)
                          THEN Cardinality(Places(s, A)) - 1
                          ELSE Cardinality(Places(s, A))
  BY <1>q, PlacesFinite, FS_RemoveElement
<1>5. Cardinality(Places(t, A)) = Cardinality(Q)
  <2>f. PICK f : f = [i \in Q |-> i - 1]
    OBVIOUS
  <2>1. f \in [Q -> Places(t, A)]
    <3>1. \A i \in Q : i - 1 \in Places(t, A)
      BY <1>1, <1>2, <1>3
    <3> QED  BY <2>f, <3>1
  <2>2. \A i, j \in Q : f[i] = f[j] => i = j
    BY <1>2, <2>f
  <2>3. \A k \in Places(t, A) : \E i \in Q : f[i] = k
    <3> TAKE k \in Places(t, A)
    <3>1. k \in 1..(Len(s) - 1) /\ s[k + 1] \in A
      BY <1>3
    <3>2. k + 1 \in Q /\ (k + 1) - 1 = k
      BY <1>1, <1>2, <3>1
    <3> QED  BY <2>f, <3>2
  <2>4. f \in Bijection(Q, Places(t, A))
    BY <2>1, <2>2, <2>3, Fun_IsBij
  <2> QED  BY <1>4, <2>4, FS_Bijection DEF ExistsBijection
<1>6. 1 \in Places(s, A) <=> Head(s) \in A
  BY <1>1 DEF Places
<1> QED  BY <1>t, <1>4, <1>5, <1>6

\* The type of an IEC104 frame is read where it was written.
LEMMA IEC104FrameSeen ==
  ASSUME NEW typeId \in Bytes, typeId # 0, NEW toServer \in BOOLEAN
  PROVE  ~Skips(Parse(Packet("IEC104", toServer, IEC104Frame(typeId))))
<1>b. PICK b : b = IEC104Frame(typeId)
  OBVIOUS
<1>p. PICK p : p = Packet("IEC104", toServer, b)
  OBVIOUS
<1>1. ~(Len(b) < 12) /\ b[1] = 104 /\ b[7] # 0
  BY <1>b DEF IEC104Frame
<1>2. /\ p.payload = b
      /\ p.dstPort # 502 /\ p.srcPort # 502
      /\ p.dstPort # 20000 /\ p.srcPort # 20000
      /\ p.dstPort = 2404 \/ p.srcPort = 2404
  BY <1>p DEF Packet, Port, ClientPort
<1>3. Parse(p) = IEC104Parse(p)
  BY <1>2 DEF Parse, classify_protocol, Uses
<1>4. ~(Len(p.payload) < 12 \/ At(p, 0) # 104 \/ At(p, 6) = 0)
  <2>1. At(p, 0) = b[1] /\ At(p, 6) = b[7]
    BY <1>2 DEF At
  <2>2. ~(Len(p.payload) < 12)
    <3>1. p.payload = b
      BY <1>2
    <3>2. ~(Len(b) < 12)
      BY <1>1
    <3> QED  BY <3>1, <3>2, Zenon
  <2>3. At(p, 0) = 104 /\ At(p, 6) # 0
    BY <1>1, <2>1
  <2> QED  BY <2>2, <2>3
<1>5. IEC104Parse(p).protocol = "IEC104"
  BY <1>4 DEF IEC104Parse
<1>6. IEC104Parse(p) # Skipped
  BY <1>5 DEF Skipped
<1> QED  BY <1>3, <1>6, <1>b, <1>p DEF Skips

LEMMA ModbusFrameKept ==
  ASSUME NEW fn \in Bytes, NEW addr \in Words, NEW val \in Words,
         NEW toServer \in BOOLEAN
  PROVE  ~Skips(Parse(Packet("Modbus", toServer, ModbusFrame(fn, addr, val))))
<1>b. PICK b : b = ModbusFrame(fn, addr, val)
  OBVIOUS
<1>p. PICK p : p = Packet("Modbus", toServer, b)
  OBVIOUS
<1>1. ~(Len(b) < 12)
  BY <1>b DEF ModbusFrame
<1>2. p.payload = b /\ (p.dstPort = 502 \/ p.srcPort = 502)
  BY <1>p DEF Packet, Port
<1>3. Parse(p) = ModbusParse(p)
  BY <1>2 DEF Parse, classify_protocol, Uses
<1>4. ~(Len(p.payload) < 12)
  BY <1>1, <1>2, Zenon
<1>5. ModbusParse(p).protocol = "Modbus"
  BY <1>4 DEF ModbusParse
<1>6. ModbusParse(p) # Skipped
  BY <1>5 DEF Skipped
<1> QED  BY <1>3, <1>6, <1>b, <1>p DEF Skips

\* A command's frame leaves a record in either direction.
LEMMA FrameSeen ==
  ASSUME NEW cmd \in Commands, Evident(cmd), NEW toServer \in BOOLEAN
  PROVE  ~Skips(Parse(Packet(cmd.protocol, toServer, FrameOf(cmd))))
<1>1. /\ AsByte(cmd.fn) \in Bytes
      /\ AsWord(cmd.addr) \in Words /\ AsWord(cmd.val) \in Words
  BY Narrowed
<1>2. CASE cmd.protocol = "Modbus"
  BY <1>1, <1>2, ModbusFrameKept DEF FrameOf
<1>3. CASE cmd.protocol = "IEC104" /\ AsByte(cmd.fn) # 0
  BY <1>1, <1>3, IEC104FrameSeen DEF FrameOf
<1> QED  BY <1>2, <1>3 DEF Evident

-----------------------------------------------------------------------------
(***************************************************************************)
(* What is counted                                                         *)
(***************************************************************************)

Answers == [cmd : Commands, blocked : BOOLEAN, logged : Bytes]

\* Of one command: its records, the segments that will leave one, what the
\* servers made of it, and the clients whose frame is not read.
Written(cmd) == {e \in Entries : e.cmd = cmd}
Evidence(cmd) == {s \in Segments : s.cmd = cmd /\ ~Skips(Parse(s.packet))}
Mine(cmd) == {v \in Answers : v.cmd = cmd}
Refused(cmd) == {v \in Answers : v.cmd = cmd /\ v.blocked}
Sent(cmd) == {c \in Clients : unread[c] # <<>> /\ command[c] = cmd}

\* A connection that waits or is served is open, at the server its command is
\* for, and is there once.
OpenAt(p) ==
  {c \in Clients : /\ stage[c] \in {"connected", "waiting", "gone"}
                   /\ command[c].protocol = p}

OnceAt(p) ==
  /\ serving[p] # None => serving[p] \in OpenAt(p)
  /\ \A i \in DOMAIN backlog[p] :
       /\ backlog[p][i] \in OpenAt(p)
       /\ backlog[p][i] # serving[p]
       /\ \A j \in DOMAIN backlog[p] : backlog[p][j] = backlog[p][i] => j = i

AtServer == \A p \in Protocols : OnceAt(p)

\* A request in flight counts once, an answered one twice, a refused one once.
Counted ==
  \A cmd \in {c \in Commands : Evident(c)} :
    /\ IsFiniteSet(Sent(cmd))
    /\ Cardinality(Places(records, Written(cmd)))
         + Cardinality(Places(wire, Evidence(cmd)))
       = 2 * Cardinality(Places(served, Mine(cmd)))
           - Cardinality(Places(served, Refused(cmd)))
           + Cardinality(Sent(cmd))

EInv == MInv /\ served \in Seq(Answers) /\ AtServer /\ Counted

-----------------------------------------------------------------------------
(***************************************************************************)
(* Every step keeps the count                                              *)
(***************************************************************************)

LEMMA CountTypes ==
  ASSUME EInv, NEW cmd \in Commands
  PROVE  /\ Cardinality(Places(records, Written(cmd))) \in Nat
         /\ Cardinality(Places(wire, Evidence(cmd))) \in Nat
         /\ Cardinality(Places(served, Mine(cmd))) \in Nat
         /\ Cardinality(Places(served, Refused(cmd))) \in Nat
         /\ Evident(cmd) => Cardinality(Sent(cmd)) \in Nat
<1>1. /\ records \in Seq(Entries) /\ wire \in Seq(Segments)
      /\ served \in Seq(Answers)
  BY DEF EInv, MInv, Typing
<1>2. Cardinality(Places(records, Written(cmd))) \in Nat
  BY <1>1, PlacesFinite
<1>3. Cardinality(Places(wire, Evidence(cmd))) \in Nat
  BY <1>1, PlacesFinite
<1>4. /\ Cardinality(Places(served, Mine(cmd))) \in Nat
      /\ Cardinality(Places(served, Refused(cmd))) \in Nat
  BY <1>1, PlacesFinite
<1>5. Evident(cmd) => Cardinality(Sent(cmd)) \in Nat
  BY FS_CardinalityType DEF EInv, Counted
<1> QED  BY <1>2, <1>3, <1>4, <1>5

\* What a segment adds to the evidence on the wire.
LEMMA SegmentCounts ==
  ASSUME MInv, NEW x \in Commands, NEW direction \in Directions,
         NEW payload \in Seq(Bytes), NEW cmd \in Commands, Evident(cmd),
         wire' = Append(wire, Segment(x, direction, payload))
  PROVE  /\ x # cmd \/ payload = <<>> =>
              Cardinality(Places(wire', Evidence(cmd)))
                = Cardinality(Places(wire, Evidence(cmd)))
         /\ x = cmd /\ payload = FrameOf(cmd) =>
              Cardinality(Places(wire', Evidence(cmd)))
                = Cardinality(Places(wire, Evidence(cmd))) + 1
         /\ (x = cmd /\ cmd.protocol = "Modbus" /\ direction = "response"
              /\ payload = ModbusException(AsByte(cmd.fn))) =>
              Cardinality(Places(wire', Evidence(cmd)))
                = Cardinality(Places(wire, Evidence(cmd)))
<1>s. PICK s : s = Segment(x, direction, payload)
  OBVIOUS
<1>1. /\ s \in Segments /\ s.cmd = x
      /\ s.packet = Packet(x.protocol, direction = "request", payload)
  BY <1>s, SegmentTyped
<1>2. Cardinality(Places(wire', Evidence(cmd)))
        = Cardinality(Places(wire, Evidence(cmd)))
            + (IF s \in Evidence(cmd) THEN 1 ELSE 0)
  BY <1>s, <1>1, PlacesOfAppend DEF MInv, Typing
<1>3. Cardinality(Places(wire, Evidence(cmd))) \in Nat
  BY PlacesFinite DEF MInv, Typing
<1>4. x \in Commands /\ x.protocol \in Protocols
      /\ (direction = "request") \in BOOLEAN
  BY CommandsAssumption
<1>5. x # cmd \/ payload = <<>> => s \notin Evidence(cmd)
  <2>1. CASE x # cmd
    BY <1>1, <2>1 DEF Evidence
  <2>2. CASE payload = <<>>
    BY <1>1, <1>4, <2>2, EmptyUnseen DEF Evidence
  <2> QED  BY <2>1, <2>2
<1>6. x = cmd /\ payload = FrameOf(cmd) => s \in Evidence(cmd)
  BY <1>1, <1>4, FrameSeen DEF Evidence
<1>7. (x = cmd /\ cmd.protocol = "Modbus" /\ direction = "response"
         /\ payload = ModbusException(AsByte(cmd.fn))) => s \notin Evidence(cmd)
  <2> SUFFICES ASSUME x = cmd, cmd.protocol = "Modbus", direction = "response",
                      payload = ModbusException(AsByte(cmd.fn))
               PROVE  s \notin Evidence(cmd)
    OBVIOUS
  <2>1. (direction = "request") = FALSE
    OBVIOUS
  <2>2. AsByte(cmd.fn) \in Bytes
    BY Narrowed
  <2>3. s.packet = Packet("Modbus", FALSE, ModbusException(AsByte(cmd.fn)))
    BY <1>1, <2>1
  <2> QED  BY <2>2, <2>3, ExceptionUnseen DEF Evidence, Skips
<1> QED  BY <1>2, <1>3, <1>5, <1>6, <1>7

LEMMA InitCounts == Init => EInv
<1> SUFFICES ASSUME Init PROVE EInv
  OBVIOUS
<1>1. MInv
  BY InitEstablishes
<1>2. served \in Seq(Answers)
  BY DEF Init
<1>3. AtServer
  BY DEF Init, AtServer, OnceAt
<1>4. Counted
  <2> SUFFICES ASSUME NEW cmd \in Commands
               PROVE  /\ IsFiniteSet(Sent(cmd))
                      /\ Cardinality(Places(records, Written(cmd)))
                           + Cardinality(Places(wire, Evidence(cmd)))
                         = 2 * Cardinality(Places(served, Mine(cmd)))
                             - Cardinality(Places(served, Refused(cmd)))
                             + Cardinality(Sent(cmd))
    BY DEF Counted
  <2>1. Sent(cmd) = {}
    BY DEF Init, Sent
  <2>2. /\ Places(records, Written(cmd)) = {}
        /\ Places(wire, Evidence(cmd)) = {}
        /\ Places(served, Mine(cmd)) = {}
        /\ Places(served, Refused(cmd)) = {}
    BY DEF Init, Places
  <2> QED  BY <2>1, <2>2, FS_EmptySet
<1> QED  BY <1>1, <1>2, <1>3, <1>4 DEF EInv

\* A client that is not open has no connection.
LEMMA NotOpen ==
  ASSUME EInv, NEW c \in Clients, stage[c] \in {"idle", "closed"},
         NEW p \in Protocols
  PROVE  serving[p] # c /\ \A i \in DOMAIN backlog[p] : backlog[p][i] # c
<1>1. c # None /\ c \notin OpenAt(p) /\ OnceAt(p)
  BY BoundsAssumption DEF EInv, AtServer, OpenAt
<1> QED  BY <1>1 DEF OnceAt

LEMMA ConnectCounts ==
  ASSUME EInv, NEW c \in Clients, NEW cmd \in Commands, Connect(c, cmd)
  PROVE  EInv'
<1>1. MInv' /\ TypeOK
  BY ConnectKeeps DEF EInv, MInv, Typing
<1>2. /\ stage[c] = "idle" /\ unread[c] = <<>>
      /\ stage' = [stage EXCEPT ![c] = "connected"]
      /\ command' = [command EXCEPT ![c] = cmd]
      /\ backlog' = [backlog EXCEPT ![cmd.protocol] = Append(@, c)]
      /\ wire' = Append(wire, Segment(cmd, "request", <<>>))
      /\ UNCHANGED <<serving, unread, records, served>>
  BY DEF EInv, MInv, FramesUnread, Connect
<1>3. /\ stage'[c] = "connected" /\ command'[c] = cmd
      /\ \A d \in Clients : d # c =>
           stage'[d] = stage[d] /\ command'[d] = command[d]
  BY <1>2 DEF EInv, MInv, Typing, TypeOK
<1>4. AtServer'
  <2> SUFFICES ASSUME NEW p \in Protocols PROVE OnceAt(p)'
    BY DEF AtServer
  <2>1. /\ serving[p] # c /\ \A i \in DOMAIN backlog[p] : backlog[p][i] # c
        /\ OnceAt(p) /\ backlog[p] \in Seq(Clients)
    BY <1>1, <1>2, NotOpen DEF EInv, AtServer, TypeOK
  <2>2. OpenAt(p) \ {c} \subseteq OpenAt(p)'
    BY <1>3 DEF OpenAt
  <2>3. /\ serving[p] # None => serving[p] \in OpenAt(p)'
        /\ \A i \in DOMAIN backlog[p] : backlog[p][i] \in OpenAt(p)'
    BY <2>1, <2>2 DEF OnceAt
  <2>4. CASE p # cmd.protocol
    <3>1. backlog'[p] = backlog[p] /\ serving'[p] = serving[p]
      BY <1>1, <1>2, <2>4 DEF TypeOK
    <3> QED  BY <2>1, <2>3, <3>1 DEF OnceAt
  <2>5. CASE p = cmd.protocol
    <3>1. backlog'[p] = Append(backlog[p], c) /\ serving'[p] = serving[p]
      BY <1>1, <1>2, <2>5 DEF TypeOK
    <3>2. /\ DOMAIN backlog'[p] = DOMAIN backlog[p] \cup {Len(backlog[p]) + 1}
          /\ backlog'[p][Len(backlog[p]) + 1] = c
          /\ \A i \in DOMAIN backlog[p] : backlog'[p][i] = backlog[p][i]
      BY <2>1, <3>1
    <3>3. c \in OpenAt(p)'
      BY <1>3, <2>5 DEF OpenAt
    <3> QED  BY <2>1, <2>3, <3>1, <3>2, <3>3 DEF OnceAt
  <2> QED  BY <2>4, <2>5
<1>5. Counted'
  <2>1. ASSUME NEW x \in Commands, Evident(x)
        PROVE  /\ Sent(x)' = Sent(x)
               /\ Cardinality(Places(wire', Evidence(x)))
                    = Cardinality(Places(wire, Evidence(x)))
    <3>1. Sent(x)' = Sent(x)
      BY <1>2, <1>3 DEF Sent
    <3>2. <<>> \in Seq(Bytes) /\ "request" \in Directions
      BY DEF Directions
    <3>3. Cardinality(Places(wire', Evidence(x)))
            = Cardinality(Places(wire, Evidence(x)))
      BY <1>2, <2>1, <3>2, SegmentCounts DEF EInv
    <3> QED  BY <3>1, <3>3
  <2> QED  BY <1>2, <2>1 DEF EInv, Counted
<1> QED  BY <1>1, <1>2, <1>4, <1>5 DEF EInv

LEMMA SendCounts ==
  ASSUME EInv, NEW c \in Clients, Send(c)
  PROVE  EInv'
<1>1. MInv' /\ TypeOK
  BY SendKeeps DEF EInv, MInv, Typing
<1>2. /\ stage[c] = "connected" /\ unread[c] = <<>> /\ command[c] \in Commands
      /\ stage' = [stage EXCEPT ![c] = "waiting"]
      /\ unread' = [unread EXCEPT ![c] = FrameOf(command[c])]
      /\ wire' = Append(wire, Segment(command[c], "request",
                                      FrameOf(command[c])))
      /\ UNCHANGED <<backlog, serving, command, records, served>>
  BY DEF EInv, MInv, Typing, TypeOK, FramesUnread, Send
<1>3. AtServer'
  <2>1. \A p \in Protocols : OpenAt(p)' = OpenAt(p)
    BY <1>1, <1>2 DEF OpenAt, TypeOK
  <2> QED  BY <1>2, <2>1 DEF EInv, AtServer, OnceAt
<1>4. FrameOf(command[c]) # <<>> /\ FrameOf(command[c]) \in Seq(Bytes)
      /\ "request" \in Directions
  <2>1. FrameOf(command[c]) # <<>>
    BY <1>2, Narrowed DEF FrameOf, ModbusFrame, DNP3Frame, IEC104Frame
  <2> QED  BY <1>2, <2>1, FrameBytes DEF Directions
<1>5. Counted'
  <2>1. ASSUME NEW x \in Commands, Evident(x)
        PROVE  /\ IsFiniteSet(Sent(x)')
               /\ Cardinality(Places(records, Written(x)))
                    + Cardinality(Places(wire', Evidence(x)))
                  = 2 * Cardinality(Places(served, Mine(x)))
                      - Cardinality(Places(served, Refused(x)))
                      + Cardinality(Sent(x)')
    <3>1. /\ IsFiniteSet(Sent(x))
          /\ Cardinality(Places(records, Written(x)))
               + Cardinality(Places(wire, Evidence(x)))
             = 2 * Cardinality(Places(served, Mine(x)))
                 - Cardinality(Places(served, Refused(x)))
                 + Cardinality(Sent(x))
      BY <2>1 DEF EInv, Counted
    <3>2. /\ Cardinality(Places(records, Written(x))) \in Nat
          /\ Cardinality(Places(wire, Evidence(x))) \in Nat
          /\ Cardinality(Places(served, Mine(x))) \in Nat
          /\ Cardinality(Places(served, Refused(x))) \in Nat
          /\ Cardinality(Sent(x)) \in Nat
      BY <2>1, CountTypes
    <3>3. CASE command[c] = x
      <4>1. Sent(x)' = Sent(x) \cup {c} /\ c \notin Sent(x)
        BY <1>2, <1>4, <3>3 DEF Sent, EInv, MInv, Typing
      <4>2. IsFiniteSet(Sent(x)') /\ Cardinality(Sent(x)') = Cardinality(Sent(x)) + 1
        BY <3>1, <4>1, FS_AddElement
      <4>3. Cardinality(Places(wire', Evidence(x)))
              = Cardinality(Places(wire, Evidence(x))) + 1
        BY <1>2, <1>4, <2>1, <3>3, SegmentCounts DEF EInv
      <4> QED  BY <3>1, <3>2, <4>2, <4>3
    <3>4. CASE command[c] # x
      <4>1. Sent(x)' = Sent(x)
        BY <1>2, <3>4 DEF Sent, EInv, MInv, Typing
      <4>2. Cardinality(Places(wire', Evidence(x)))
              = Cardinality(Places(wire, Evidence(x)))
        BY <1>2, <1>4, <2>1, <3>4, SegmentCounts DEF EInv
      <4> QED  BY <3>1, <4>1, <4>2
    <3> QED  BY <3>3, <3>4
  <2> QED  BY <1>2, <2>1 DEF Counted
<1> QED  BY <1>1, <1>2, <1>3, <1>5 DEF EInv

\* Steps that change nothing that is counted.
LEMMA SameCount ==
  ASSUME EInv, \A cmd \in Commands : Sent(cmd)' = Sent(cmd),
         UNCHANGED <<wire, records, served>>
  PROVE  Counted' /\ (served \in Seq(Answers))'
BY DEF EInv, Counted

LEMMA DiesCounts ==
  ASSUME EInv, NEW c \in Clients, Dies(c)
  PROVE  EInv'
<1>1. MInv' /\ TypeOK
  BY DiesKeeps DEF EInv, MInv, Typing
<1>2. AtServer'
  <2>1. \A p \in Protocols : OpenAt(p)' = OpenAt(p)
    BY <1>1 DEF OpenAt, TypeOK, Dies
  <2> QED  BY <2>1 DEF EInv, AtServer, OnceAt, Dies
<1>3. Counted' /\ (served \in Seq(Answers))'
  BY SameCount DEF Sent, Dies
<1> QED  BY <1>1, <1>2, <1>3 DEF EInv

LEMMA ExitCounts ==
  ASSUME EInv, NEW c \in Clients, Exit(c)
  PROVE  EInv'
<1>1. MInv' /\ TypeOK
  BY ExitKeeps DEF EInv, MInv, Typing
<1>2. AtServer'
  <2> SUFFICES ASSUME NEW p \in Protocols PROVE OnceAt(p)'
    BY DEF AtServer
  <2>1. /\ serving[p] # c /\ \A i \in DOMAIN backlog[p] : backlog[p][i] # c
        /\ OnceAt(p)
    BY NotOpen DEF EInv, AtServer, Exit
  <2>2. OpenAt(p) \ {c} \subseteq OpenAt(p)'
    BY <1>1 DEF OpenAt, TypeOK, EInv, MInv, Typing, Exit
  <2> QED  BY <2>1, <2>2 DEF OnceAt, Exit
<1>3. Counted' /\ (served \in Seq(Answers))'
  <2>1. unread[c] = <<>>
    BY DEF EInv, MInv, FramesUnread, Exit
  <2>2. \A cmd \in Commands : Sent(cmd)' = Sent(cmd)
    BY <2>1 DEF Sent, EInv, MInv, Typing, Exit
  <2> QED  BY <2>2, SameCount DEF Exit
<1> QED  BY <1>1, <1>2, <1>3 DEF EInv

LEMMA AcceptCounts ==
  ASSUME EInv, NEW p \in Protocols, Accept(p)
  PROVE  EInv'
<1>1. MInv' /\ TypeOK
  BY AcceptKeeps DEF EInv, MInv, Typing
<1>2. AtServer'
  <2> SUFFICES ASSUME NEW q \in Protocols PROVE OnceAt(q)'
    BY DEF AtServer
  <2>1. OpenAt(q)' = OpenAt(q) /\ OnceAt(q) /\ backlog[q] \in Seq(Clients)
    BY <1>1 DEF OpenAt, TypeOK, EInv, AtServer, Accept
  <2>2. CASE q # p
    <3>1. backlog'[q] = backlog[q] /\ serving'[q] = serving[q]
      BY <1>1, <2>2 DEF TypeOK, Accept
    <3> QED  BY <2>1, <3>1 DEF OnceAt
  <2>3. CASE q = p
    <3>1. /\ serving'[q] = Head(backlog[q]) /\ backlog'[q] = Tail(backlog[q])
          /\ backlog[q] # <<>>
      BY <1>1, <2>3 DEF TypeOK, Accept
    <3>2. /\ 1 \in DOMAIN backlog[q] /\ serving'[q] = backlog[q][1]
          /\ \A i \in DOMAIN backlog'[q] :
               i + 1 \in DOMAIN backlog[q] /\ backlog'[q][i] = backlog[q][i + 1]
                 /\ i \in Nat \ {0}
      BY <2>1, <3>1
    <3>3. serving'[q] \in OpenAt(q)
      BY <2>1, <3>2 DEF OnceAt
    <3>4. ASSUME NEW i \in DOMAIN backlog'[q]
          PROVE  /\ backlog'[q][i] \in OpenAt(q)
                 /\ backlog'[q][i] # serving'[q]
                 /\ \A j \in DOMAIN backlog'[q] :
                      backlog'[q][j] = backlog'[q][i] => j = i
      BY <2>1, <3>2, <3>4 DEF OnceAt
    <3> QED  BY <2>1, <3>3, <3>4 DEF OnceAt
  <2> QED  BY <2>2, <2>3
<1>3. Counted' /\ (served \in Seq(Answers))'
  BY SameCount DEF Sent, Accept
<1> QED  BY <1>1, <1>2, <1>3 DEF EInv

\* A server closes the connection it serves.
LEMMA CloseKeepsOnce ==
  ASSUME EInv, NEW p \in Protocols, serving[p] \in Clients,
         stage' = [stage EXCEPT ![serving[p]] = "closed"],
         serving' = [serving EXCEPT ![p] = None],
         UNCHANGED <<backlog, command>>
  PROVE  AtServer'
<1>c. PICK c \in Clients : c = serving[p]
  OBVIOUS
<1>1. TypeOK /\ c # None
  BY BoundsAssumption DEF EInv, MInv, Typing
<1>2. command[c].protocol = p
  BY <1>c, <1>1 DEF EInv, AtServer, OnceAt, OpenAt
<1> SUFFICES ASSUME NEW q \in Protocols PROVE OnceAt(q)'
  BY DEF AtServer
<1>3. OnceAt(q) /\ OpenAt(q) \ {c} \subseteq OpenAt(q)'
  BY <1>c, <1>1 DEF EInv, AtServer, OpenAt, TypeOK
<1>4. CASE q = p
  <2>1. serving'[q] = None /\ serving[q] = c /\ backlog'[q] = backlog[q]
    BY <1>c, <1>1, <1>4 DEF TypeOK
  <2>2. \A i \in DOMAIN backlog[q] : backlog[q][i] # None
    <3>1. backlog[q] \in Seq(Clients)
      BY <1>1 DEF TypeOK
    <3> QED  BY <3>1, BoundsAssumption
  <2> QED  BY <1>3, <2>1, <2>2 DEF OnceAt
<1>5. CASE q # p
  <2>1. serving'[q] = serving[q] /\ backlog'[q] = backlog[q]
    BY <1>1, <1>5 DEF TypeOK
  <2>2. c \notin OpenAt(q)
    BY <1>2, <1>5 DEF OpenAt
  <2> QED  BY <1>3, <2>1, <2>2 DEF OnceAt
<1> QED  BY <1>4, <1>5

LEMMA DropClosedCounts ==
  ASSUME EInv, NEW p \in Protocols, DropClosed(p)
  PROVE  EInv'
<1>1. MInv' /\ serving[p] \in Clients
  <2>1. MInv'
    BY DropClosedKeeps DEF EInv
  <2>2. serving[p] \in Clients
    BY DEF EInv, MInv, Typing, TypeOK, DropClosed
  <2> QED  BY <2>1, <2>2
<1>2. AtServer'
  BY <1>1, CloseKeepsOnce DEF DropClosed
<1>3. Counted' /\ (served \in Seq(Answers))'
  BY SameCount DEF Sent, DropClosed
<1> QED  BY <1>1, <1>2, <1>3 DEF EInv

\* What the server logs of a frame is a byte.
LEMMA LoggedByte ==
  ASSUME NEW cmd \in Commands, NEW p \in Protocols
  PROVE  cmd.protocol = p => LoggedFunction(p, FrameOf(cmd)) \in Bytes
<1> SUFFICES ASSUME cmd.protocol = p
             PROVE  LoggedFunction(p, FrameOf(cmd)) \in Bytes
  OBVIOUS
<1>b. PICK b : b = FrameOf(cmd)
  OBVIOUS
<1>1. AsByte(cmd.fn) \in Bytes /\ b \in Seq(Bytes)
  BY <1>b, Narrowed, FrameBytes
<1>2. CASE p = "Modbus"
  BY <1>b, <1>1, <1>2, PduTyped DEF LoggedFunction
<1>3. CASE p = "DNP3"
  <2>1. b = DNP3Frame(AsByte(cmd.fn))
    BY <1>b, <1>3 DEF FrameOf
  <2>2. b[7] = AsByte(cmd.fn)
    BY <2>1 DEF DNP3Frame
  <2> QED  BY <1>b, <1>1, <1>3, <2>2 DEF LoggedFunction
<1>4. CASE p = "IEC104"
  <2>1. b = IEC104Frame(AsByte(cmd.fn))
    BY <1>b, <1>4 DEF FrameOf
  <2>2. b[7] = AsByte(cmd.fn)
    BY <2>1 DEF IEC104Frame
  <2> QED  BY <1>b, <1>1, <1>4, <2>2 DEF LoggedFunction
<1> QED  BY <1>2, <1>3, <1>4, Narrowed

\* A server answers: an echo of the frame, or an exception.
LEMMA AnswerCounts ==
  ASSUME EInv, NEW p \in Protocols, HasRead(p), NEW blocked \in BOOLEAN,
         NEW payload \in Seq(Bytes), Answer(p, payload, blocked), MInv',
         ~blocked => payload = FrameOf(command[serving[p]]),
         blocked => /\ command[serving[p]].protocol = "Modbus"
                    /\ payload = ModbusException(AsByte(command[serving[p]].fn))
  PROVE  EInv'
<1>c. PICK c \in Clients : c = serving[p]
  BY ReadsFrame DEF EInv
<1>x. PICK x \in Commands : x = command[c]
  BY <1>c, ReadsFrame DEF EInv
<1>v. PICK v : v = [cmd |-> x, blocked |-> blocked,
                    logged |-> LoggedFunction(p, unread[c])]
  OBVIOUS
<1>1. /\ stage' = [stage EXCEPT ![c] = "closed"]
      /\ unread' = [unread EXCEPT ![c] = <<>>]
      /\ serving' = [serving EXCEPT ![p] = None]
      /\ wire' = Append(wire, Segment(x, "response", payload))
      /\ served' = Append(served, v)
      /\ UNCHANGED <<backlog, command, records>>
  BY <1>c, <1>x, <1>v DEF Answer
<1>2. unread[c] = FrameOf(x) /\ unread[c] # <<>> /\ x.protocol = p
  <2>1. c # None
    BY BoundsAssumption
  <2>2. c \in OpenAt(p)
    BY <1>c, <2>1 DEF EInv, AtServer, OnceAt
  <2> QED  BY <1>c, <1>x, <2>2, ReadsFrame DEF EInv, HasRead, OpenAt
<1>3. v \in Answers /\ v.cmd = x /\ v.blocked = blocked
  BY <1>v, <1>2, LoggedByte DEF Answers
<1>4. (served \in Seq(Answers))'
  BY <1>1, <1>3 DEF EInv
<1>5. AtServer'
  BY <1>c, <1>1, CloseKeepsOnce
<1>6. Counted'
  <2>1. ASSUME NEW cmd \in Commands, Evident(cmd)
        PROVE  /\ IsFiniteSet(Sent(cmd)')
               /\ Cardinality(Places(records, Written(cmd)))
                    + Cardinality(Places(wire', Evidence(cmd)))
                  = 2 * Cardinality(Places(served', Mine(cmd)))
                      - Cardinality(Places(served', Refused(cmd)))
                      + Cardinality(Sent(cmd)')
    <3>1. /\ IsFiniteSet(Sent(cmd))
          /\ Cardinality(Places(records, Written(cmd)))
               + Cardinality(Places(wire, Evidence(cmd)))
             = 2 * Cardinality(Places(served, Mine(cmd)))
                 - Cardinality(Places(served, Refused(cmd)))
                 + Cardinality(Sent(cmd))
      BY <2>1 DEF EInv, Counted
    <3>2. /\ Cardinality(Places(records, Written(cmd))) \in Nat
          /\ Cardinality(Places(wire, Evidence(cmd))) \in Nat
          /\ Cardinality(Places(served, Mine(cmd))) \in Nat
          /\ Cardinality(Places(served, Refused(cmd))) \in Nat
          /\ Cardinality(Sent(cmd)) \in Nat
      BY <2>1, CountTypes
    <3>3. /\ Cardinality(Places(served', Mine(cmd)))
               = Cardinality(Places(served, Mine(cmd)))
                   + (IF v \in Mine(cmd) THEN 1 ELSE 0)
          /\ Cardinality(Places(served', Refused(cmd)))
               = Cardinality(Places(served, Refused(cmd)))
                   + (IF v \in Refused(cmd) THEN 1 ELSE 0)
      BY <1>1, <1>3, PlacesOfAppend DEF EInv
    <3>4. /\ v \in Mine(cmd) <=> x = cmd
          /\ v \in Refused(cmd) <=> x = cmd /\ blocked
      BY <1>3 DEF Mine, Refused
    <3>5. "response" \in Directions
      BY DEF Directions
    <3>6. CASE x # cmd
      <4>1. Sent(cmd)' = Sent(cmd)
        BY <1>1, <1>x, <3>6 DEF Sent, EInv, MInv, Typing
      <4>2. Cardinality(Places(wire', Evidence(cmd)))
              = Cardinality(Places(wire, Evidence(cmd)))
        BY <1>1, <2>1, <3>5, <3>6, SegmentCounts DEF EInv
      <4> QED  BY <3>1, <3>2, <3>3, <3>4, <3>6, <4>1, <4>2
    <3>7. CASE x = cmd
      <4>1. c \in Sent(cmd) /\ Sent(cmd)' = Sent(cmd) \ {c}
        BY <1>1, <1>2, <1>x, <3>7 DEF Sent, EInv, MInv, Typing
      <4>2. /\ IsFiniteSet(Sent(cmd)')
            /\ Cardinality(Sent(cmd)') = Cardinality(Sent(cmd)) - 1
        BY <3>1, <4>1, FS_RemoveElement
      <4>3. CASE blocked
        <5>1. Cardinality(Places(wire', Evidence(cmd)))
                = Cardinality(Places(wire, Evidence(cmd)))
          BY <1>1, <1>c, <1>x, <2>1, <3>5, <3>7, <4>3, SegmentCounts DEF EInv
        <5> QED  BY <3>1, <3>2, <3>3, <3>4, <3>7, <4>2, <4>3, <5>1
      <4>4. CASE ~blocked
        <5>1. Cardinality(Places(wire', Evidence(cmd)))
                = Cardinality(Places(wire, Evidence(cmd))) + 1
          BY <1>1, <1>c, <1>x, <2>1, <3>5, <3>7, <4>4, SegmentCounts DEF EInv
        <5>2. /\ Cardinality(Places(served', Mine(cmd)))
                   = Cardinality(Places(served, Mine(cmd))) + 1
              /\ Cardinality(Places(served', Refused(cmd)))
                   = Cardinality(Places(served, Refused(cmd)))
          BY <3>2, <3>3, <3>4, <3>7, <4>4
        <5> QED  BY <3>1, <3>2, <4>2, <5>1, <5>2
      <4> QED  BY <4>3, <4>4
    <3> QED  BY <3>6, <3>7
  <2> QED  BY <1>1, <2>1 DEF Counted
<1> QED  BY <1>4, <1>5, <1>6 DEF EInv

LEMMA ServeEchoCounts ==
  ASSUME EInv, NEW p \in Protocols, ServeEcho(p)
  PROVE  EInv'
<1>1. MInv' /\ HasRead(p) /\ Answer(p, unread[serving[p]], FALSE)
  BY ServeEchoKeeps DEF EInv, ServeEcho
<1>2. /\ serving[p] \in Clients /\ command[serving[p]] \in Commands
      /\ unread[serving[p]] = FrameOf(command[serving[p]])
  BY <1>1, ReadsFrame DEF EInv
<1>3. unread[serving[p]] \in Seq(Bytes)
  BY <1>2, FrameBytes
<1> QED  BY <1>1, <1>2, <1>3, AnswerCounts

LEMMA ServeModbusCounts ==
  ASSUME EInv, ServeModbus
  PROVE  EInv'
<1>m. MInv'
  BY ServeModbusKeeps DEF EInv
<1>0. "Modbus" \in Protocols /\ HasRead("Modbus")
  BY DEF Protocols, Port, ServeModbus
<1>c. PICK c \in Clients : c = serving["Modbus"]
  BY <1>0, ReadsFrame DEF EInv
<1>x. PICK x \in Commands : x = command[c]
  BY <1>0, <1>c, ReadsFrame DEF EInv
<1>1. x.protocol = "Modbus" /\ unread[c] = FrameOf(x)
  <2>1. c # None /\ OnceAt("Modbus")
    BY <1>0, BoundsAssumption DEF EInv, AtServer
  <2>2. c \in OpenAt("Modbus")
    BY <1>c, <2>1 DEF OnceAt
  <2> QED  BY <1>0, <1>c, <1>x, <2>2, ReadsFrame DEF EInv, OpenAt
<1>fn. PICK fn \in Bytes : fn = AsByte(x.fn)
  BY Narrowed
<1>addr. PICK addr \in Words : addr = AsWord(x.addr)
  BY Narrowed
<1>val. PICK val \in Words : val = AsWord(x.val)
  BY Narrowed
<1>b. PICK b : b = ModbusFrame(fn, addr, val)
  OBVIOUS
<1>2. FrameOf(x) = b /\ b \in Seq(Bytes) /\ unread[c] = b
  BY <1>1, <1>fn, <1>addr, <1>val, <1>b, ModbusFrameBytes DEF FrameOf
<1>pdu. PICK pdu : pdu = ModbusPdu(b)
  OBVIOUS
<1>3. /\ pdu.function = fn
      /\ ModbusFrame(pdu.function, pdu.address, pdu.value) = b
  <2>1. pdu = [function |-> fn, address |-> addr, value |-> val]
    BY <1>b, <1>pdu, PduOfFrame
  <2> QED  BY <1>b, <2>1
<1>6. pdu = ModbusPdu(unread[serving["Modbus"]])
  BY <1>2, <1>c, <1>pdu
<1>4. CASE PLC!IsBlocked(pdu)
  <2>1. Answer("Modbus", ModbusException(pdu.function), TRUE)
    BY <1>4, <1>6 DEF ServeModbus
  <2>2. ModbusException(fn) \in Seq(Bytes)
    BY ModbusExceptionBytes
  <2> QED  BY <1>0, <1>m, <1>1, <1>3, <1>c, <1>x, <1>fn, <2>1, <2>2, AnswerCounts
<1>5. CASE ~PLC!IsBlocked(pdu)
  <2>f. PICK f : f = ModbusFrame(pdu.function, pdu.address, pdu.value)
    OBVIOUS
  <2>1. Answer("Modbus", f, FALSE)
    BY <1>5, <1>6, <2>f DEF ServeModbus
  <2> QED  BY <1>0, <1>m, <1>2, <1>3, <1>c, <1>x, <2>f, <2>1, AnswerCounts
<1> QED  BY <1>4, <1>5

\* A parsed segment moves from one count to the other.
LEMMA MonitorCounts ==
  ASSUME EInv, Monitor
  PROVE  EInv'
<1>1. MInv'
  BY MonitorKeeps DEF EInv
<1>2. /\ wire \in Seq(Segments) /\ wire # <<>> /\ wire' = Tail(wire)
      /\ records \in Seq(Entries)
      /\ UNCHANGED <<backlog, serving, stage, command, unread, served>>
  BY DEF EInv, MInv, Typing, Monitor
<1>s. PICK s \in Segments : s = Head(wire)
  BY <1>2
<1>e. PICK e : e = [record |-> Parse(s.packet), cmd |-> s.cmd,
                    direction |-> s.direction]
  OBVIOUS
<1>3. Honest(s)
  BY <1>2, <1>s DEF EInv, MInv, HonestWire
<1>4. IF Skips(Parse(s.packet)) THEN records' = records
      ELSE records' = Append(records, e) /\ e \in Entries /\ e.cmd = s.cmd
  BY <1>3, <1>s, <1>e, HonestRecord DEF Monitor
<1>5. AtServer' /\ (served \in Seq(Answers))'
  BY <1>2 DEF EInv, AtServer, OnceAt, OpenAt
<1>6. Counted'
  <2>1. ASSUME NEW cmd \in Commands, Evident(cmd)
        PROVE  /\ Sent(cmd)' = Sent(cmd)
               /\ Cardinality(Places(records', Written(cmd)))
                    + Cardinality(Places(wire', Evidence(cmd)))
                  = Cardinality(Places(records, Written(cmd)))
                      + Cardinality(Places(wire, Evidence(cmd)))
    <3>1. Sent(cmd)' = Sent(cmd)
      BY <1>2 DEF Sent
    <3>2. Cardinality(Places(wire, Evidence(cmd)))
            = Cardinality(Places(wire', Evidence(cmd)))
                + (IF s \in Evidence(cmd) THEN 1 ELSE 0)
      BY <1>2, <1>s, PlacesOfTail
    <3>3. /\ Cardinality(Places(wire, Evidence(cmd))) \in Nat
          /\ Cardinality(Places(records, Written(cmd))) \in Nat
      BY CountTypes
    <3>4. Cardinality(Places(wire', Evidence(cmd))) \in Nat
      BY <1>1, PlacesFinite DEF MInv, Typing
    <3>5. s \in Evidence(cmd) <=> s.cmd = cmd /\ ~Skips(Parse(s.packet))
      BY DEF Evidence
    <3>6. CASE Skips(Parse(s.packet))
      BY <1>4, <3>1, <3>2, <3>3, <3>4, <3>5, <3>6
    <3>7. CASE ~Skips(Parse(s.packet))
      <4>1. Cardinality(Places(records', Written(cmd)))
              = Cardinality(Places(records, Written(cmd)))
                  + (IF e \in Written(cmd) THEN 1 ELSE 0)
        <5>1. records' = Append(records, e) /\ e \in Entries
          BY <1>4, <3>7
        <5> QED  BY <1>2, <5>1, PlacesOfAppend
      <4>2. e \in Written(cmd) <=> s \in Evidence(cmd)
        BY <1>4, <3>5, <3>7 DEF Written
      <4> QED  BY <3>1, <3>2, <3>3, <3>4, <4>1, <4>2
    <3> QED  BY <3>6, <3>7
  <2>2. ASSUME NEW cmd \in Commands, Evident(cmd)
        PROVE  /\ IsFiniteSet(Sent(cmd)')
               /\ Cardinality(Places(records', Written(cmd)))
                    + Cardinality(Places(wire', Evidence(cmd)))
                  = 2 * Cardinality(Places(served, Mine(cmd)))
                      - Cardinality(Places(served, Refused(cmd)))
                      + Cardinality(Sent(cmd)')
    BY <2>1, <2>2 DEF EInv, Counted
  <2> QED  BY <1>2, <2>2 DEF Counted
<1> QED  BY <1>1, <1>5, <1>6 DEF EInv

LEMMA StutterCounts ==
  ASSUME EInv, UNCHANGED vars
  PROVE  EInv'
<1>1. MInv'
  BY StutterKeeps DEF EInv
<1>2. AtServer'
  BY DEF EInv, AtServer, OnceAt, OpenAt, vars
<1>3. Counted' /\ (served \in Seq(Answers))'
  BY SameCount DEF Sent, vars
<1> QED  BY <1>1, <1>2, <1>3 DEF EInv

\* Once nothing is under way, the records are what the answers left.
LEMMA QuietCount ==
  ASSUME EInv
  PROVE  EvidenceLeft
<1> SUFFICES ASSUME Quiet, NEW cmd \in Commands, Evident(cmd)
             PROVE  Cardinality(RecordsOf(cmd))
                      = 2 * Cardinality({i \in DOMAIN served :
                                           served[i].cmd = cmd})
                          - Cardinality({i \in {k \in DOMAIN served :
                                                  served[k].cmd = cmd} :
                                           served[i].blocked})
  BY DEF EvidenceLeft
<1>1. records \in Seq(Entries) /\ served \in Seq(Answers)
  BY DEF EInv, MInv, Typing
<1>2. RecordsOf(cmd) = Places(records, Written(cmd))
  BY <1>1 DEF RecordsOf, Places, Written
<1>3. {i \in DOMAIN served : served[i].cmd = cmd} = Places(served, Mine(cmd))
  BY <1>1 DEF Places, Mine
<1>4. {i \in {k \in DOMAIN served : served[k].cmd = cmd} : served[i].blocked}
        = Places(served, Refused(cmd))
  BY <1>1 DEF Places, Refused
<1>5. Places(wire, Evidence(cmd)) = {}
  BY DEF Quiet, Places
<1>6. Sent(cmd) = {}
  BY DEF Quiet, Sent, EInv, MInv, FramesUnread
<1>7. /\ Cardinality(Places(records, Written(cmd)))
           + Cardinality(Places(wire, Evidence(cmd)))
         = 2 * Cardinality(Places(served, Mine(cmd)))
             - Cardinality(Places(served, Refused(cmd)))
             + Cardinality(Sent(cmd))
  BY DEF EInv, Counted
<1>8. Cardinality(Places(wire, Evidence(cmd))) = 0 /\ Cardinality(Sent(cmd)) = 0
  BY <1>5, <1>6, FS_EmptySet
<1>9. /\ Cardinality(Places(records, Written(cmd))) \in Nat
      /\ Cardinality(Places(served, Mine(cmd))) \in Nat
      /\ Cardinality(Places(served, Refused(cmd))) \in Nat
  BY CountTypes
<1>10. Cardinality(Places(records, Written(cmd)))
         = 2 * Cardinality(Places(served, Mine(cmd)))
             - Cardinality(Places(served, Refused(cmd)))
  BY <1>7, <1>8, <1>9
<1> QED  BY <1>2, <1>3, <1>4, <1>10

\* modbus_parser.cpp:19, iec104_parser.cpp:18-26 and the three servers' loops: for
\* any clients, commands and deaths, PRISM's records of a command number two for
\* every answered request and one for every refused one, once the wire is read.
THEOREM EvidenceIsLeft == Spec => []EvidenceLeft
<1>1. Init => EInv
  BY InitCounts
<1>2. EInv /\ [Next]_vars => EInv'
  <2> SUFFICES ASSUME EInv, [Next]_vars PROVE EInv'
    OBVIOUS
  <2>1. ASSUME NEW c \in Clients, NEW cmd \in Commands, Connect(c, cmd)
        PROVE  EInv'
    BY <2>1, ConnectCounts
  <2>2. ASSUME NEW c \in Clients, Send(c) PROVE EInv'
    BY <2>2, SendCounts
  <2>3. ASSUME NEW c \in Clients, Dies(c) PROVE EInv'
    BY <2>3, DiesCounts
  <2>4. ASSUME NEW c \in Clients, Exit(c) PROVE EInv'
    BY <2>4, ExitCounts
  <2>5. ASSUME NEW p \in Protocols, Accept(p) PROVE EInv'
    BY <2>5, AcceptCounts
  <2>6. ASSUME NEW p \in Protocols, ServeEcho(p) PROVE EInv'
    BY <2>6, ServeEchoCounts
  <2>7. ASSUME NEW p \in Protocols, DropClosed(p) PROVE EInv'
    BY <2>7, DropClosedCounts
  <2>8. CASE ServeModbus
    BY <2>8, ServeModbusCounts
  <2>9. CASE Monitor
    BY <2>9, MonitorCounts
  <2>10. CASE UNCHANGED vars
    BY <2>10, StutterCounts
  <2> QED
    BY <2>1, <2>2, <2>3, <2>4, <2>5, <2>6, <2>7, <2>8, <2>9, <2>10 DEF Next
<1>3. EInv => EvidenceLeft
  BY QuietCount
<1> QED  BY <1>1, <1>2, <1>3, PTL DEF Spec
=============================================================================
