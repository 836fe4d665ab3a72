---------------------------- MODULE ParserProofs ----------------------------
(***************************************************************************)
(* What PRISM's parsers make of every frame the simulator writes, whatever *)
(* the function, address and value in it.                                  *)
(***************************************************************************)
EXTENDS SimulatorFrames, ProtocolParsers, TLAPS

-----------------------------------------------------------------------------
(***************************************************************************)
(* Bytes in, bytes out                                                     *)
(***************************************************************************)

\* A byte and a word, by their bounds: the provers are slow on large intervals.
LEMMA BytesAre ==
  \A n : n \in Bytes <=> n \in Int /\ 0 <= n /\ n <= 255
BY DEF Bytes

LEMMA WordsAre ==
  \A n : n \in Words <=> n \in Int /\ 0 <= n /\ n <= 65535
<1>1. \A a, b : \A n : n \in a..b <=> n \in Int /\ a <= n /\ n <= b
  OBVIOUS
<1>2. PICK w \in Int : w = 65535
  OBVIOUS
<1>3. Words = 0..w
  BY <1>2 DEF Words
<1>4. \A n : n \in Words <=> n \in Int /\ 0 <= n /\ n <= w
  BY <1>1, <1>3, Zenon
<1> QED  BY <1>2, <1>4

\* Narrowing an integer of any size.
LEMMA Modulo ==
  ASSUME NEW n \in Int
  PROVE  n % 256 \in Bytes /\ n % 65536 \in Words
<1>1. n % 256 \in Int /\ 0 <= n % 256 /\ n % 256 <= 255
  OBVIOUS
<1>2. n % 65536 \in Int /\ 0 <= n % 65536 /\ n % 65536 <= 65535
  OBVIOUS
<1> QED  BY <1>1, <1>2, BytesAre, WordsAre

\* A word is its two bytes.
LEMMA HighByte ==
  ASSUME NEW n \in Words
  PROVE  n \div 256 \in Bytes /\ 256 * (n \div 256) + (n % 256) = n
<1>1. n \in Int /\ 0 <= n /\ n <= 65535
  BY WordsAre
<1>2. n \div 256 \in Int /\ 0 <= n \div 256 /\ n \div 256 <= 255
  BY <1>1
<1>3. 256 * (n \div 256) + (n % 256) = n
  BY <1>1
<1> QED  BY <1>2, <1>3, BytesAre

\* Two bytes make a word.
LEMMA TwoBytes ==
  ASSUME NEW x \in Bytes, NEW y \in Bytes
  PROVE  256 * x + y \in Words
<1>1. 256 * x + y \in Int /\ 0 <= 256 * x + y /\ 256 * x + y <= 65535
  BY DEF Bytes
<1> QED  BY <1>1, WordsAre

\* What is left of three bytes is a word.
LEMMA ThreeBytes ==
  ASSUME NEW x \in Bytes, NEW y \in Bytes, NEW z \in Bytes
  PROVE  (x + 256 * y + 65536 * z) % 65536 \in Words
<1>1. x + 256 * y + 65536 * z \in Int
  BY DEF Bytes
<1> QED  BY <1>1, Modulo

\* Whatever bytes a packet carries, its record is skipped or within the record's
\* types.
LEMMA ParseTyped ==
  ASSUME NEW p, p.payload \in Seq(Bytes), ~Skips(Parse(p))
  PROVE  Parse(p) \in Records
<1>1. \A k \in Nat : k < Len(p.payload) => At(p, k) \in Bytes
  BY DEF At
<1>2. CASE Parse(p) = ModbusParse(p)
  <2>1. ~(Len(p.payload) < 12) /\ Len(p.payload) \in Nat
    BY <1>2 DEF Skips, ModbusParse
  <2>2. At(p, 7) \in Bytes /\ At(p, 8) \in Bytes /\ At(p, 9) \in Bytes
    BY <1>1, <2>1
  <2>3. 256 * At(p, 8) + At(p, 9) \in Words
    BY <2>2, TwoBytes
  <2>4. ModbusParse(p)
          = [protocol |-> "Modbus", isRequest |-> p.dstPort = 502,
             isWrite |-> ModbusWrite(At(p, 7)), functionCode |-> At(p, 7),
             address |-> 256 * At(p, 8) + At(p, 9)]
    BY <2>1, Zenon DEF ModbusParse
  <2>5. ModbusWrite(At(p, 7)) \in BOOLEAN /\ (p.dstPort = 502) \in BOOLEAN
    BY DEF ModbusWrite
  <2> QED  BY <1>2, <2>2, <2>3, <2>4, <2>5 DEF Records
<1>3. CASE Parse(p) = DNP3Parse(p)
  <2>1. ~(Len(p.payload) < 13) /\ Len(p.payload) \in Nat
    BY <1>3 DEF Skips, DNP3Parse
  <2>2. At(p, 12) \in Bytes
    BY <1>1, <2>1
  <2>3. DNP3Parse(p)
          = [protocol |-> "DNP3", isRequest |-> (At(p, 2) \div 64) % 2 = 1,
             isWrite |-> At(p, 12) \in {2, 5, 6, 130},
             functionCode |-> At(p, 12), address |-> 0]
    BY <2>1, Zenon DEF DNP3Parse
  <2>4. (At(p, 12) \in {2, 5, 6, 130}) \in BOOLEAN
        /\ ((At(p, 2) \div 64) % 2 = 1) \in BOOLEAN /\ 0 \in Words
    BY WordsAre
  <2> QED  BY <1>3, <2>2, <2>3, <2>4 DEF Records
<1>4. CASE Parse(p) = IEC104Parse(p)
  <2>1. /\ ~(Len(p.payload) < 12 \/ At(p, 0) # 104 \/ At(p, 6) = 0)
        /\ Len(p.payload) \in Nat
    BY <1>4 DEF Skips, IEC104Parse
  <2>2. /\ At(p, 6) \in Bytes /\ At(p, 9) \in Bytes /\ At(p, 10) \in Bytes
        /\ At(p, 11) \in Bytes
    BY <1>1, <2>1
  <2>3. (At(p, 9) + 256 * At(p, 10) + 65536 * At(p, 11)) % 65536 \in Words
    BY <2>2, ThreeBytes
  <2>4. IEC104Parse(p)
          = [protocol |-> "IEC104", isRequest |-> At(p, 8) = 6,
             isWrite |-> At(p, 6) \in 45..50, functionCode |-> At(p, 6),
             address |-> (At(p, 9) + 256 * At(p, 10) + 65536 * At(p, 11))
                           % 65536]
    BY <2>1 DEF IEC104Parse
  <2>5. (At(p, 6) \in 45..50) \in BOOLEAN /\ (At(p, 8) = 6) \in BOOLEAN
    OBVIOUS
  <2> QED  BY <1>4, <2>2, <2>3, <2>4, <2>5 DEF Records
<1>5. Parse(p) # Skipped
  BY DEF Skips
<1> QED  BY <1>2, <1>3, <1>4, <1>5 DEF Parse

LEMMA ModbusFrameBytes ==
  ASSUME NEW fn \in Bytes, NEW addr \in Words, NEW val \in Words
  PROVE  ModbusFrame(fn, addr, val) \in Seq(Bytes)
<1>1. addr \in Int /\ val \in Int
  BY WordsAre
<1>2. /\ High(addr) \in Bytes /\ Low(addr) \in Bytes
      /\ High(val) \in Bytes /\ Low(val) \in Bytes
  BY <1>1, HighByte, Modulo DEF High, Low
<1>3. 0 \in Bytes /\ 1 \in Bytes /\ 6 \in Bytes
  BY DEF Bytes
<1> QED  BY <1>2, <1>3 DEF ModbusFrame

LEMMA ModbusExceptionBytes ==
  ASSUME NEW fn \in Bytes
  PROVE  ModbusException(fn) \in Seq(Bytes)
<1>1. /\ (IF fn < 128 THEN fn + 128 ELSE fn) \in Bytes
      /\ 0 \in Bytes /\ 1 \in Bytes /\ 3 \in Bytes
  BY DEF Bytes
<1> QED  BY <1>1 DEF ModbusException

\* What the PLC decodes from any bytes fits a frame again.
LEMMA PduTyped ==
  ASSUME NEW b \in Seq(Bytes)
  PROVE  /\ ModbusPdu(b).function \in Bytes
         /\ ModbusPdu(b).address \in Words /\ ModbusPdu(b).value \in Words
<1>1. CASE Len(b) < 12
  BY <1>1, BytesAre, WordsAre DEF ModbusPdu
<1>2. CASE ~(Len(b) < 12)
  <2>1. /\ b[8] \in Bytes /\ b[9] \in Bytes /\ b[10] \in Bytes
        /\ b[11] \in Bytes /\ b[12] \in Bytes
    BY <1>2
  <2>2. /\ 256 * b[9] + b[10] \in Words
        /\ 256 * b[11] + b[12] \in Words
    BY <2>1, TwoBytes
  <2> QED  BY <1>2, <2>1, <2>2 DEF ModbusPdu
<1> QED  BY <1>1, <1>2

\* The PLC decodes what the client encoded.
LEMMA PduOfFrame ==
  ASSUME NEW fn \in Bytes, NEW addr \in Words, NEW val \in Words
  PROVE  ModbusPdu(ModbusFrame(fn, addr, val))
           = [function |-> fn, address |-> addr, value |-> val]
<1>b. PICK b : b = ModbusFrame(fn, addr, val)
  OBVIOUS
<1>1. b = <<0, 1, 0, 0, 0, 6, 1, fn, addr \div 256, addr % 256, val \div 256,
            val % 256>>
  BY <1>b, Zenon DEF ModbusFrame, High, Low
<1>2. /\ Len(b) = 12 /\ b[8] = fn /\ b[9] = addr \div 256 /\ b[10] = addr % 256
      /\ b[11] = val \div 256 /\ b[12] = val % 256
  BY <1>1
<1>3. /\ 256 * (addr \div 256) + (addr % 256) = addr
      /\ 256 * (val \div 256) + (val % 256) = val
  BY HighByte
<1>4. ~(Len(b) < 12) /\ 256 * b[9] + b[10] = addr /\ 256 * b[11] + b[12] = val
  BY <1>2, <1>3
<1> QED  BY <1>b, <1>2, <1>4 DEF ModbusPdu

\* A command line: a protocol's client and three integers.
Sendable(cmd) ==
  /\ cmd.protocol \in Protocols
  /\ cmd.fn \in Int /\ cmd.addr \in Int /\ cmd.val \in Int

\* A client's integers are narrowed to what its frame has room for.
LEMMA FitsFrame ==
  ASSUME NEW cmd, Sendable(cmd)
  PROVE  /\ AsByte(cmd.fn) \in Bytes
         /\ AsWord(cmd.addr) \in Words /\ AsWord(cmd.val) \in Words
         /\ cmd.protocol \in {"Modbus", "DNP3", "IEC104"}
<1>1. cmd.fn \in Int /\ cmd.addr \in Int /\ cmd.val \in Int
      /\ cmd.protocol \in Protocols
  BY DEF Sendable
<1>2. Protocols = {"Modbus", "DNP3", "IEC104"}
  BY DEF Protocols, Port
<1> QED  BY <1>1, <1>2, Modulo DEF AsByte, AsWord

LEMMA FrameIsBytes ==
  ASSUME NEW cmd, Sendable(cmd)
  PROVE  FrameOf(cmd) \in Seq(Bytes)
<1>1. CASE cmd.protocol = "Modbus"
  BY <1>1, FitsFrame, ModbusFrameBytes DEF FrameOf
<1>2. CASE cmd.protocol = "DNP3"
  <2>1. DNP3Frame(AsByte(cmd.fn)) \in Seq(Bytes)
    <3>1. AsByte(cmd.fn) \in Bytes /\ 0 \in Bytes /\ 64 \in Bytes
          /\ 192 \in Bytes
      BY FitsFrame DEF Bytes
    <3> QED  BY <3>1 DEF DNP3Frame
  <2>2. FrameOf(cmd) = DNP3Frame(AsByte(cmd.fn))
    BY <1>2 DEF FrameOf
  <2> QED  BY <2>1, <2>2
<1>3. CASE cmd.protocol = "IEC104"
  <2>1. IEC104Frame(AsByte(cmd.fn)) \in Seq(Bytes)
    <3>1. /\ AsByte(cmd.fn) \in Bytes /\ 0 \in Bytes /\ 1 \in Bytes
          /\ 6 \in Bytes /\ 10 \in Bytes /\ 104 \in Bytes
          /\ Low(IEC104Object) \in Bytes /\ High(IEC104Object) \in Bytes
      BY FitsFrame DEF Bytes, Low, High, IEC104Object
    <3> QED  BY <3>1 DEF IEC104Frame
  <2>2. FrameOf(cmd) = IEC104Frame(AsByte(cmd.fn))
    BY <1>3 DEF FrameOf
  <2> QED  BY <2>1, <2>2
<1> QED  BY <1>1, <1>2, <1>3, FitsFrame

\* The frame of a Modbus command, as the PLC decodes it.
LEMMA CommandDecoded ==
  ASSUME NEW cmd, Sendable(cmd), cmd.protocol = "Modbus"
  PROVE  ModbusPdu(FrameOf(cmd))
           = [function |-> AsByte(cmd.fn), address |-> AsWord(cmd.addr),
              value |-> AsWord(cmd.val)]
<1>fn. PICK fn \in Bytes : fn = AsByte(cmd.fn)
  BY FitsFrame
<1>addr. PICK addr \in Words : addr = AsWord(cmd.addr)
  BY FitsFrame
<1>val. PICK val \in Words : val = AsWord(cmd.val)
  BY FitsFrame
<1>1. FrameOf(cmd) = ModbusFrame(fn, addr, val)
  BY <1>fn, <1>addr, <1>val DEF FrameOf
<1> QED  BY <1>1, <1>fn, <1>addr, <1>val, PduOfFrame

-----------------------------------------------------------------------------
(***************************************************************************)
(* What PRISM sees of a frame                                              *)
(***************************************************************************)

\* modbus_parser.cpp:18-36 on common.hpp:14-32: a Modbus request, or the echo
\* that answers it, is recorded with the function and the address it carries, as
\* a write exactly for the four write functions, as a request exactly on its way
\* to the server.
THEOREM ModbusFrameSeen ==
  ASSUME NEW fn \in Bytes, NEW addr \in Words, NEW val \in Words,
         NEW toServer \in BOOLEAN, NEW b, NEW p, NEW r
  PROVE  /\ b = ModbusFrame(fn, addr, val)
         /\ p = Packet("Modbus", toServer, b)
         /\ r = Parse(p)
         => /\ r.functionCode = fn
            /\ r.address = addr
            /\ r.isWrite <=> fn \in {5, 6, 15, 16}
            /\ r.isRequest <=> toServer
<1>b. HAVE  /\ b = ModbusFrame(fn, addr, val)
            /\ p = Packet("Modbus", toServer, b)
            /\ r = Parse(p)
<1>1. ~(Len(b) < 12) /\ b[8] = fn /\ 256 * b[9] + b[10] = addr
  <2>1. b = <<0, 1, 0, 0, 0, 6, 1, fn, addr \div 256, addr % 256, val \div 256,
              val % 256>>
    BY <1>b, Zenon DEF ModbusFrame, High, Low
  <2>2. Len(b) = 12 /\ b[8] = fn /\ b[9] = addr \div 256 /\ b[10] = addr % 256
    BY <2>1
  <2>3. 256 * (addr \div 256) + (addr % 256) = addr
    BY HighByte
  <2> QED  BY <2>2, <2>3
<1>2. /\ p.payload = b
      /\ p.dstPort = 502 <=> toServer
      /\ p.dstPort = 502 \/ p.srcPort = 502
  BY <1>b DEF Packet, Port, ClientPort
<1>3. r = ModbusParse(p)
  BY <1>2, <1>b DEF Parse, classify_protocol, Uses
<1>4. At(p, 7) = fn /\ 256 * At(p, 8) + At(p, 9) = addr
  BY <1>1, <1>2 DEF At
<1>5. ~(Len(p.payload) < 12)
  BY <1>1, <1>2, Zenon
<1>6. ModbusParse(p)
        = [protocol |-> "Modbus", isRequest |-> p.dstPort = 502,
           isWrite |-> At(p, 7) \in {5, 6, 15, 16}, functionCode |-> At(p, 7),
           address |-> 256 * At(p, 8) + At(p, 9)]
  BY <1>5, Zenon DEF ModbusParse, ModbusWrite
<1>7. r.functionCode = fn
  BY <1>3, <1>4, <1>6 DEF At
<1>8. r.address = addr
  BY <1>3, <1>4, <1>6 DEF At
<1>9. r.isWrite = (At(p, 7) \in {5, 6, 15, 16})
  BY <1>3, <1>6 DEF At
<1>10. r.isRequest = (p.dstPort = 502)
  BY <1>3, <1>6 DEF At
<1>11. r.isWrite <=> fn \in {5, 6, 15, 16}
  BY <1>4, <1>9, Zenon
<1>12. r.isRequest <=> toServer
  BY <1>2, <1>10, Zenon
<1> QED  BY <1>7, <1>8, <1>11, <1>12, Zenon

\* modbus_parser.cpp:19 on common.hpp:36-48: the exception with which the locked
\* PLC refuses a write leaves no record, whatever function it refuses.
THEOREM ExceptionUnseen ==
  ASSUME NEW fn \in Bytes
  PROVE  Parse(Packet("Modbus", FALSE, ModbusException(fn))) = Skipped
<1>b. PICK b : b = ModbusException(fn)
  OBVIOUS
<1>p. PICK p : p = Packet("Modbus", FALSE, b)
  OBVIOUS
<1>1. Len(b) < 12
  BY <1>b DEF ModbusException
<1>2. p.payload = b /\ p.srcPort = 502
  BY <1>p DEF Packet, Port
<1>3. Parse(p) = ModbusParse(p)
  BY <1>2 DEF Parse, classify_protocol, Uses
<1>4. Len(p.payload) < 12
  BY <1>1, <1>2
<1>5. ModbusParse(p) = Skipped
  BY <1>4, Zenon DEF ModbusParse
<1> QED  BY <1>3, <1>5, <1>b, <1>p, Zenon

\* dnp3_parser.cpp:19 on client.cpp:41-52 of dnp3: no DNP3 request or echo of
\* the simulator leaves a record, whatever its function.
THEOREM DNP3NeverSeen ==
  ASSUME NEW func \in Bytes, NEW toServer \in BOOLEAN
  PROVE  Parse(Packet("DNP3", toServer, DNP3Frame(func))) = Skipped
<1>b. PICK b : b = DNP3Frame(func)
  OBVIOUS
<1>p. PICK p : p = Packet("DNP3", toServer, b)
  OBVIOUS
<1>1. Len(b) < 13
  BY <1>b DEF DNP3Frame
<1>2. /\ p.payload = b
      /\ p.dstPort # 502 /\ p.srcPort # 502
      /\ p.dstPort = 20000 \/ p.srcPort = 20000
  BY <1>p DEF Packet, Port, ClientPort
<1>3. Parse(p) = DNP3Parse(p)
  BY <1>2 DEF Parse, classify_protocol, Uses
<1>4. Len(p.payload) < 13
  BY <1>1, <1>2
<1>5. DNP3Parse(p) = Skipped
  BY <1>4, Zenon DEF DNP3Parse
<1> QED  BY <1>3, <1>5, <1>b, <1>p, Zenon

\* iec104_parser.cpp:33 on the frames of iec104/client.cpp: the address is read one
\* byte before the client writes it and its third byte is cut off, so that every
\* request and echo on the object 16 is recorded with the address 4097.
THEOREM IEC104AddressShifted ==
  ASSUME NEW typeId \in Bytes \ {0}, NEW toServer \in BOOLEAN
  PROVE  /\ Parse(Packet("IEC104", toServer, IEC104Frame(typeId))).address = 4097
         /\ IEC104Object = 16
<1>b. PICK b : b = IEC104Frame(typeId)
  OBVIOUS
<1>p. PICK p : p = Packet("IEC104", toServer, b)
  OBVIOUS
<1>1. /\ Len(b) = 12 /\ b[1] = 104 /\ b[7] = typeId
      /\ b[10] = 1 /\ b[11] = Low(IEC104Object) /\ b[12] = High(IEC104Object)
  BY <1>b DEF IEC104Frame
<1>2. Low(IEC104Object) = 16 /\ High(IEC104Object) = 0
  BY DEF Low, High, IEC104Object
<1>3. /\ p.payload = b
      /\ p.dstPort # 502 /\ p.srcPort # 502
      /\ p.dstPort # 20000 /\ p.srcPort # 20000
      /\ p.dstPort = 2404 \/ p.srcPort = 2404
  BY <1>p DEF Packet, Port, ClientPort
<1>4. Parse(p) = IEC104Parse(p)
  BY <1>3 DEF Parse, classify_protocol, Uses
<1>5. /\ ~(Len(p.payload) < 12 \/ At(p, 0) # 104 \/ At(p, 6) = 0)
      /\ At(p, 9) = 1 /\ At(p, 10) = 16 /\ At(p, 11) = 0
  <2>1. p.payload = b
    BY <1>3
  <2>2. /\ At(p, 0) = b[1] /\ At(p, 6) = b[7]
        /\ At(p, 9) = b[10] /\ At(p, 10) = b[11] /\ At(p, 11) = b[12]
    BY <2>1 DEF At
  <2>3. Len(p.payload) = 12 /\ typeId # 0
    BY <1>1, <2>1
  <2> QED  BY <1>1, <1>2, <2>2, <2>3
<1>6. IEC104Parse(p).address
        = (At(p, 9) + 256 * At(p, 10) + 65536 * At(p, 11)) % 65536
  BY <1>5 DEF IEC104Parse
<1>7. (1 + 256 * 16 + 65536 * 0) % 65536 = 4097
  OBVIOUS
<1>8. Parse(p).address = 4097
  BY <1>4, <1>5, <1>6, <1>7
<1> QED  BY <1>8, <1>b, <1>p DEF IEC104Object

\* A command whose request and echo PRISM records as reads.
IsRead(cmd) ==
  \/ cmd.protocol = "Modbus" /\ ~ModbusWrite(AsByte(cmd.fn))
  \/ cmd.protocol = "IEC104" /\ AsByte(cmd.fn) # 0
       /\ ~(AsByte(cmd.fn) \in 45..50)

\* A segment without payload leaves no record, whatever its ports.
LEMMA EmptySkipped ==
  ASSUME NEW protocol, NEW toServer
  PROVE  Skips(Parse(Packet(protocol, toServer, <<>>)))
<1> DEFINE p == Packet(protocol, toServer, <<>>)
<1>1. p.payload = <<>>
  BY DEF Packet
<1>2. Len(p.payload) < 12 /\ Len(p.payload) < 13
  BY <1>1
<1> HIDE DEF p
<1>3. ModbusParse(p) = Skipped /\ DNP3Parse(p) = Skipped
      /\ IEC104Parse(p) = Skipped
  <2>1. ModbusParse(p) = Skipped
    BY <1>2, Zenon DEF ModbusParse
  <2>2. DNP3Parse(p) = Skipped
    BY <1>2, Zenon DEF DNP3Parse
  <2>3. IEC104Parse(p) = Skipped
    <3>1. Len(p.payload) < 12 \/ At(p, 0) # 104 \/ At(p, 6) = 0
      BY <1>2
    <3> QED  BY <3>1 DEF IEC104Parse
  <2> QED  BY <2>1, <2>2, <2>3
<1>4. Parse(p) = Skipped
  BY <1>3, Zenon DEF Parse
<1> QED  BY <1>4 DEF Skips, p

\* A Modbus or IEC104 command leaves a record on its way to the server and on its
\* way back, as a write exactly when its function is one.
LEMMA CommandRecorded ==
  ASSUME NEW cmd, Sendable(cmd), NEW toServer \in BOOLEAN,
         \/ cmd.protocol = "Modbus"
         \/ cmd.protocol = "IEC104" /\ AsByte(cmd.fn) # 0
  PROVE  LET r == Parse(Packet(cmd.protocol, toServer, FrameOf(cmd)))
         IN  /\ ~Skips(r)
             /\ r.isWrite <=>
                  \/ cmd.protocol = "Modbus" /\ ModbusWrite(AsByte(cmd.fn))
                  \/ cmd.protocol = "IEC104" /\ AsByte(cmd.fn) \in 45..50
<1> DEFINE p == Packet(cmd.protocol, toServer, FrameOf(cmd))
<1>1. p.payload = FrameOf(cmd)
  BY DEF Packet
<1>2. CASE cmd.protocol = "Modbus"
  <2>1. PICK b : /\ b = FrameOf(cmd)
                 /\ b = ModbusFrame(AsByte(cmd.fn), AsWord(cmd.addr),
                                    AsWord(cmd.val))
    BY <1>2 DEF FrameOf
  <2>2. Len(b) = 12 /\ b[8] = AsByte(cmd.fn)
    BY <2>1 DEF ModbusFrame
  <2>3. Uses(p, 502)
    BY <1>2 DEF Packet, Uses, Port
  <2> HIDE DEF p
  <2>4. Parse(p) = ModbusParse(p)
    BY <2>3 DEF Parse, classify_protocol
  <2>5. ~(Len(p.payload) < 12) /\ At(p, 7) = AsByte(cmd.fn)
    BY <1>1, <2>1, <2>2 DEF At
  <2>6. /\ ModbusParse(p).protocol = "Modbus"
        /\ ModbusParse(p).isWrite <=> ModbusWrite(AsByte(cmd.fn))
    BY <2>5 DEF ModbusParse
  <2> QED  BY <1>2, <2>4, <2>6 DEF Skips, Skipped, p
<1>3. CASE cmd.protocol = "IEC104" /\ AsByte(cmd.fn) # 0
  <2>1. PICK b : b = FrameOf(cmd) /\ b = IEC104Frame(AsByte(cmd.fn))
    BY <1>3 DEF FrameOf
  <2>2. Len(b) = 12 /\ b[1] = 104 /\ b[7] = AsByte(cmd.fn)
    BY <2>1 DEF IEC104Frame
  <2>3. Uses(p, 2404) /\ ~Uses(p, 502) /\ ~Uses(p, 20000)
    BY <1>3 DEF Packet, Uses, Port, ClientPort
  <2> HIDE DEF p
  <2>4. Parse(p) = IEC104Parse(p)
    BY <2>3 DEF Parse, classify_protocol
  <2>5. /\ ~(Len(p.payload) < 12) /\ At(p, 6) = AsByte(cmd.fn)
        /\ At(p, 0) = 104
    BY <1>1, <2>1, <2>2 DEF At
  <2>6. /\ IEC104Parse(p).protocol = "IEC104"
        /\ IEC104Parse(p).isWrite <=> AsByte(cmd.fn) \in 45..50
    <3>1. ~(Len(p.payload) < 12 \/ At(p, 0) # 104 \/ At(p, 6) = 0)
      BY <1>3, <2>5
    <3>2. IEC104Parse(p)
            = [protocol |-> "IEC104", isRequest |-> At(p, 8) = 6,
               isWrite |-> At(p, 6) \in 45..50, functionCode |-> At(p, 6),
               address |-> (At(p, 9) + 256 * At(p, 10) + 65536 * At(p, 11))
                             % 65536]
      BY <3>1 DEF IEC104Parse
    <3>3. IEC104Parse(p).protocol = "IEC104"
          /\ IEC104Parse(p).isWrite = (At(p, 6) \in 45..50)
      BY <3>2
    <3> QED  BY <2>5, <3>3, Zenon
  <2>7. cmd.protocol # "Modbus"
    BY <1>3
  <2> QED  BY <1>3, <2>4, <2>6, <2>7 DEF Skips, Skipped, p
<1> QED  BY <1>2, <1>3

\* A read leaves a record on its way to the server and on its way back.
LEMMA ReadRecorded ==
  ASSUME NEW cmd, Sendable(cmd), IsRead(cmd), NEW toServer \in BOOLEAN
  PROVE  LET r == Parse(Packet(cmd.protocol, toServer, FrameOf(cmd)))
         IN  ~Skips(r) /\ ~r.isWrite
<1>1. \/ cmd.protocol = "Modbus"
      \/ cmd.protocol = "IEC104" /\ AsByte(cmd.fn) # 0
  BY DEF IsRead
<1>2. /\ ~(cmd.protocol = "Modbus" /\ ModbusWrite(AsByte(cmd.fn)))
      /\ ~(cmd.protocol = "IEC104" /\ AsByte(cmd.fn) \in 45..50)
  BY DEF IsRead
<1> QED  BY <1>1, <1>2, CommandRecorded
=============================================================================
