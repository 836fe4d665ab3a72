---------------------------- MODULE ProtocolParsers ----------------------------
(***************************************************************************)
(* What PRISM makes of a captured packet: classify_protocol and the three  *)
(* parse functions of src/PRISM/src/parser/.  A packet keeps its ports and *)
(* its payload, a sequence of bytes; a record leaves out the timestamp.    *)
(***************************************************************************)
EXTENDS Integers, Sequences

Bytes == 0..255
Words == 0..65535

\* The byte at an offset of the payload, counted from zero as in the code.
At(p, offset) == p.payload[offset + 1]

\* Mutant: only the destination tells the protocol.
Uses_ToServer(p, port) == p.dstPort = port

Uses(p, port) == p.srcPort = port \/ p.dstPort = port

classify_protocol(p) ==
  IF Uses(p, 502) THEN "Modbus"
  ELSE IF Uses(p, 20000) THEN "DNP3"
  ELSE IF Uses(p, 2404) THEN "IEC104"
  ELSE "Unknown"

Records == [protocol : {"Modbus", "DNP3", "IEC104"}, isRequest : BOOLEAN,
            isWrite : BOOLEAN, functionCode : Bytes, address : Words]

\* A record the packet loop skips: protocol "Unknown" or empty (main.cpp:168).
Skipped == [protocol |-> "Unknown", isRequest |-> TRUE, isWrite |-> FALSE,
            functionCode |-> 0, address |-> 0]

\* Mutant: records of unknown protocol are passed on.
Skips_Never(r) == FALSE

Skips(r) == r = Skipped

\* Mutant: every code from 5 on is a write.
ModbusWrite_FromFive(fc) == fc >= 5

ModbusWrite(fc) == fc \in {5, 6, 15, 16}

ModbusParse(p) ==
  IF Len(p.payload) < 12 THEN Skipped
  ELSE [protocol |-> "Modbus", isRequest |-> p.dstPort = 502,
        isWrite |-> ModbusWrite(At(p, 7)), functionCode |-> At(p, 7),
        address |-> 256 * At(p, 8) + At(p, 9)]

\* DIR is bit 0x40 of the control byte.
DNP3Parse(p) ==
  IF Len(p.payload) < 13 THEN Skipped
  ELSE [protocol |-> "DNP3", isRequest |-> (At(p, 2) \div 64) % 2 = 1,
        isWrite |-> At(p, 12) \in {2, 5, 6, 130}, functionCode |-> At(p, 12),
        address |-> 0]

\* The 24-bit object address is stored in 16 bits.
IEC104Parse(p) ==
  IF Len(p.payload) < 12 \/ At(p, 0) # 104 \/ At(p, 6) = 0 THEN Skipped
  ELSE [protocol |-> "IEC104", isRequest |-> At(p, 8) = 6,
        isWrite |-> At(p, 6) \in 45..50, functionCode |-> At(p, 6),
        address |-> (At(p, 9) + 256 * At(p, 10) + 65536 * At(p, 11)) % 65536]

\* The packet loop's choice of a parser (main.cpp:155-168).
Parse(p) ==
  LET protocol == classify_protocol(p)
  IN  IF protocol = "Modbus" THEN ModbusParse(p)
      ELSE IF protocol = "DNP3" THEN DNP3Parse(p)
      ELSE IF protocol = "IEC104" THEN IEC104Parse(p)
      ELSE Skipped
=============================================================================
