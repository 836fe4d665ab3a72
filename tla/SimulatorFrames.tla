---------------------------- MODULE SimulatorFrames ----------------------------
(***************************************************************************)
(* What the simulator's clients write and how its servers read it: the     *)
(* frame builders and decoders of src/PRISM_simulator/proto/.  A frame is  *)
(* a sequence of bytes.                                                    *)
(***************************************************************************)
EXTENDS Integers, Sequences

\* The ports the API starts the servers and the clients with.
Port == [Modbus |-> 502, DNP3 |-> 20000, IEC104 |-> 2404]

Protocols == DOMAIN Port

ClientPort == 50000   \* any ephemeral port

\* What a client or a server sends, as PRISM's capture returns it.
Packet(protocol, toServer, payload) ==
  [srcPort |-> IF toServer THEN ClientPort ELSE Port[protocol],
   dstPort |-> IF toServer THEN Port[protocol] ELSE ClientPort,
   payload |-> payload]

High(n) == n \div 256
Low(n)  == n % 256

\* A Modbus request, and the echo a server answers with.
ModbusFrame(fn, addr, val) ==
  <<0, 1, 0, 0, 0, 6, 1, fn, High(addr), Low(addr), High(val), Low(val)>>

\* A Modbus exception: nine bytes, bit 0x80 set in the function code.
ModbusException(fn) ==
  <<0, 1, 0, 0, 0, 3, 1, IF fn < 128 THEN fn + 128 ELSE fn, 1>>

DNP3Frame(func) == <<0, 0, 64, 0, 0, 0, func, 192, 0, 0, 0, 0>>

\* The object address is always 16 and takes bytes 10 and 11; byte 9 is a
\* dummy station address.
IEC104Object == 16

IEC104Frame(typeId) ==
  <<104, 10, 0, 0, 0, 0, typeId, 1, 6, 1, Low(IEC104Object),
    High(IEC104Object)>>

\* The integers of the command line are narrowed by a static_cast.
AsByte(n) == n % 256
AsWord(n) == n % 65536

\* What a client is started to send: run_cli hands its arguments to the
\* run_client of the protocol.
FrameOf(cmd) ==
  CASE cmd.protocol = "Modbus" ->
         ModbusFrame(AsByte(cmd.fn), AsWord(cmd.addr), AsWord(cmd.val))
    [] cmd.protocol = "DNP3"   -> DNP3Frame(AsByte(cmd.fn))
    [] cmd.protocol = "IEC104" -> IEC104Frame(AsByte(cmd.fn))

\* decode_mbap_pdu: a short request decodes to zeros.
ModbusPdu(b) ==
  IF Len(b) < 12 THEN [function |-> 0, address |-> 0, value |-> 0]
  ELSE [function |-> b[8], address |-> 256 * b[9] + b[10],
        value |-> 256 * b[11] + b[12]]

\* The function a server logs (decode_and_log, and start_server of IEC104).
LoggedFunction(protocol, b) ==
  CASE protocol = "Modbus" -> ModbusPdu(b).function
    [] protocol \in {"DNP3", "IEC104"} -> b[7]
=============================================================================
