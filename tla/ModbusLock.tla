------------------------------ MODULE ModbusLock ------------------------------
(***************************************************************************)
(* What the simulated PLC decides about a request: the safety coil and the *)
(* write lock of start_server in src/PRISM_simulator/proto/modbus/         *)
(* server.cpp.  The modules that have a PLC share these definitions and    *)
(* add their own steps: ModbusServer with its queue and its connections,   *)
(* MonitoredPlant with the frames, DetectionPipeline with what they leave  *)
(* on the wire.                                                            *)
(***************************************************************************)
EXTENDS Integers

VARIABLE writeLocked   \* write_locked

\* PDU of common.hpp: what encode_mbap_pdu writes and decode_mbap_pdu reads.
Frames == [function : 0..255, address : 0..65535, value : 0..65535]

IsWriteFc(f) == f.function \in {5, 6, 15, 16}

\* FC5 on coil 0xFFFF, with the two values the handler reacts to.
IsSafetyCoil(f) == f.address = 65535 /\ f.function = 5
IsEngage(f) == IsSafetyCoil(f) /\ f.value = 65280
IsRelease(f) == IsSafetyCoil(f) /\ f.value = 0

\* Mutant: the lock is tested before the safety coil.
IsBlocked_LockFirst(f) == writeLocked /\ IsWriteFc(f)

\* Mutant: FC5 is not a write.
IsBlocked_NotCoils(f) ==
  ~IsSafetyCoil(f) /\ writeLocked /\ f.function \in {6, 15, 16}

\* The safety coil is tested first, the lock second.
IsBlocked(f) == ~IsSafetyCoil(f) /\ writeLocked /\ IsWriteFc(f)

\* Mutant: the handler waits for another value than the one PRISM sends.
LockAfter_OtherValue(f) ==
  (IsSafetyCoil(f) /\ f.value = 255) \/ (writeLocked /\ ~IsRelease(f))

\* Mutant: every value but the release engages.
LockAfter_AnyValue(f) ==
  (IsSafetyCoil(f) /\ ~IsRelease(f)) \/ (writeLocked /\ ~IsRelease(f))

LockAfter(f) == IsEngage(f) \/ (writeLocked /\ ~IsRelease(f))
=============================================================================
