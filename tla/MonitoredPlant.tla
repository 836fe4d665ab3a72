---------------------------- MODULE MonitoredPlant ----------------------------
(***************************************************************************)
(* The plant and what PRISM sees of it: the simulator's Modbus, DNP3 and   *)
(* IEC104 servers and clients (src/PRISM_simulator/proto/) exchange frames *)
(* over TCP, PRISM captures every segment in the order of the wire and     *)
(* parses it some time later.  The three servers run the same loop: accept,*)
(* read one frame, answer, close.  Clients may die at any point; the death *)
(* of a program of the plant is left to SafetyLock and HmiApi.             *)
(***************************************************************************)
EXTENDS Integers, Sequences, FiniteSets, SimulatorFrames, ProtocolParsers

CONSTANTS
  Clients,      \* command-line clients that run side by side
  Commands,     \* what they may be started with
  MaxSessions,  \* bound: clients started in all
  None          \* nobody

VARIABLES
  writeLocked,  \* write_locked of the Modbus server
  backlog,      \* for each server, connections accept has not returned
  serving,      \* for each server, the accepted connection or None
  stage,        \* for each client, how far run_client has come
  command,      \* for each client, what it was started with
  unread,       \* for each client, the frame its server has not read yet
  wire,         \* captured segments that PRISM has not read
  records,      \* the records PRISM has parsed
  served,       \* history: what the servers made of the requests they read
  sessions      \* clients started so far

vars == <<writeLocked, backlog, serving, stage, command, unread, wire, records,
          served, sessions>>

PLC == INSTANCE ModbusLock

\* The PLC once its lock is engaged.
LockedPLC == INSTANCE ModbusLock WITH writeLocked <- TRUE

ASSUME CommandsAssumption ==
  Commands \subseteq [protocol : Protocols, fn : Int, addr : Int, val : Int]
ASSUME BoundsAssumption == MaxSessions \in Nat /\ None \notin Clients \cup Commands

\* A segment on the wire, and which command it belongs to.
Segment(cmd, direction, payload) ==
  [packet |-> Packet(cmd.protocol, direction = "request", payload),
   cmd |-> cmd, direction |-> direction]

TypeOK ==
  /\ writeLocked \in BOOLEAN
  /\ backlog \in [Protocols -> Seq(Clients)]
  /\ serving \in [Protocols -> Clients \cup {None}]
  /\ stage \in [Clients -> {"idle", "connected", "waiting", "gone", "closed"}]
  /\ \A c \in Clients : command[c] = None <=> stage[c] = "idle"
  /\ \A i \in DOMAIN records : records[i].record \in Records
  /\ sessions \in 0..MaxSessions

Init ==
  /\ writeLocked = FALSE
  /\ backlog = [p \in Protocols |-> <<>>]
  /\ serving = [p \in Protocols |-> None]
  /\ stage = [c \in Clients |-> "idle"]
  /\ command = [c \in Clients |-> None]
  /\ unread = [c \in Clients |-> <<>>]
  /\ wire = <<>>
  /\ records = <<>>
  /\ served = <<>>
  /\ sessions = 0

-----------------------------------------------------------------------------
\* The clients

\* socket, connect: the handshake's segments carry no payload.
Connect(c, cmd) ==
  /\ sessions < MaxSessions
  /\ stage[c] = "idle"
  /\ stage' = [stage EXCEPT ![c] = "connected"]
  /\ command' = [command EXCEPT ![c] = cmd]
  /\ backlog' = [backlog EXCEPT ![cmd.protocol] = Append(@, c)]
  /\ wire' = Append(wire, Segment(cmd, "request", <<>>))
  /\ sessions' = sessions + 1
  /\ UNCHANGED <<writeLocked, serving, unread, records, served>>

\* Build the frame and write it.
Send(c) ==
  /\ stage[c] = "connected"
  /\ stage' = [stage EXCEPT ![c] = "waiting"]
  /\ unread' = [unread EXCEPT ![c] = FrameOf(command[c])]
  /\ wire' = Append(wire, Segment(command[c], "request",
                                  FrameOf(command[c])))
  /\ UNCHANGED <<writeLocked, backlog, serving, command, records, served,
                 sessions>>

\* The process is killed, or its machine resets the connection: what it has
\* written stays readable, the server learns of its end by a read that returns
\* no byte.
Dies(c) ==
  /\ stage[c] \in {"connected", "waiting"}
  /\ stage' = [stage EXCEPT ![c] = "gone"]
  /\ UNCHANGED <<writeLocked, backlog, serving, command, unread, wire, records,
                 served, sessions>>

\* The server has closed the connection.  What was read is ignored and the
\* process ends, if it still runs.
Exit(c) ==
  /\ stage[c] = "closed"
  /\ stage' = [stage EXCEPT ![c] = "idle"]
  /\ command' = [command EXCEPT ![c] = None]
  /\ UNCHANGED <<writeLocked, backlog, serving, unread, wire, records, served,
                 sessions>>

-----------------------------------------------------------------------------
\* The servers

Accept(p) ==
  /\ serving[p] = None
  /\ backlog[p] # <<>>
  /\ serving' = [serving EXCEPT ![p] = Head(backlog[p])]
  /\ backlog' = [backlog EXCEPT ![p] = Tail(@)]
  /\ UNCHANGED <<writeLocked, stage, command, unread, wire, records, served,
                 sessions>>

\* read returns c's frame: answer with the given payload and close.
Answer(p, payload, blocked) ==
  LET c == serving[p]
  IN  /\ stage' = [stage EXCEPT ![c] = "closed"]
      /\ unread' = [unread EXCEPT ![c] = <<>>]
      /\ serving' = [serving EXCEPT ![p] = None]
      /\ wire' = Append(wire, Segment(command[c], "response", payload))
      /\ served' = Append(served,
           [cmd |-> command[c], blocked |-> blocked,
            logged |-> LoggedFunction(p, unread[c])])
      /\ UNCHANGED <<backlog, command, records, sessions>>

HasRead(p) == serving[p] # None /\ unread[serving[p]] # <<>>

\* The Modbus server: safety coil, lock, echo.
ServeModbus ==
  /\ HasRead("Modbus")
  /\ LET b   == unread[serving["Modbus"]]
         pdu == ModbusPdu(b)
     IN  IF PLC!IsBlocked(pdu)
         THEN /\ Answer("Modbus", ModbusException(pdu.function), TRUE)
              /\ UNCHANGED writeLocked
         ELSE /\ Answer("Modbus",
                        ModbusFrame(pdu.function, pdu.address, pdu.value),
                        FALSE)
              /\ writeLocked' = PLC!LockAfter(pdu)

\* The DNP3 and IEC104 servers log the function and echo the frame.
ServeEcho(p) ==
  /\ p \in {"DNP3", "IEC104"}
  /\ HasRead(p)
  /\ Answer(p, unread[serving[p]], FALSE)
  /\ UNCHANGED writeLocked

\* Mutant: the buffer outlives the connection and its last frame is echoed.
DropClosed_Echoes(p) ==
  /\ serving[p] # None
  /\ stage[serving[p]] = "gone"
  /\ unread[serving[p]] = <<>>
  /\ stage' = [stage EXCEPT ![serving[p]] = "closed"]
  /\ serving' = [serving EXCEPT ![p] = None]
  /\ wire' = Append(wire, Segment(command[serving[p]], "response",
                                  FrameOf(command[serving[p]])))
  /\ UNCHANGED <<writeLocked, backlog, command, unread, records, served,
                 sessions>>

\* read returns 0 or -1: close.  The Modbus and DNP3 servers test it; the IEC104
\* server hands it to write, which sends nothing for 0 and fails for -1.
DropClosed(p) ==
  /\ serving[p] # None
  /\ stage[serving[p]] = "gone"
  /\ unread[serving[p]] = <<>>
  /\ stage' = [stage EXCEPT ![serving[p]] = "closed"]
  /\ serving' = [serving EXCEPT ![p] = None]
  /\ UNCHANGED <<writeLocked, backlog, command, unread, wire, records, served,
                 sessions>>

-----------------------------------------------------------------------------
\* PRISM

\* nextPacket, classify, parse; a skipped record leaves no trace.
Monitor ==
  /\ wire # <<>>
  /\ wire' = Tail(wire)
  /\ LET s == Head(wire)
         r == Parse(s.packet)
     IN  records' = IF Skips(r) THEN records
                    ELSE Append(records, [record |-> r, cmd |-> s.cmd,
                                          direction |-> s.direction])
  /\ UNCHANGED <<writeLocked, backlog, serving, stage, command, unread, served,
                 sessions>>

-----------------------------------------------------------------------------

Next ==
  \/ \E c \in Clients :
       \/ \E cmd \in Commands : Connect(c, cmd)
       \/ Send(c)
       \/ Dies(c)
       \/ Exit(c)
  \/ \E p \in Protocols : Accept(p) \/ ServeEcho(p) \/ DropClosed(p)
  \/ ServeModbus
  \/ Monitor

Spec == Init /\ [][Next]_vars

-----------------------------------------------------------------------------
(***************************************************************************)
(* Properties                                                              *)
(***************************************************************************)

Quiet == wire = <<>> /\ \A c \in Clients : stage[c] = "idle"

RecordsOf(cmd) == {i \in DOMAIN records : records[i].cmd = cmd}

\* PRISM counts as a write what the PLC refuses under its lock, and besides only
\* the safety coil, which is a coil write that the lock lets through (server.cpp:54):
\* the two lists of function codes (modbus_parser.cpp:33, server.cpp:13) and the
\* two decoders agree on every request, whatever the command line's integers were
\* narrowed to (cli.cpp:74-82), and only requests are requests.
WriteViewsAgree ==
  \A i \in DOMAIN records :
    LET r == records[i].record
        cmd == records[i].cmd
        pdu == ModbusPdu(FrameOf(cmd))
    IN  cmd.protocol = "Modbus" =>
          /\ r.functionCode = pdu.function /\ r.address = pdu.address
          /\ r.isWrite <=> LockedPLC!IsBlocked(pdu) \/ PLC!IsSafetyCoil(pdu)
          /\ r.isRequest <=> records[i].direction = "request"

\* IEC104Parser ignores the type 0, which a command line's 256 is narrowed to.
Evident(cmd) ==
  \/ cmd.protocol = "Modbus"
  \/ cmd.protocol = "IEC104" /\ AsByte(cmd.fn) # 0

\* How much evidence traffic leaves (modbus_parser.cpp:19, iec104_parser.cpp:18-26,
\* iec104/server.cpp:61): once everything is parsed, a Modbus command that reached
\* its server has left a record for its request and one for its echo; an exception
\* of the locked PLC, nine bytes, leaves none, neither do the segments without
\* payload, nor a client that died before it wrote.  IEC104 leaves two.
EvidenceLeft ==
  Quiet =>
    \A cmd \in {c \in Commands : Evident(c)} :
      LET mine == {i \in DOMAIN served : served[i].cmd = cmd}
          blocked == {i \in mine : served[i].blocked}
      IN  Cardinality(RecordsOf(cmd))
            = 2 * Cardinality(mine) - Cardinality(blocked)

\* PRISM_simulator/README.md:148 "FC exposed to PRISM parser", client.cpp:49 of
\* dnp3 "function code (PRISM expects here)": a DNP3 request that the server has
\* answered is in PRISM's records under the function the server logged.
DNP3Exposed ==
  Quiet =>
    \A i \in DOMAIN served :
      served[i].cmd.protocol = "DNP3" =>
        \E j \in RecordsOf(served[i].cmd) :
          records[j].record.functionCode = served[i].logged
=============================================================================
