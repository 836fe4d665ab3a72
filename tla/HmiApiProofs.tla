----------------------------- MODULE HmiApiProofs -----------------------------
(***************************************************************************)
(* What the API's goroutines and processes do and do not, for any number   *)
(* of requests, any counts and delays, any backlogs and faults.            *)
(***************************************************************************)
EXTENDS HmiApi, FiniteSetTheorems, TLAPS

USE DEF plantVars, hmiVars

-----------------------------------------------------------------------------
(***************************************************************************)
(* The invariant                                                           *)
(***************************************************************************)

\* A command of a request has a name; it is started once the loop has passed it.
Named ==
  /\ \A j \in Jobs : job[j] # None =>
       \A k \in DOMAIN job[j].cmds : <<j, k>> \in Processes
  /\ \A p \in Processes : process[p] # "none" =>
       job[p[1]] # None /\ p[2] \in 1..(job[p[1]].next - 1)

\* Once a command has failed the table is full, and it never empties.
TableFull ==
  /\ IsFiniteSet(InTable)
  /\ (\E p \in Processes : process[p] = "failed") =>
       Cardinality(InTable) >= PidLimit

\* The queues hold the processes that wait, each once and at its server; a
\* client that died waits too.
Queues ==
  /\ \A s \in Servers : \A i \in DOMAIN queue[s] :
       /\ process[queue[s][i]] \in {"queued", "lost"}
       /\ Target(queue[s][i]) = s
       /\ \A k \in DOMAIN queue[s] : queue[s][k] = queue[s][i] => k = i
  /\ \A p \in Processes : process[p] = "queued" =>
       \E i \in DOMAIN queue[Target(p)] : queue[Target(p)][i] = p

Paced(j) == job[j] # None /\ job[j].delay - job[j].jitter > Latency

\* Of two commands of a paced request, p is the earlier.
Earlier(p, q) == p[1] = q[1] /\ Paced(p[1]) /\ p[2] < q[2]

\* The pause after a command gives its process the time to connect.
Pace ==
  /\ \A p \in Processes : process[p] = "none" => age[p] = 0
  /\ \A p \in Processes : Paced(p[1]) /\ process[p] = "running" =>
       age[p] + job[p[1]].sleep > Latency
  /\ \A p, q \in Processes :
       Earlier(p, q) /\ process[q] # "none" /\ process[p] = "running" =>
         age[p] > Latency

\* A process that connected in time is served before any later command's.
Order ==
  \A p, q \in Processes :
    /\ process[p] = "queued" /\ process[q] # "none" /\ age[p] <= Latency
    /\ Earlier(p, q) /\ Target(p) = Target(q)
    => /\ process[q] # "served"
       /\ \A b \in DOMAIN queue[Target(p)] : queue[Target(p)][b] = q =>
            \E a \in DOMAIN queue[Target(p)] : a < b /\ queue[Target(p)][a] = p

\* A server is started once in the life of its container.
StartsOnce ==
  /\ plant = "down" => \A s \in Servers : server[s] = "absent"
  /\ \A i \in DOMAIN toStart : server[toStart[i]] = "absent"

HInv == TypeOK /\ StartsOnce /\ Named /\ TableFull /\ Queues /\ Pace /\ Order

-----------------------------------------------------------------------------
(***************************************************************************)
(* Requests and names                                                      *)
(***************************************************************************)

LEMMA ProcessNames ==
  \A p \in Processes : p[1] \in Jobs /\ p = <<p[1], p[2]>>
<1>1. PICK S : Processes = Jobs \X S
  BY DEF Processes
<1> QED  BY <1>1

\* A handler's goroutine is at the first of its commands.
LEMMA HandledTyped ==
  ASSUME NEW g \in Handled
  PROVE  g \in Goroutines /\ g.next = 1 /\ g.sleep = 0
<1>0. "Modbus" \in Servers /\ "DNP3" \in Servers
  BY DEF Servers, StartOrder
<1>1. CASE \E p \in {"Modbus", "DNP3"}, n \in Counts, d \in Delays :
             g = RequestHandler(p, n, d)
  <2>1. PICK p \in {"Modbus", "DNP3"}, n \in Counts, d \in Delays :
               g = RequestHandler(p, n, d)
    BY <1>1
  <2>2. n \in Int /\ d \in Int /\ DefaultDelay \in Int /\ Jitter \in Int
    BY TimesAssumption
  <2>3. [i \in 1..(IF n <= 0 THEN 1 ELSE n) |-> p] \in Seq(Servers)
    BY <1>0, <2>2
  <2> QED  BY <2>1, <2>2, <2>3 DEF RequestHandler, Goroutine, Goroutines
<1>2. CASE g = GenerateHandler
  <2>1. <<"Modbus", "Modbus", "Modbus", "DNP3">> \in Seq(Servers)
    BY <1>0
  <2> QED  BY <1>2, <2>1, TimesAssumption
           DEF GenerateHandler, Goroutine, Goroutines
<1> QED  BY <1>1, <1>2 DEF Handled

\* There is a name for every command a handler may start.
LEMMA HandledNamed ==
  ASSUME NEW g \in Handled, NEW j \in Jobs, NEW k \in DOMAIN g.cmds
  PROVE  <<j, k>> \in Processes
<1>1. \A h \in Handled : Len(h.cmds) \in Nat
  BY HandledTyped DEF Goroutines
<1>2. PICK most \in Counts : \A n \in Counts : n <= most
  BY TimesAssumption
<1>3. \A p \in {"Modbus", "DNP3"}, n \in Counts, d \in Delays :
        Len(RequestHandler(p, n, d).cmds) = IF n <= 0 THEN 1 ELSE n
  <2> TAKE p \in {"Modbus", "DNP3"}, n \in Counts, d \in Delays
  <2>1. n \in Int
    BY TimesAssumption
  <2>2. Len([i \in 1..(IF n <= 0 THEN 1 ELSE n) |-> p])
          = IF n <= 0 THEN 1 ELSE n
    BY <2>1
  <2> QED  BY <2>2 DEF RequestHandler, Goroutine
<1>4. GenerateHandler \in Handled /\ Len(GenerateHandler.cmds) = 4
  BY DEF Handled, GenerateHandler, Goroutine
<1>5. \E n \in Lengths : \A l \in Lengths : l <= n
  <2>1. CASE Delays = {} \/ most <= 4
    <3>1. \A h \in Handled : Len(h.cmds) <= 4
      <4> TAKE h \in Handled
      <4>1. CASE h = GenerateHandler
        <5>1. Len(h.cmds) = 4
          BY <1>4, <4>1, Zenon
        <5> QED  BY <5>1
      <4>2. CASE \E p \in {"Modbus", "DNP3"}, n \in Counts, d \in Delays :
                   h = RequestHandler(p, n, d)
        <5>1. PICK p \in {"Modbus", "DNP3"}, n \in Counts, d \in Delays :
                     h = RequestHandler(p, n, d)
          BY <4>2
        <5>2. n \in Int /\ n <= most /\ most \in Int /\ most <= 4
          BY <1>2, <2>1, TimesAssumption
        <5>3. Len(h.cmds) = IF n <= 0 THEN 1 ELSE n
          BY <1>3, <5>1
        <5>4. (IF n <= 0 THEN 1 ELSE n) <= 4
          BY <5>2
        <5> QED  BY <5>3, <5>4, Zenon
      <4> QED  BY <4>1, <4>2 DEF Handled
    <3> QED  BY <1>4, <3>1 DEF Lengths
  <2>2. CASE Delays # {} /\ ~(most <= 4)
    <3>1. PICK d \in Delays : TRUE
      BY <2>2
    <3>2. most \in Int /\ most > 4
      BY <2>2, TimesAssumption
    <3>3. RequestHandler("Modbus", most, d) \in Handled
      BY <3>1 DEF Handled
    <3>4. most \in Lengths
      <4>1. Len(RequestHandler("Modbus", most, d).cmds) = most
        BY <1>3, <3>2
      <4> QED  BY <3>3, <4>1 DEF Lengths
    <3>5. \A h \in Handled : Len(h.cmds) <= most
      <4> TAKE h \in Handled
      <4>1. CASE h = GenerateHandler
        <5>1. Len(h.cmds) = 4
          BY <1>4, <4>1, Zenon
        <5> QED  BY <3>2, <5>1
      <4>2. CASE \E p \in {"Modbus", "DNP3"}, n \in Counts, e \in Delays :
                   h = RequestHandler(p, n, e)
        <5>1. PICK p \in {"Modbus", "DNP3"}, n \in Counts, e \in Delays :
                     h = RequestHandler(p, n, e)
          BY <4>2
        <5>2. n \in Int /\ n <= most
          BY <1>2, TimesAssumption
        <5>3. Len(h.cmds) = IF n <= 0 THEN 1 ELSE n
          BY <1>3, <5>1
        <5>4. (IF n <= 0 THEN 1 ELSE n) <= most
          BY <3>2, <5>2
        <5> QED  BY <5>3, <5>4, Zenon
      <4> QED  BY <4>1, <4>2 DEF Handled
    <3> QED  BY <3>4, <3>5 DEF Lengths
  <2> QED  BY <2>1, <2>2
<1>6. PICK n \in Lengths : /\ Processes = Jobs \X (1..n)
                           /\ \A l \in Lengths : l <= n
  BY <1>5 DEF Processes
<1>7. Len(g.cmds) \in Lengths /\ n \in Nat
  BY <1>1 DEF Lengths
<1>8. k \in 1..Len(g.cmds) /\ Len(g.cmds) <= n /\ Len(g.cmds) \in Nat
  BY <1>1, <1>6, <1>7, HandledTyped DEF Goroutines
<1> QED  BY <1>6, <1>7, <1>8

\* The sleep between two commands, and what it is worth when it is long.
LEMMA PausesTyped ==
  ASSUME NEW g \in Goroutines, NEW n \in Pauses(g)
  PROVE  n \in Nat /\ (g.delay - g.jitter > Latency => n > Latency)
<1>1. g.delay \in Int /\ g.jitter \in Int /\ Latency \in Nat
  BY TimesAssumption DEF Goroutines
<1>2. PICK m \in (g.delay - g.jitter)..(g.delay + g.jitter) :
             n = IF m < 0 THEN 0 ELSE m
  BY DEF Pauses
<1> QED  BY <1>1, <1>2

-----------------------------------------------------------------------------
(***************************************************************************)
(* Types                                                                   *)
(***************************************************************************)

\* What a turn of the goroutine's loop does to its job.
LEMMA LoopTurn ==
  ASSUME TypeOK, NEW j \in Jobs, NEW stage, RunCommand(j, stage)
  PROVE  /\ job[j] \in Goroutines /\ job[j] # None
         /\ job[j].next \in DOMAIN job[j].cmds /\ job[j].sleep = 0
         /\ job' \in [Jobs -> Goroutines \cup {None}]
         /\ job'[j] \in Goroutines /\ job'[j].next = job[j].next + 1
         /\ job'[j].cmds = job[j].cmds /\ job'[j].delay = job[j].delay
         /\ job'[j].jitter = job[j].jitter /\ job'[j].sleep \in Nat
         /\ Paced(j) => job'[j].sleep > Latency
         /\ \A i \in Jobs : i # j => job'[i] = job[i]
         /\ process' = [process EXCEPT ![<<j, job[j].next>>] = stage]
         /\ UNCHANGED <<plantVars, hmi, age, faults>>
<1>1. job[j] \in Goroutines /\ job[j] # None /\ job[j].sleep = 0
  BY DEF TypeOK, RunCommand
<1>2. PICK n \in Pauses(job[j]) :
        job' = [job EXCEPT ![j].next = @ + 1, ![j].sleep = n]
  BY DEF RunCommand
<1>g. PICK g : g = [job[j] EXCEPT !.next = @ + 1, !.sleep = n]
  OBVIOUS
<1>3. n \in Nat /\ (Paced(j) => n > Latency)
  BY <1>1, PausesTyped DEF Paced
<1>4. /\ g \in Goroutines /\ g.next = job[j].next + 1 /\ g.cmds = job[j].cmds
      /\ g.delay = job[j].delay /\ g.jitter = job[j].jitter /\ g.sleep = n
  <2>h. PICK h \in Goroutines : h = job[j]
    BY <1>1
  <2>1. g = [h EXCEPT !.next = @ + 1, !.sleep = n] /\ n \in Nat
    BY <2>h, <1>g, <1>3
  <2>2. h.next + 1 \in Nat \ {0}
    BY DEF Goroutines
  <2> QED  BY <2>h, <2>1, <2>2 DEF Goroutines
<1>5. job' = [job EXCEPT ![j] = g]
  BY <1>2, <1>g
<1>6. job[j].next \in DOMAIN job[j].cmds
  <2>1. /\ job[j].next \in Nat \ {0} /\ job[j].cmds \in Seq(Servers)
        /\ job[j].next <= Len(job[j].cmds)
    BY <1>1 DEF Goroutines, RunCommand
  <2> QED  BY <2>1
<1>7. /\ process' = [process EXCEPT ![<<j, job[j].next>>] = stage]
      /\ UNCHANGED <<plantVars, hmi, age, faults>>
  BY DEF RunCommand
<1>8. /\ job' \in [Jobs -> Goroutines \cup {None}] /\ job'[j] = g
      /\ \A i \in Jobs : i # j => job'[i] = job[i]
  BY <1>4, <1>5 DEF TypeOK
<1> QED  BY <1>1, <1>3, <1>4, <1>6, <1>7, <1>8

\* A tick changes nothing of a job but its sleep, which ends at zero.
LEMMA TickOfJob ==
  ASSUME TypeOK, Tick, NEW j \in Jobs
  PROVE  /\ job[j] = None => job'[j] = None
         /\ job[j] # None =>
              /\ job'[j] # None /\ job'[j] \in Goroutines
              /\ job'[j].cmds = job[j].cmds /\ job'[j].delay = job[j].delay
              /\ job'[j].jitter = job[j].jitter /\ job'[j].next = job[j].next
              /\ job'[j].sleep = IF job[j].sleep > 0 THEN job[j].sleep - 1
                                 ELSE 0
<1>1. job'[j] = IF job[j] # None /\ job[j].sleep > 0
                THEN [job[j] EXCEPT !.sleep = @ - 1] ELSE job[j]
  BY DEF Tick
<1>2. CASE job[j] = None
  BY <1>1, <1>2
<1>3. CASE job[j] # None
  <2>g. PICK g \in Goroutines : g = job[j]
    BY <1>3 DEF TypeOK
  <2>1. CASE g.sleep > 0
    <3>1. job'[j] = [g EXCEPT !.sleep = @ - 1]
      BY <1>1, <1>3, <2>g, <2>1
    <3>2. job'[j] \in Goroutines
      BY <2>1, <3>1 DEF Goroutines
    <3>3. job'[j] # None
      BY <3>2, LimitsAssumption
    <3> QED  BY <1>3, <2>g, <2>1, <3>1, <3>2, <3>3 DEF Goroutines
  <2>2. CASE ~(g.sleep > 0)
    <3>1. job'[j] = g
      BY <1>1, <1>3, <2>g, <2>2
    <3>2. g.sleep = 0
      BY <2>2 DEF Goroutines
    <3> QED  BY <1>3, <2>g, <3>1, <3>2
  <2> QED  BY <2>1, <2>2
<1> QED  BY <1>2, <1>3

LEMMA InitTyped == Init => TypeOK
<1> SUFFICES ASSUME Init PROVE TypeOK
  OBVIOUS
<1>1. /\ queue \in [Servers -> Seq(Processes)]
      /\ \A s \in Servers : /\ Len(queue[s]) <= Backlog[s]
                            /\ queue[s] # <<>> => server[s] = "listening"
  <2>1. <<>> \in Seq(Processes) /\ Len(<<>>) = 0
    OBVIOUS
  <2> QED  BY <2>1, LimitsAssumption DEF Init
<1>2. age \in [Processes -> 0..(Latency + 1)] /\ faults \in 0..MaxFaults
  BY TimesAssumption, LimitsAssumption DEF Init
<1>3. process \in [Processes -> Stages] /\ job \in [Jobs -> Goroutines \cup {None}]
  BY DEF Init, Stages
<1> QED  BY <1>1, <1>2, <1>3 DEF Init, TypeOK

\* The servers to start, one by one.
LEMMA StartOrderShrinks ==
  ASSUME TypeOK, toStart # <<>>
  PROVE  /\ Head(toStart) \in Servers
         /\ Tail(toStart)
              \in {StartOrder, <<"DNP3", "IEC104">>, <<"IEC104">>, <<>>}
         /\ \A i \in DOMAIN Tail(toStart) :
              /\ i + 1 \in DOMAIN toStart
              /\ Tail(toStart)[i] = toStart[i + 1]
              /\ Tail(toStart)[i] # Head(toStart)
<1>0. {"Modbus", "DNP3", "IEC104"} \subseteq Servers
  BY DEF Servers, StartOrder
<1>1. CASE toStart = StartOrder
  BY <1>0, <1>1 DEF StartOrder
<1>2. CASE toStart = <<"DNP3", "IEC104">>
  BY <1>0, <1>2
<1>3. CASE toStart = <<"IEC104">>
  BY <1>0, <1>3
<1> QED  BY <1>1, <1>2, <1>3 DEF TypeOK

\* What a step of the plant's container does to its queues.
LEMMA PlantTyped ==
  ASSUME TypeOK, StartsOnce, PlantStep \/ StartServerFails \/ PlantDies
  PROVE  TypeOK' /\ StartsOnce'
<1>1. CASE StartServer
  <2>h. PICK h \in Servers : h = Head(toStart)
    BY <1>1, StartOrderShrinks DEF StartServer
  <2>1. /\ toStart' = Tail(toStart) /\ toStart # <<>> /\ plant = "starting"
        /\ server' = [server EXCEPT ![h] = "started"]
        /\ UNCHANGED <<plant, queue, hmiVars, faults>>
    BY <1>1, <2>h DEF StartServer
  <2>2. server[h] = "absent"
    <3>1. toStart \in {StartOrder, <<"DNP3", "IEC104">>, <<"IEC104">>}
      BY <2>1 DEF TypeOK
    <3>2. 1 \in DOMAIN toStart /\ toStart[1] = h
      BY <2>h, <3>1 DEF StartOrder
    <3> QED  BY <3>2 DEF StartsOnce
  <2>3. TypeOK'
    BY <2>1, <2>2, StartOrderShrinks DEF TypeOK
  <2>4. StartsOnce'
    BY <2>1, <2>h, StartOrderShrinks DEF StartsOnce, TypeOK
  <2> QED  BY <2>3, <2>4
<1>2. CASE StartServerFails
  <2>1. faults' \in 0..MaxFaults
    BY <1>2, LimitsAssumption DEF StartServerFails, Fault, TypeOK
  <2>2. TypeOK'
    BY <1>2, <2>1, StartOrderShrinks DEF StartServerFails, TypeOK
  <2>3. StartsOnce'
    BY <1>2, StartOrderShrinks DEF StartsOnce, StartServerFails
  <2> QED  BY <2>2, <2>3
<1>3. CASE ListenAndServe
  BY <1>3 DEF ListenAndServe, TypeOK, StartsOnce
<1>4. CASE PlantRestarts
  <2>1. TypeOK'
    BY <1>4 DEF PlantRestarts, TypeOK
  <2>2. \A i \in DOMAIN StartOrder : StartOrder[i] \in Servers
    BY DEF Servers
  <2>3. StartsOnce'
    BY <1>4, <2>2 DEF PlantRestarts, StartsOnce
  <2> QED  BY <2>1, <2>3
<1>5. CASE PlantDies
  <2>1. faults' \in 0..MaxFaults
    BY <1>5, LimitsAssumption DEF PlantDies, Fault, TypeOK
  <2>2. /\ queue' \in [Servers -> Seq(Processes)]
        /\ \A s \in Servers : queue'[s] = <<>> /\ Len(queue'[s]) <= Backlog[s]
    <3>1. <<>> \in Seq(Processes) /\ Len(<<>>) = 0
      OBVIOUS
    <3> QED  BY <1>5, <3>1, LimitsAssumption DEF PlantDies
  <2>3. process' \in [Processes -> Stages]
    BY <1>5 DEF PlantDies, Reset, TypeOK, Stages
  <2>4. /\ plant' = "down" /\ toStart' = <<>>
        /\ server' = [s \in Servers |-> "absent"]
        /\ UNCHANGED <<hmi, job, age>>
    BY <1>5 DEF PlantDies
  <2>5. TypeOK'
    BY <2>1, <2>2, <2>3, <2>4 DEF TypeOK
  <2>6. StartsOnce'
    BY <2>4 DEF StartsOnce
  <2> QED  BY <2>5, <2>6
<1> QED  BY <1>1, <1>2, <1>3, <1>4, <1>5 DEF PlantStep

LEMMA ServerTyped ==
  ASSUME TypeOK, StartsOnce, NEW s \in Servers,
         ServerListens(s) \/ ServerEnds(s) \/ Serve(s)
  PROVE  TypeOK' /\ StartsOnce'
<1>1. CASE ServerListens(s)
  BY <1>1 DEF ServerListens, TypeOK, StartsOnce
<1>2. CASE ServerEnds(s)
  <2>1. faults' \in 0..MaxFaults
    BY <1>2, LimitsAssumption DEF ServerEnds, Fault, TypeOK
  <2>2. /\ queue' \in [Servers -> Seq(Processes)]
        /\ \A r \in Servers : queue'[r] = IF r = s THEN <<>> ELSE queue[r]
    <3>1. <<>> \in Seq(Processes)
      OBVIOUS
    <3> QED  BY <1>2, <3>1 DEF ServerEnds, TypeOK
  <2>3. process' \in [Processes -> Stages]
    BY <1>2 DEF ServerEnds, Reset, TypeOK, Stages
  <2>4. /\ server' = [server EXCEPT ![s] = "dead"]
        /\ server[s] \in {"started", "listening"}
        /\ UNCHANGED <<plant, toStart, hmi, job, age>>
    BY <1>2 DEF ServerEnds
  <2>5. \A r \in Servers : /\ Len(queue'[r]) <= Backlog[r]
                           /\ queue'[r] # <<>> => server'[r] = "listening"
    <3>1. Len(<<>>) = 0 /\ Backlog[s] \in Nat
      BY LimitsAssumption
    <3> QED  BY <2>2, <2>4, <3>1 DEF TypeOK
  <2>6. TypeOK'
    BY <2>1, <2>2, <2>3, <2>4, <2>5 DEF TypeOK
  <2>7. StartsOnce'
    BY <2>4 DEF StartsOnce, TypeOK
  <2> QED  BY <2>6, <2>7
<1>3. CASE Serve(s)
  <2>1. /\ queue[s] \in Seq(Processes) /\ queue[s] # <<>>
        /\ Len(queue[s]) <= Backlog[s] /\ Backlog[s] \in Nat
    BY <1>3, LimitsAssumption DEF Serve, TypeOK
  <2>2. /\ Tail(queue[s]) \in Seq(Processes)
        /\ Len(Tail(queue[s])) <= Backlog[s]
    BY <2>1
  <2>3. process' \in [Processes -> Stages]
    BY <1>3 DEF Serve, TypeOK, Stages
  <2>4. TypeOK'
    BY <1>3, <2>1, <2>2, <2>3 DEF Serve, TypeOK
  <2>5. StartsOnce'
    BY <1>3 DEF Serve, StartsOnce
  <2> QED  BY <2>4, <2>5
<1> QED  BY <1>1, <1>2, <1>3

LEMMA HmiTyped ==
  ASSUME TypeOK, StartsOnce,
         \/ \E j \in Jobs : HandleRequest(j) \/ Goes(j)
         \/ HmiDies \/ Tick
  PROVE  TypeOK' /\ StartsOnce'
<1>1. ASSUME NEW j \in Jobs, HandleRequest(j) PROVE TypeOK'
  <2>1. PICK g \in Handled : job' = [job EXCEPT ![j] = g]
    BY <1>1 DEF HandleRequest
  <2>2. g \in Goroutines /\ g.next = 1
    BY HandledTyped
  <2>3. g.next <= Len(g.cmds) + 1
    <3>1. Len(g.cmds) \in Nat
      BY <2>2 DEF Goroutines
    <3> QED  BY <2>2, <3>1
  <2>4. /\ job' \in [Jobs -> Goroutines \cup {None}]
        /\ \A i \in Jobs : job'[i] # None =>
             job'[i].next <= Len(job'[i].cmds) + 1
    BY <2>1, <2>2, <2>3 DEF TypeOK
  <2> QED  BY <1>1, <2>4 DEF HandleRequest, TypeOK
<1>2. ASSUME NEW j \in Jobs, NEW stage \in Stages, RunCommand(j, stage)
      PROVE  TypeOK'
  <2>0. /\ job[j] \in Goroutines /\ job[j].next \in DOMAIN job[j].cmds
        /\ job' \in [Jobs -> Goroutines \cup {None}]
        /\ job'[j].next = job[j].next + 1 /\ job'[j].cmds = job[j].cmds
        /\ \A i \in Jobs : i # j => job'[i] = job[i]
        /\ process' = [process EXCEPT ![<<j, job[j].next>>] = stage]
        /\ UNCHANGED <<plantVars, hmi, age, faults>>
    BY <1>2, LoopTurn
  <2>1. job[j].next <= Len(job[j].cmds) /\ job[j].next \in Nat
    BY <2>0 DEF Goroutines
  <2>2. job'[j].next <= Len(job'[j].cmds) + 1
    <3>1. Len(job[j].cmds) \in Nat
      BY <2>0 DEF Goroutines
    <3> QED  BY <2>0, <2>1, <3>1
  <2>3. \A i \in Jobs : job'[i] # None =>
          job'[i].next <= Len(job'[i].cmds) + 1
    BY <2>0, <2>2 DEF TypeOK
  <2>4. process' \in [Processes -> Stages]
    BY <2>0 DEF TypeOK
  <2> QED  BY <2>0, <2>3, <2>4 DEF TypeOK
<1>3. ASSUME NEW j \in Jobs, Goes(j) PROVE TypeOK'
  BY <1>2, <1>3 DEF Goes, StartProcess, StartProcessFails, Stages
<1>4. ASSUME HmiDies PROVE TypeOK'
  <2>1. faults' \in 0..MaxFaults
    BY <1>4, LimitsAssumption DEF HmiDies, Fault, TypeOK
  <2>2. process' \in [Processes -> Stages]
    BY <1>4 DEF HmiDies, TypeOK, Stages
  <2>3. hmi' = FALSE /\ UNCHANGED <<plant, toStart, server, queue, job, age>>
    BY <1>4 DEF HmiDies
  <2> QED  BY <2>1, <2>2, <2>3 DEF TypeOK
<1>5. ASSUME Tick PROVE TypeOK'
  <2>1. age' \in [Processes -> 0..(Latency + 1)]
    <3>1. ASSUME NEW p \in Processes PROVE age'[p] \in 0..(Latency + 1)
      <4>1. age[p] \in 0..(Latency + 1) /\ Latency \in Nat
        BY TimesAssumption DEF TypeOK
      <4>2. \/ age'[p] = age[p]
            \/ age'[p] = age[p] + 1 /\ age[p] <= Latency
        BY <1>5 DEF Tick
      <4> QED  BY <4>1, <4>2
    <3>2. age' = [p \in Processes |-> age'[p]]
      BY <1>5 DEF Tick
    <3> QED  BY <3>1, <3>2
  <2>2. job' \in [Jobs -> Goroutines \cup {None}]
    <3>1. \A j \in Jobs : job'[j] \in Goroutines \cup {None}
      BY <1>5, TickOfJob DEF TypeOK
    <3>2. job' = [j \in Jobs |-> job'[j]]
      BY <1>5 DEF Tick
    <3> QED  BY <3>1, <3>2
  <2>3. \A j \in Jobs : job'[j] # None =>
          job'[j].next <= Len(job'[j].cmds) + 1
    <3> TAKE j \in Jobs
    <3>1. /\ job[j] = None => job'[j] = None
          /\ job[j] # None => job'[j].cmds = job[j].cmds
                             /\ job'[j].next = job[j].next
      BY <1>5, TickOfJob
    <3> QED  BY <3>1 DEF TypeOK
  <2>4. UNCHANGED <<plant, toStart, server, queue, hmi, process, faults>>
    BY <1>5 DEF Tick
  <2> QED  BY <2>1, <2>2, <2>3, <2>4 DEF TypeOK
<1>6. UNCHANGED plantVars
  BY DEF HandleRequest, Goes, StartProcess, StartProcessFails, RunCommand,
         HmiDies, Tick
<1>7. StartsOnce'
  BY <1>6 DEF StartsOnce
<1> QED  BY <1>1, <1>3, <1>4, <1>5, <1>7

LEMMA ProcessTyped ==
  ASSUME TypeOK, StartsOnce, NEW p \in Processes, ProcessStep(p)
  PROVE  TypeOK' /\ StartsOnce'
<1>1. CASE Connects(p)
  <2>t. PICK t : t = Target(p)
    OBVIOUS
  <2>1. /\ server[t] = "listening" /\ ~(Len(queue[t]) >= Backlog[t])
        /\ process' = [process EXCEPT ![p] = "queued"]
        /\ queue' = [queue EXCEPT ![t] = Append(@, p)]
        /\ UNCHANGED <<plant, toStart, server, hmi, job, age, faults>>
    BY <1>1, <2>t DEF Connects, Full
  <2>2. process' \in [Processes -> Stages]
    BY <2>1 DEF TypeOK, Stages
  <2>3. /\ queue' \in [Servers -> Seq(Processes)]
        /\ \A s \in Servers : /\ Len(queue'[s]) <= Backlog[s]
                              /\ queue'[s] # <<>> => server[s] = "listening"
    <3>1. CASE t \in Servers
      <4>1. /\ queue[t] \in Seq(Processes) /\ Len(queue[t]) \in Nat
            /\ Backlog[t] \in Nat
        BY <3>1, LimitsAssumption DEF TypeOK
      <4>2. /\ Append(queue[t], p) \in Seq(Processes)
            /\ Len(Append(queue[t], p)) = Len(queue[t]) + 1
        BY <4>1
      <4>3. Len(queue[t]) + 1 <= Backlog[t]
        BY <2>1, <4>1
      <4> QED  BY <2>1, <3>1, <4>2, <4>3 DEF TypeOK
    <3>2. CASE t \notin Servers
      <4>1. queue' = queue
        BY <2>1, <3>2 DEF TypeOK
      <4> QED  BY <4>1 DEF TypeOK
    <3> QED  BY <3>1, <3>2
  <2>4. TypeOK'
    BY <2>1, <2>2, <2>3 DEF TypeOK
  <2>5. StartsOnce'
    BY <2>1 DEF StartsOnce
  <2> QED  BY <2>4, <2>5
<1>2. CASE ConnectFails(p)
  <2>1. process' \in [Processes -> Stages]
    BY <1>2 DEF ConnectFails, TypeOK, Stages
  <2> QED  BY <1>2, <2>1 DEF ConnectFails, TypeOK, StartsOnce
<1> QED  BY <1>1, <1>2 DEF ProcessStep

-----------------------------------------------------------------------------
(***************************************************************************)
(* Names and the process table                                             *)
(***************************************************************************)

\* A step that starts no command and accepts no request.
Steady ==
  /\ \A p \in Processes : /\ process'[p] = "none" <=> process[p] = "none"
                          /\ process'[p] = "failed" <=> process[p] = "failed"
  /\ \A j \in Jobs :
       /\ job'[j] = None <=> job[j] = None
       /\ job[j] # None =>
            /\ job'[j].cmds = job[j].cmds /\ job'[j].delay = job[j].delay
            /\ job'[j].jitter = job[j].jitter /\ job'[j].next = job[j].next

LEMMA OthersSteady ==
  ASSUME TypeOK,
         \/ PlantStep \/ StartServerFails \/ PlantDies
         \/ \E s \in Servers : ServerListens(s) \/ ServerEnds(s) \/ Serve(s)
         \/ \E p \in Processes : ProcessStep(p)
         \/ HmiDies \/ Tick \/ UNCHANGED vars
  PROVE  Steady
<1>0. process \in [Processes -> Stages]
  BY DEF TypeOK
<1>1. CASE PlantStep \/ StartServerFails \/ UNCHANGED vars
           \/ \E s \in Servers : ServerListens(s)
  <2>1. UNCHANGED <<job, process>>
    BY <1>1 DEF PlantStep, StartServer, ListenAndServe, PlantRestarts,
                StartServerFails, ServerListens, vars
  <2> QED  BY <2>1 DEF Steady
<1>2. CASE PlantDies \/ \E s \in Servers : ServerEnds(s)
  <2>1. PICK S : Reset(S)
    BY <1>2 DEF PlantDies, ServerEnds
  <2>2. UNCHANGED job
    BY <1>2 DEF PlantDies, ServerEnds
  <2>3. \A p \in Processes :
          \/ process'[p] = process[p]
          \/ process[p] = "queued" /\ process'[p] = "lost"
    BY <2>1 DEF Reset
  <2> QED  BY <2>2, <2>3 DEF Steady
<1>3. CASE \E s \in Servers : Serve(s)
  <2>1. PICK s \in Servers : Serve(s)
    BY <1>3
  <2>2. PICK h : h = Head(queue[s])
    OBVIOUS
  <2>3. /\ process' = [process EXCEPT ![h] =
                         IF @ = "queued" THEN "served" ELSE @]
        /\ UNCHANGED job
    BY <2>1, <2>2 DEF Serve
  <2>4. \A p \in Processes :
          \/ process'[p] = process[p]
          \/ process[p] = "queued" /\ process'[p] = "served"
    BY <1>0, <2>3
  <2> QED  BY <2>3, <2>4 DEF Steady
<1>4. CASE \E p \in Processes : ProcessStep(p)
  <2>1. PICK p \in Processes, stage \in {"queued", "refused"} :
               /\ process[p] = "running"
               /\ process' = [process EXCEPT ![p] = stage]
               /\ UNCHANGED job
    BY <1>4 DEF ProcessStep, Connects, ConnectFails
  <2> QED  BY <1>0, <2>1 DEF Steady
<1>5. CASE HmiDies
  <2>1. \A p \in Processes :
          \/ process'[p] = process[p]
          \/ process[p] \in {"running", "queued"} /\ process'[p] = "lost"
    BY <1>5 DEF HmiDies
  <2>2. UNCHANGED job
    BY <1>5 DEF HmiDies
  <2> QED  BY <2>1, <2>2 DEF Steady
<1>6. CASE Tick
  <2>1. UNCHANGED process
    BY <1>6 DEF Tick
  <2>2. ASSUME NEW j \in Jobs
        PROVE  /\ job'[j] = None <=> job[j] = None
               /\ job[j] # None =>
                    /\ job'[j].cmds = job[j].cmds /\ job'[j].delay = job[j].delay
                    /\ job'[j].jitter = job[j].jitter
                    /\ job'[j].next = job[j].next
    BY <1>6, TickOfJob
  <2> QED  BY <2>1, <2>2 DEF Steady
<1> QED  BY <1>1, <1>2, <1>3, <1>4, <1>5, <1>6

\* What a steady step leaves alone.
LEMMA SteadyKeeps ==
  ASSUME Named, Steady
  PROVE  /\ Named'
         /\ TableFull => TableFull'
         /\ \A j \in Jobs : Paced(j)' <=> Paced(j)
         /\ \A p \in Processes : process[p] # "none" => Target(p)' = Target(p)
<1>1. Named'
  BY ProcessNames DEF Named, Steady
<1>2. InTable' = InTable
  BY DEF InTable, Steady
<1>3. (\E p \in Processes : process'[p] = "failed")
        => \E p \in Processes : process[p] = "failed"
  BY DEF Steady
<1>4. TableFull => TableFull'
  BY <1>2, <1>3 DEF TableFull
<1>5. \A j \in Jobs : Paced(j)' <=> Paced(j)
  BY DEF Paced, Steady
<1>6. \A p \in Processes : process[p] # "none" => Target(p)' = Target(p)
  BY ProcessNames DEF Target, Steady, Named
<1> QED  BY <1>1, <1>4, <1>5, <1>6

LEMMA RequestNames ==
  ASSUME TypeOK, Named, TableFull, NEW j \in Jobs, HandleRequest(j)
  PROVE  Named' /\ TableFull'
<1>1. PICK g \in Handled : job' = [job EXCEPT ![j] = g]
  BY DEF HandleRequest
<1>2. /\ job[j] = None /\ UNCHANGED process
      /\ job'[j] = g /\ \A i \in Jobs : i # j => job'[i] = job[i]
  BY <1>1 DEF HandleRequest, TypeOK
<1>3. \A i \in Jobs : job'[i] # None =>
        \A k \in DOMAIN job'[i].cmds : <<i, k>> \in Processes
  <2>1. \A k \in DOMAIN job'[j].cmds : <<j, k>> \in Processes
    BY <1>2, HandledNamed
  <2> QED  BY <1>2, <2>1 DEF Named
<1>4. ASSUME NEW p \in Processes, process'[p] # "none"
      PROVE  job'[p[1]] # None /\ p[2] \in 1..(job'[p[1]].next - 1)
  <2>1. p[1] # j /\ p[1] \in Jobs
    BY <1>2, <1>4, ProcessNames DEF Named
  <2>2. job'[p[1]] = job[p[1]]
    BY <1>2, <2>1
  <2> QED  BY <1>2, <1>4, <2>2 DEF Named
<1>5. Named'
  BY <1>3, <1>4 DEF Named
<1>6. TableFull'
  BY <1>2 DEF TableFull, InTable
<1> QED  BY <1>5, <1>6

\* A turn of the loop gives the next command its process, or fails to.
LEMMA TurnNames ==
  ASSUME TypeOK, Named, NEW j \in Jobs, NEW stage \in Stages,
         stage # "none", RunCommand(j, stage)
  PROVE  LET q == <<j, job[j].next>>
         IN  /\ q \in Processes /\ process[q] = "none"
             /\ process' = [process EXCEPT ![q] = stage]
             /\ \A p \in Processes : p[1] = j /\ process[p] # "none" =>
                  p[2] \in Int /\ p[2] < q[2]
             /\ q[2] \in Int
             /\ Named'
<1>1. /\ job[j] \in Goroutines /\ job[j] # None
      /\ job[j].next \in DOMAIN job[j].cmds
      /\ job' \in [Jobs -> Goroutines \cup {None}]
      /\ job'[j] \in Goroutines /\ job'[j].next = job[j].next + 1
      /\ job'[j].cmds = job[j].cmds
      /\ \A i \in Jobs : i # j => job'[i] = job[i]
      /\ process' = [process EXCEPT ![<<j, job[j].next>>] = stage]
  BY LoopTurn
<1>n. PICK n \in Nat \ {0} : n = job[j].next
  BY <1>1 DEF Goroutines
<1>q. PICK q : q = <<j, n>>
  OBVIOUS
<1>2. q \in Processes /\ q[1] = j /\ q[2] = n
  BY <1>1, <1>n, <1>q DEF Named
<1>3. \A p \in Processes : p[1] = j /\ process[p] # "none" =>
        p[2] \in 1..(n - 1)
  BY <1>n DEF Named
<1>4. process[q] = "none"
  BY <1>2, <1>3, <1>n
<1>5. ASSUME NEW p \in Processes, process'[p] # "none"
      PROVE  job'[p[1]] # None /\ p[2] \in 1..(job'[p[1]].next - 1)
  <2>0. job'[j] # None /\ job'[j].next = n + 1
    BY <1>1, <1>n, LimitsAssumption
  <2>1. CASE p = q
    BY <1>2, <1>n, <2>0, <2>1
  <2>2. CASE p # q
    <3>1. process[p] # "none"
      BY <1>1, <1>5, <1>n, <1>q, <2>2 DEF TypeOK
    <3>2. CASE p[1] = j
      <4>1. p[2] \in 1..(n - 1)
        BY <1>3, <3>1, <3>2
      <4> QED  BY <2>0, <3>2, <4>1, <1>n
    <3>3. CASE p[1] # j
      <4>1. job'[p[1]] = job[p[1]]
        BY <1>1, <3>3, ProcessNames
      <4> QED  BY <3>1, <4>1 DEF Named
    <3> QED  BY <3>2, <3>3
  <2> QED  BY <2>1, <2>2
<1>6. Named'
  <2>1. \A i \in Jobs : job'[i] # None =>
          \A k \in DOMAIN job'[i].cmds : <<i, k>> \in Processes
    BY <1>1 DEF Named
  <2> QED  BY <1>5, <2>1 DEF Named
<1> QED  BY <1>1, <1>2, <1>3, <1>4, <1>6, <1>n, <1>q

\* A failed start leaves the table as it is; a start finds it with a free place.
LEMMA TurnTable ==
  ASSUME TypeOK, Named, TableFull, NEW j \in Jobs, Goes(j)
  PROVE  TableFull'
<1>1. Cardinality(InTable) \in Nat /\ PidLimit \in Nat
  BY FS_CardinalityType, LimitsAssumption DEF TableFull
<1>q. PICK q : q = <<j, job[j].next>>
  OBVIOUS
<1>2. CASE StartProcess(j)
  <2>1. /\ q \in Processes /\ process[q] = "none"
        /\ process' = [process EXCEPT ![q] = "running"]
    BY <1>2, <1>q, TurnNames DEF StartProcess, Stages
  <2>2. Cardinality(InTable) < PidLimit
    BY <1>2 DEF StartProcess
  <2>3. \A p \in Processes : process[p] # "failed"
    BY <1>1, <2>2 DEF TableFull
  <2>4. \A p \in Processes : process'[p] # "failed"
    BY <2>1, <2>3 DEF TypeOK
  <2>5. InTable' = InTable \cup {q}
    BY <2>1 DEF InTable, TypeOK
  <2>6. IsFiniteSet(InTable')
    BY <2>5, FS_AddElement DEF TableFull
  <2> QED  BY <2>4, <2>6 DEF TableFull
<1>3. CASE StartProcessFails(j)
  <2>1. /\ q \in Processes /\ process[q] = "none"
        /\ process' = [process EXCEPT ![q] = "failed"]
    BY <1>3, <1>q, TurnNames DEF StartProcessFails, Stages
  <2>2. InTable' = InTable
    BY <2>1 DEF InTable, TypeOK
  <2>3. Cardinality(InTable) >= PidLimit
    BY <1>3 DEF StartProcessFails
  <2> QED  BY <2>2, <2>3 DEF TableFull
<1> QED  BY <1>2, <1>3 DEF Goes

-----------------------------------------------------------------------------
(***************************************************************************)
(* Queues, pauses and the order of service                                 *)
(***************************************************************************)

LEMMA TargetIsServer ==
  ASSUME TypeOK, Named, NEW p \in Processes, process[p] # "none"
  PROVE  Target(p) \in Servers
<1>1. /\ p[1] \in Jobs /\ job[p[1]] # None /\ p[2] \in 1..(job[p[1]].next - 1)
  BY ProcessNames DEF Named
<1>2. job[p[1]] \in Goroutines /\ job[p[1]].next <= Len(job[p[1]].cmds) + 1
  BY <1>1 DEF TypeOK
<1>3. /\ job[p[1]].cmds \in Seq(Servers) /\ job[p[1]].next \in Nat
  BY <1>2 DEF Goroutines
<1> QED  BY <1>1, <1>2, <1>3 DEF Target

\* Whoever waits in a queue is a process that was started.
LEMMA InQueue ==
  ASSUME HInv, NEW s \in Servers, NEW i \in DOMAIN queue[s]
  PROVE  /\ queue[s][i] \in Processes
         /\ process[queue[s][i]] \in {"queued", "lost"}
         /\ process[queue[s][i]] # "none"
<1>1. queue[s] \in Seq(Processes)
  BY DEF HInv, TypeOK
<1>2. Queues
  BY DEF HInv
<1>3. process[queue[s][i]] \in {"queued", "lost"}
  BY <1>2 DEF Queues
<1> QED  BY <1>1, <1>3

\* The queues of the servers in S end, and their connections are reset.
LEMMA ResetKeeps ==
  ASSUME HInv, Steady, NEW S \in SUBSET Servers, Reset(S), UNCHANGED <<job, age>>,
         queue' = [s \in Servers |-> IF s \in S THEN <<>> ELSE queue[s]]
  PROVE  Queues' /\ Pace' /\ Order'
<1>1. ASSUME NEW p \in Processes
      PROVE  /\ \/ process'[p] = process[p]
                \/ process[p] = "queued" /\ process'[p] = "lost"
             /\ process'[p] = "queued" =>
                  \A s \in S : \A i \in DOMAIN queue[s] : queue[s][i] # p
  <2>1. process'[p] = IF /\ process[p] = "queued"
                         /\ \E s \in S : \E i \in DOMAIN queue[s] :
                              queue[s][i] = p
                      THEN "lost" ELSE process[p]
    BY Zenon DEF Reset
  <2>2. CASE \E s \in S : \E i \in DOMAIN queue[s] : queue[s][i] = p
    BY <2>1, <2>2
  <2>3. CASE ~\E s \in S : \E i \in DOMAIN queue[s] : queue[s][i] = p
    <3>1. process'[p] = process[p]
      BY <2>1, <2>3
    <3> QED  BY <2>3, <3>1
  <2> QED  BY <2>2, <2>3
<1>2. \A s \in Servers : queue'[s] = <<>> \/ queue'[s] = queue[s]
  OBVIOUS
<1>3. ASSUME NEW s \in Servers, NEW i \in DOMAIN queue'[s]
      PROVE  queue'[s] = queue[s] /\ queue[s][i] \in Processes
  BY <1>2 DEF HInv, TypeOK
<1>4. Queues'
  <2>1. ASSUME NEW s \in Servers, NEW i \in DOMAIN queue'[s]
        PROVE  (/\ process[queue[s][i]] \in {"queued", "lost"}
                /\ Target(queue[s][i]) = s
                /\ \A k \in DOMAIN queue[s] :
                     queue[s][k] = queue[s][i] => k = i)'
    <3>p. PICK p \in Processes : p = queue[s][i]
      BY <1>3, <2>1
    <3>1. /\ process[p] \in {"queued", "lost"} /\ Target(p) = s
          /\ \A k \in DOMAIN queue[s] : queue[s][k] = p => k = i
          /\ queue'[s] = queue[s]
      BY <1>3, <2>1, <3>p DEF HInv, Queues
    <3>2. process'[p] \in {"queued", "lost"} /\ Target(p)' = s
      BY <1>1, <3>1 DEF Target
    <3> QED  BY <3>p, <3>1, <3>2 DEF Target
  <2>2. ASSUME NEW p \in Processes, process'[p] = "queued"
        PROVE  (\E i \in DOMAIN queue[Target(p)] : queue[Target(p)][i] = p)'
    <3>1. process[p] = "queued" /\ Target(p)' = Target(p)
      BY <1>1, <2>2 DEF Target
    <3>2. Target(p) \in Servers
      BY <3>1, TargetIsServer DEF HInv
    <3>3. PICK i \in DOMAIN queue[Target(p)] : queue[Target(p)][i] = p
      BY <3>1 DEF HInv, Queues
    <3>4. Target(p) \notin S
      BY <1>1, <2>2, <3>3
    <3>5. queue'[Target(p)] = queue[Target(p)]
      BY <3>2, <3>4
    <3> QED  BY <3>1, <3>3, <3>5
  <2> QED  BY <2>1, <2>2 DEF Queues
<1>5. Pace'
  BY <1>1 DEF HInv, Pace, Paced, Earlier
<1>6. Order'
  <2> SUFFICES ASSUME NEW p \in Processes, NEW q \in Processes,
                      process'[p] = "queued", process'[q] # "none",
                      age'[p] <= Latency, Earlier(p, q)',
                      Target(p)' = Target(q)'
               PROVE  /\ process'[q] # "served"
                      /\ \A b \in DOMAIN queue'[Target(p)'] :
                           queue'[Target(p)'][b] = q =>
                             \E a \in DOMAIN queue'[Target(p)'] :
                               a < b /\ queue'[Target(p)'][a] = p
    BY DEF Order
  <2>1. /\ process[p] = "queued" /\ process[q] # "none" /\ age[p] <= Latency
        /\ Earlier(p, q) /\ Target(p) = Target(q) /\ Target(p)' = Target(p)
    BY <1>1 DEF Steady, Earlier, Paced, Target
  <2>2. Target(p) \in Servers
    BY <2>1, TargetIsServer DEF HInv
  <2>3. process'[q] # "served"
    BY <1>1, <2>1 DEF HInv, Order
  <2>4. queue'[Target(p)] = <<>> \/ queue'[Target(p)] = queue[Target(p)]
    BY <1>2, <2>2
  <2> QED  BY <2>1, <2>3, <2>4 DEF HInv, Order
<1> QED  BY <1>4, <1>5, <1>6

\* Nothing a queue's order is stated with moves but the stages, and nobody joins
\* a queue or leaves it served.
LEMMA OrderStands ==
  ASSUME HInv, UNCHANGED <<queue, age>>,
         \A p \in Processes :
           /\ process'[p] = "queued" => process[p] = "queued"
           /\ process'[p] = "served" => process[p] = "served"
           /\ process'[p] # "none" => process[p] # "none"
           /\ process[p] # "none" => job'[p[1]] = job[p[1]]
  PROVE  Order'
<1> SUFFICES ASSUME NEW p \in Processes, NEW q \in Processes,
                    process'[p] = "queued", process'[q] # "none",
                    age'[p] <= Latency, Earlier(p, q)',
                    Target(p)' = Target(q)'
             PROVE  /\ process'[q] # "served"
                    /\ \A b \in DOMAIN queue'[Target(p)'] :
                         queue'[Target(p)'][b] = q =>
                           \E a \in DOMAIN queue'[Target(p)'] :
                             a < b /\ queue'[Target(p)'][a] = p
  BY DEF Order
<1>1. /\ process[p] = "queued" /\ process[q] # "none"
      /\ job'[p[1]] = job[p[1]] /\ job'[q[1]] = job[q[1]]
  OBVIOUS
<1>2. Target(p)' = Target(p) /\ Target(q)' = Target(q)
  BY <1>1 DEF Target
<1>3. Earlier(p, q)
  BY <1>1 DEF Earlier, Paced
<1>t. PICK t : t = Target(p)
  OBVIOUS
<1>4. /\ process[p] = "queued" /\ process[q] # "none" /\ age[p] <= Latency
      /\ Earlier(p, q) /\ Target(p) = Target(q)
  BY <1>1, <1>2, <1>3
<1>5. /\ process[q] # "served"
      /\ \A b \in DOMAIN queue[Target(p)] : queue[Target(p)][b] = q =>
           \E a \in DOMAIN queue[Target(p)] : a < b /\ queue[Target(p)][a] = p
  <2>1. Order
    BY DEF HInv
  <2> QED  BY <1>4, <2>1 DEF Order
<1>6. /\ process[q] # "served"
      /\ \A b \in DOMAIN queue[t] : queue[t][b] = q =>
           \E a \in DOMAIN queue[t] : a < b /\ queue[t][a] = p
  BY <1>5, <1>t
<1>7. process'[q] # "served"
  BY <1>6
<1> QED  BY <1>2, <1>6, <1>7, <1>t

\* A step that changes no queue, takes nobody out of "queued" but to "lost", and
\* lets no process run that did not.
LEMMA QueuesStand ==
  ASSUME HInv, Steady, UNCHANGED <<queue, job, age>>,
         \A p \in Processes :
           \/ process'[p] = process[p]
           \/ process[p] = "queued" /\ process'[p] = "lost"
           \/ process[p] = "running" /\ process'[p] \in {"refused", "lost"}
  PROVE  Queues' /\ Pace' /\ Order'
<1>1. \A s \in Servers : \A i \in DOMAIN queue[s] : queue[s][i] \in Processes
  BY DEF HInv, TypeOK
<1>2. Queues'
  BY <1>1 DEF HInv, Queues, Target
<1>3. Pace'
  <2>1. \A p \in Processes :
          /\ process'[p] = "none" => process[p] = "none"
          /\ process'[p] # "none" => process[p] # "none"
          /\ process'[p] = "running" => process[p] = "running"
    OBVIOUS
  <2>2. \A p, q \in Processes :
          /\ Paced(p[1])' => Paced(p[1])
          /\ Earlier(p, q)' => Earlier(p, q)
    BY DEF Paced, Earlier
  <2> QED  BY <2>1, <2>2 DEF HInv, Pace
<1>4. Order'
  BY OrderStands
<1> QED  BY <1>2, <1>3, <1>4

LEMMA ServeKeeps ==
  ASSUME HInv, NEW s \in Servers, Serve(s)
  PROVE  Queues' /\ Pace' /\ Order'
<1>0. /\ queue \in [Servers -> Seq(Processes)]
      /\ process \in [Processes -> Stages]
  BY DEF HInv, TypeOK
<1>h. PICK h \in Processes : h = Head(queue[s])
  BY <1>0 DEF Serve
<1>1. /\ queue[s] \in Seq(Processes) /\ queue[s] # <<>>
      /\ queue[s][1] = h /\ 1 \in DOMAIN queue[s]
  BY <1>0, <1>h DEF Serve
<1>2. process[h] \in {"queued", "lost"} /\ Target(h) = s
  BY <1>1 DEF HInv, Queues
<1>3. /\ queue' = [queue EXCEPT ![s] = Tail(@)] /\ UNCHANGED <<job, age>>
      /\ \A p \in Processes : p # h => process'[p] = process[p]
      /\ process'[h] = IF process[h] = "queued" THEN "served" ELSE process[h]
  BY <1>0, <1>h DEF Serve
<1>4. /\ \A r \in Servers : r # s => queue'[r] = queue[r]
      /\ queue'[s] = Tail(queue[s])
  BY <1>0, <1>3
<1>5. \A i \in DOMAIN Tail(queue[s]) :
        i + 1 \in DOMAIN queue[s] /\ Tail(queue[s])[i] = queue[s][i + 1]
        /\ i \in Nat /\ i > 0
  BY <1>1
<1>6. \A i \in DOMAIN queue[s] : i # 1 =>
        /\ i \in Nat /\ i - 1 \in DOMAIN Tail(queue[s])
        /\ Tail(queue[s])[i - 1] = queue[s][i]
  BY <1>1
<1>7. \A i \in DOMAIN queue[s] : queue[s][i] = h => i = 1
  BY <1>1 DEF HInv, Queues
<1>8. Queues'
  <2>1. ASSUME NEW r \in Servers, NEW i \in DOMAIN queue'[r]
        PROVE  (/\ process[queue[r][i]] \in {"queued", "lost"}
                /\ Target(queue[r][i]) = r
                /\ \A k \in DOMAIN queue[r] :
                     queue[r][k] = queue[r][i] => k = i)'
    <3>1. CASE r # s
      <4>p. PICK p \in Processes : p = queue[r][i] /\ i \in DOMAIN queue[r]
        BY <1>0, <1>4, <2>1, <3>1
      <4>1. /\ process[p] \in {"queued", "lost"} /\ Target(p) = r
            /\ \A k \in DOMAIN queue[r] : queue[r][k] = p => k = i
        BY <4>p DEF HInv, Queues
      <4>2. process'[p] = process[p]
        BY <1>2, <1>3, <3>1, <4>1
      <4> QED  BY <1>3, <1>4, <3>1, <4>p, <4>1, <4>2 DEF Target
    <3>2. CASE r = s
      <4>1. /\ i + 1 \in DOMAIN queue[s] /\ queue'[s][i] = queue[s][i + 1]
            /\ i \in Nat /\ i > 0
        BY <1>4, <1>5, <2>1, <3>2
      <4>p. PICK p \in Processes : p = queue[s][i + 1]
        BY <1>1, <4>1
      <4>2. /\ process[p] \in {"queued", "lost"} /\ Target(p) = s
            /\ \A k \in DOMAIN queue[s] : queue[s][k] = p => k = i + 1
        BY <4>1, <4>p DEF HInv, Queues
      <4>3. process'[p] = process[p]
        BY <1>3, <1>7, <4>1, <4>p
      <4>4. \A k \in DOMAIN queue'[s] : queue'[s][k] = p => k = i
        BY <1>4, <1>5, <4>1, <4>2
      <4> QED  BY <1>3, <3>2, <4>1, <4>p, <4>2, <4>3, <4>4 DEF Target
    <3> QED  BY <3>1, <3>2
  <2>2. ASSUME NEW p \in Processes, process'[p] = "queued"
        PROVE  (\E i \in DOMAIN queue[Target(p)] : queue[Target(p)][i] = p)'
    <3>t. PICK t : t = Target(p)
      OBVIOUS
    <3>1. p # h /\ process[p] = "queued" /\ Target(p)' = t
      BY <1>3, <2>2, <3>t DEF Target
    <3>2. t \in Servers
      BY <3>1, <3>t, TargetIsServer DEF HInv
    <3>3. PICK i \in DOMAIN queue[t] : queue[t][i] = p
      BY <3>1, <3>t DEF HInv, Queues
    <3>4. \E k \in DOMAIN queue'[t] : queue'[t][k] = p
      <4>1. CASE t = s
        <5>1. i \in DOMAIN queue[s] /\ queue[s][i] = p /\ i # 1
          BY <1>1, <3>1, <3>3, <4>1
        <5>2. i - 1 \in DOMAIN queue'[s] /\ queue'[s][i - 1] = p
          BY <1>4, <1>6, <5>1
        <5> QED  BY <4>1, <5>2
      <4>2. CASE t # s
        BY <1>4, <3>2, <3>3, <4>2
      <4> QED  BY <4>1, <4>2
    <3> QED  BY <3>1, <3>4
  <2> QED  BY <2>1, <2>2 DEF Queues
<1>9. Pace'
  <2>1. \A p \in Processes :
          /\ process'[p] = "none" <=> process[p] = "none"
          /\ process'[p] = "running" <=> process[p] = "running"
    BY <1>2, <1>3
  <2> QED  BY <1>3, <2>1 DEF HInv, Pace, Paced, Earlier
<1>10. Order'
  <2> SUFFICES ASSUME NEW p \in Processes, NEW q \in Processes,
                      process'[p] = "queued", process'[q] # "none",
                      age'[p] <= Latency, Earlier(p, q)',
                      Target(p)' = Target(q)'
               PROVE  /\ process'[q] # "served"
                      /\ \A b \in DOMAIN queue'[Target(p)'] :
                           queue'[Target(p)'][b] = q =>
                             \E a \in DOMAIN queue'[Target(p)'] :
                               a < b /\ queue'[Target(p)'][a] = p
    BY DEF Order
  <2>t. PICK t : t = Target(p)
    OBVIOUS
  <2>1. /\ p # h /\ process[p] = "queued" /\ process[q] # "none"
        /\ age[p] <= Latency /\ Earlier(p, q) /\ Target(q) = t
        /\ Target(p)' = t
    BY <1>2, <1>3, <2>t DEF Earlier, Paced, Target
  <2>2. t \in Servers
    BY <2>1, <2>t, TargetIsServer DEF HInv
  <2>3. /\ process[q] # "served"
        /\ \A b \in DOMAIN queue[t] : queue[t][b] = q =>
             \E a \in DOMAIN queue[t] : a < b /\ queue[t][a] = p
    BY <2>1, <2>t DEF HInv, Order
  <2>4. q # h
    <3> SUFFICES ASSUME q = h PROVE FALSE
      OBVIOUS
    <3>1. t = s
      BY <1>2, <2>1
    <3>2. PICK a \in DOMAIN queue[s] : a < 1
      BY <1>1, <2>3, <3>1
    <3> QED  BY <1>1, <3>2
  <2>5. process'[q] # "served"
    BY <1>3, <2>3, <2>4
  <2>6. ASSUME NEW b \in DOMAIN queue'[t], queue'[t][b] = q
        PROVE  \E a \in DOMAIN queue'[t] : a < b /\ queue'[t][a] = p
    <3>1. CASE t # s
      BY <1>4, <2>2, <2>3, <2>6, <3>1
    <3>2. CASE t = s
      <4>1. b + 1 \in DOMAIN queue[s] /\ queue[s][b + 1] = q /\ b \in Nat
        BY <1>4, <1>5, <2>6, <3>2
      <4>2. PICK a \in DOMAIN queue[s] : a < b + 1 /\ queue[s][a] = p
        BY <2>3, <3>2, <4>1
      <4>3. a # 1
        BY <1>1, <2>1, <4>2
      <4>4. /\ a \in Nat /\ a - 1 \in DOMAIN queue'[s]
            /\ queue'[s][a - 1] = p
        BY <1>4, <1>6, <4>2, <4>3
      <4>5. a - 1 < b
        BY <4>1, <4>2, <4>4
      <4> QED  BY <3>2, <4>4, <4>5
    <3> QED  BY <3>1, <3>2
  <2> QED  BY <2>1, <2>5, <2>6
<1> QED  BY <1>8, <1>9, <1>10

LEMMA RequestKeeps ==
  ASSUME HInv, NEW j \in Jobs, HandleRequest(j)
  PROVE  Queues' /\ Pace' /\ Order'
<1>1. PICK g \in Handled : job' = [job EXCEPT ![j] = g]
  BY DEF HandleRequest
<1>2. /\ job[j] = None /\ UNCHANGED <<queue, process, age>>
      /\ \A i \in Jobs : i # j => job'[i] = job[i]
  BY <1>1 DEF HandleRequest, HInv, TypeOK
<1>3. \A p \in Processes : process[p] # "none" => job'[p[1]] = job[p[1]]
  BY <1>2, ProcessNames DEF HInv, Named
<1>4. \A s \in Servers : \A i \in DOMAIN queue[s] :
        queue[s][i] \in Processes /\ process[queue[s][i]] # "none"
  BY InQueue
<1>5. Queues'
  BY <1>2, <1>3, <1>4 DEF HInv, Queues, Target
<1>6. Pace'
  BY <1>2, <1>3 DEF HInv, Pace, Paced, Earlier
<1>7. Order'
  BY <1>2, <1>3, OrderStands
<1> QED  BY <1>5, <1>6, <1>7

LEMMA TurnKeeps ==
  ASSUME HInv, NEW j \in Jobs, NEW stage \in {"running", "failed"},
         RunCommand(j, stage)
  PROVE  Queues' /\ Pace' /\ Order'
<1>0. /\ process \in [Processes -> Stages] /\ stage \in Stages
      /\ age \in [Processes -> 0..(Latency + 1)] /\ Latency \in Nat
  BY TimesAssumption DEF HInv, TypeOK, Stages
<1>q. PICK new : new = <<j, job[j].next>>
  OBVIOUS
<1>1. /\ new \in Processes /\ process[new] = "none" /\ new[1] = j
      /\ process' = [process EXCEPT ![new] = stage]
      /\ \A p \in Processes : p[1] = j /\ process[p] # "none" =>
           p[2] \in Int /\ p[2] < new[2]
      /\ new[2] \in Int
  BY <1>0, <1>q, TurnNames DEF HInv
<1>2. /\ job[j].sleep = 0 /\ job'[j].cmds = job[j].cmds
      /\ job[j] # None /\ job'[j] \in Goroutines
      /\ job'[j].delay = job[j].delay /\ job'[j].jitter = job[j].jitter
      /\ job'[j].sleep \in Nat /\ (Paced(j) => job'[j].sleep > Latency)
      /\ \A i \in Jobs : i # j => job'[i] = job[i]
      /\ UNCHANGED <<queue, age>>
  BY LoopTurn DEF HInv
<1>3. job'[j] # None
  BY <1>2, LimitsAssumption
<1>4. \A p \in Processes :
        /\ job'[p[1]].cmds = job[p[1]].cmds
        /\ Paced(p[1])' <=> Paced(p[1])
  BY <1>2, <1>3, ProcessNames DEF Paced
<1>5. /\ process'[new] = stage
      /\ \A p \in Processes : p # new => process'[p] = process[p]
  BY <1>0, <1>1
<1>6. \A s \in Servers : \A i \in DOMAIN queue[s] :
        /\ queue[s][i] \in Processes /\ queue[s][i] # new
        /\ process'[queue[s][i]] = process[queue[s][i]]
  <2> TAKE s \in Servers
  <2> TAKE i \in DOMAIN queue[s]
  <2>p. PICK p \in Processes : p = queue[s][i]
    BY DEF HInv, TypeOK
  <2>1. process[p] \in {"queued", "lost"}
    BY <2>p DEF HInv, Queues
  <2> QED  BY <1>1, <1>5, <2>p, <2>1
<1>7. Queues'
  <2>1. \A s \in Servers : \A i \in DOMAIN queue[s] :
          job'[queue[s][i][1]].cmds = job[queue[s][i][1]].cmds
    BY <1>4, <1>6
  <2>2. \A p \in Processes : process'[p] = "queued" => process[p] = "queued"
    BY <1>5
  <2>3. Queues
    BY DEF HInv
  <2>4. ASSUME NEW s \in Servers, NEW i \in DOMAIN queue'[s]
        PROVE  (/\ process[queue[s][i]] \in {"queued", "lost"}
                /\ Target(queue[s][i]) = s
                /\ \A k \in DOMAIN queue[s] :
                     queue[s][k] = queue[s][i] => k = i)'
    <3>1. queue'[s] = queue[s]
      BY <1>2
    <3>2. /\ process[queue[s][i]] \in {"queued", "lost"}
          /\ Target(queue[s][i]) = s
          /\ \A k \in DOMAIN queue[s] : queue[s][k] = queue[s][i] => k = i
      BY <2>3, <2>4, <3>1 DEF Queues
    <3>3. Target(queue[s][i])' = Target(queue[s][i])
      BY <1>2, <2>1, <2>4, <3>1 DEF Target
    <3> QED  BY <1>2, <1>6, <2>4, <3>1, <3>2, <3>3
  <2>5. ASSUME NEW p \in Processes, process'[p] = "queued"
        PROVE  (\E i \in DOMAIN queue[Target(p)] : queue[Target(p)][i] = p)'
    <3>1. Target(p)' = Target(p)
      BY <1>4 DEF Target
    <3> QED  BY <1>2, <2>2, <2>3, <2>5, <3>1 DEF Queues
  <2> QED  BY <2>4, <2>5 DEF Queues
<1>8. Pace'
  <2>1. \A p \in Processes : process'[p] = "none" => age'[p] = 0
    BY <1>1, <1>2, <1>5 DEF HInv, Pace
  <2>2. ASSUME NEW p \in Processes, Paced(p[1])', process'[p] = "running"
        PROVE  age'[p] + job'[p[1]].sleep > Latency
    <3>a. age[p] \in Nat
      BY <1>0
    <3>1. CASE p = new
      BY <1>0, <1>1, <1>2, <1>4, <2>2, <3>1, <3>a
    <3>2. CASE p # new /\ p[1] = j
      <4>1. Paced(p[1]) /\ process[p] = "running" /\ job[p[1]].sleep = 0
        BY <1>2, <1>4, <1>5, <2>2, <3>2
      <4>2. age[p] + job[p[1]].sleep > Latency
        BY <4>1 DEF HInv, Pace
      <4>3. age[p] + 0 > Latency
        BY <4>1, <4>2
      <4> QED  BY <1>0, <1>2, <3>2, <3>a, <4>3
    <3>3. CASE p # new /\ p[1] # j
      BY <1>2, <1>4, <1>5, <2>2, <3>3, ProcessNames DEF HInv, Pace
    <3> QED  BY <3>1, <3>2, <3>3
  <2>3. ASSUME NEW p \in Processes, NEW q \in Processes, Earlier(p, q)',
               process'[q] # "none", process'[p] = "running"
        PROVE  age'[p] > Latency
    <3>0. Earlier(p, q)
      BY <1>4, <2>3 DEF Earlier
    <3>1. CASE q = new
      <4>1. p # new /\ p[1] = j /\ Paced(j)
        BY <1>1, <3>0, <3>1 DEF Earlier
      <4>2. process[p] = "running"
        BY <1>5, <2>3, <4>1
      <4>3. age[p] + 0 > Latency
        BY <1>2, <4>1, <4>2 DEF HInv, Pace
      <4> QED  BY <1>0, <1>2, <4>3
    <3>2. CASE q # new /\ p = new
      <4>1. process[q] # "none" /\ q[1] = j
        BY <1>1, <1>5, <2>3, <3>0, <3>2 DEF Earlier
      <4>2. q[2] \in Int /\ q[2] < new[2] /\ new[2] < q[2]
        BY <1>1, <3>0, <3>2, <4>1 DEF Earlier
      <4> QED  BY <1>1, <4>2
    <3>3. CASE q # new /\ p # new
      BY <1>2, <1>5, <2>3, <3>0, <3>3 DEF HInv, Pace
    <3> QED  BY <3>1, <3>2, <3>3
  <2> QED  BY <2>1, <2>2, <2>3 DEF Pace
<1>9. Order'
  <2> SUFFICES ASSUME NEW p \in Processes, NEW q \in Processes,
                      process'[p] = "queued", process'[q] # "none",
                      age'[p] <= Latency, Earlier(p, q)',
                      Target(p)' = Target(q)'
               PROVE  (/\ process[q] # "served"
                       /\ \A b \in DOMAIN queue[Target(p)] :
                            queue[Target(p)][b] = q =>
                              \E a \in DOMAIN queue[Target(p)] :
                                a < b /\ queue[Target(p)][a] = p)'
    BY DEF Order
  <2>t. PICK t : t = Target(p)
    OBVIOUS
  <2>1. /\ process[p] = "queued" /\ age[p] <= Latency /\ Earlier(p, q)
        /\ Target(p)' = t /\ Target(q) = t
    BY <1>2, <1>4, <1>5, <2>t DEF Earlier, Target
  <2>2. t \in Servers
    BY <2>1, <2>t, TargetIsServer DEF HInv
  <2>3. CASE q = new
    BY <1>2, <1>5, <1>6, <2>1, <2>2, <2>3
  <2>4. CASE q # new
    BY <1>2, <1>5, <2>1, <2>t, <2>4 DEF HInv, Order
  <2> QED  BY <2>3, <2>4
<1> QED  BY <1>7, <1>8, <1>9

LEMMA ConnectKeeps ==
  ASSUME HInv, NEW new \in Processes, Connects(new)
  PROVE  Queues' /\ Pace' /\ Order'
<1>0. /\ queue \in [Servers -> Seq(Processes)]
      /\ process \in [Processes -> Stages]
  BY DEF HInv, TypeOK
<1>t. PICK to \in Servers : to = Target(new)
  BY TargetIsServer DEF HInv, Connects
<1>1. /\ process[new] = "running"
      /\ process' = [process EXCEPT ![new] = "queued"]
      /\ queue' = [queue EXCEPT ![to] = Append(@, new)]
      /\ UNCHANGED <<job, age>>
  BY <1>t DEF Connects
<1>2. /\ process'[new] = "queued"
      /\ \A p \in Processes : p # new => process'[p] = process[p]
  BY <1>0, <1>1
<1>l. PICK last \in Nat \ {0} : last = Len(queue[to]) + 1
  BY <1>0
<1>3. /\ \A s \in Servers : s # to => queue'[s] = queue[s]
      /\ \A i \in DOMAIN queue[to] :
           i \in DOMAIN queue'[to] /\ queue'[to][i] = queue[to][i]
           /\ i \in Nat /\ i < last
      /\ \A i \in DOMAIN queue'[to] : i \in DOMAIN queue[to] \/ i = last
      /\ last \in DOMAIN queue'[to] /\ queue'[to][last] = new
  <2>1. queue[to] \in Seq(Processes) /\ queue'[to] = Append(queue[to], new)
    BY <1>0, <1>1
  <2>2. \A s \in Servers : s # to => queue'[s] = queue[s]
    BY <1>0, <1>1
  <2> QED  BY <1>l, <2>1, <2>2
<1>4. \A s \in Servers : \A i \in DOMAIN queue[s] :
        queue[s][i] \in Processes /\ queue[s][i] # new
  <2> TAKE s \in Servers
  <2> TAKE i \in DOMAIN queue[s]
  <2>p. PICK p \in Processes : p = queue[s][i]
    BY <1>0
  <2>1. process[p] \in {"queued", "lost"}
    BY <2>p DEF HInv, Queues
  <2> QED  BY <1>1, <2>p, <2>1
<1>5. Queues'
  <2>1. ASSUME NEW s \in Servers, NEW i \in DOMAIN queue'[s]
        PROVE  (/\ process[queue[s][i]] \in {"queued", "lost"}
                /\ Target(queue[s][i]) = s
                /\ \A k \in DOMAIN queue[s] :
                     queue[s][k] = queue[s][i] => k = i)'
    <3>1. CASE s = to /\ i = last
      <4>1. \A k \in DOMAIN queue'[to] : queue'[to][k] = new => k = last
        BY <1>3, <1>4
      <4> QED  BY <1>1, <1>2, <1>3, <1>t, <3>1, <4>1 DEF Target
    <3>2. CASE ~(s = to /\ i = last)
      <4>1. i \in DOMAIN queue[s] /\ queue'[s][i] = queue[s][i]
        BY <1>3, <2>1, <3>2
      <4>p. PICK p \in Processes : p = queue[s][i]
        BY <1>4, <4>1
      <4>2. /\ process[p] \in {"queued", "lost"} /\ Target(p) = s /\ p # new
            /\ \A k \in DOMAIN queue[s] : queue[s][k] = p => k = i
        BY <1>4, <4>1, <4>p DEF HInv, Queues
      <4>3. \A k \in DOMAIN queue'[s] : queue'[s][k] = p => k = i
        BY <1>3, <4>2
      <4> QED  BY <1>1, <1>2, <4>1, <4>p, <4>2, <4>3 DEF Target
    <3> QED  BY <3>1, <3>2
  <2>2. ASSUME NEW p \in Processes, process'[p] = "queued"
        PROVE  (\E i \in DOMAIN queue[Target(p)] : queue[Target(p)][i] = p)'
    <3>t. PICK t : t = Target(p)
      OBVIOUS
    <3>0. Target(p)' = t
      BY <1>1, <3>t DEF Target
    <3>1. \E i \in DOMAIN queue'[t] : queue'[t][i] = p
      <4>1. CASE p = new
        BY <1>3, <1>t, <3>t, <4>1
      <4>2. CASE p # new
        <5>1. process[p] = "queued"
          BY <1>2, <2>2, <4>2
        <5>2. t \in Servers
          BY <3>t, <5>1, TargetIsServer DEF HInv
        <5>3. PICK i \in DOMAIN queue[t] : queue[t][i] = p
          BY <3>t, <5>1 DEF HInv, Queues
        <5> QED  BY <1>3, <5>2, <5>3
      <4> QED  BY <4>1, <4>2
    <3> QED  BY <3>0, <3>1
  <2> QED  BY <2>1, <2>2 DEF Queues
<1>6. Pace'
  <2>1. \A p \in Processes :
          /\ process'[p] = "none" <=> process[p] = "none"
          /\ process'[p] = "running" => process[p] = "running"
    BY <1>1, <1>2
  <2> QED  BY <1>1, <2>1 DEF HInv, Pace, Paced, Earlier
<1>7. Order'
  <2> SUFFICES ASSUME NEW p \in Processes, NEW q \in Processes,
                      process'[p] = "queued", process'[q] # "none",
                      age'[p] <= Latency, Earlier(p, q)',
                      Target(p)' = Target(q)'
               PROVE  (/\ process[q] # "served"
                       /\ \A b \in DOMAIN queue[Target(p)] :
                            queue[Target(p)][b] = q =>
                              \E a \in DOMAIN queue[Target(p)] :
                                a < b /\ queue[Target(p)][a] = p)'
    BY DEF Order
  <2>t. PICK t : t = Target(p)
    OBVIOUS
  <2>1. /\ process[q] # "none" /\ age[p] <= Latency /\ Earlier(p, q)
        /\ Target(p)' = t /\ Target(q) = t
    BY <1>1, <1>2, <2>t DEF Earlier, Paced, Target
  <2>2. p # new
    <3> SUFFICES ASSUME p = new PROVE FALSE
      OBVIOUS
    <3>1. age[p] > Latency
      BY <1>1, <2>1 DEF HInv, Pace
    <3>2. age[p] \in Int /\ Latency \in Int
      BY TimesAssumption DEF HInv, TypeOK
    <3> QED  BY <2>1, <3>1, <3>2
  <2>3. process[p] = "queued"
    BY <1>2, <2>2
  <2>4. t \in Servers
    BY <2>3, <2>t, TargetIsServer DEF HInv
  <2>5. /\ process[q] # "served"
        /\ \A b \in DOMAIN queue[t] : queue[t][b] = q =>
             \E a \in DOMAIN queue[t] : a < b /\ queue[t][a] = p
    BY <2>1, <2>3, <2>t DEF HInv, Order
  <2>6. PICK c \in DOMAIN queue[t] : queue[t][c] = p
    BY <2>3, <2>t DEF HInv, Queues
  <2>7. process'[q] # "served"
    BY <1>2, <2>5
  <2>8. ASSUME NEW b \in DOMAIN queue'[t], queue'[t][b] = q
        PROVE  \E a \in DOMAIN queue'[t] : a < b /\ queue'[t][a] = p
    <3>1. CASE t # to
      BY <1>3, <2>4, <2>5, <2>8, <3>1
    <3>2. CASE t = to /\ b = last
      BY <1>3, <2>6, <3>2
    <3>3. CASE t = to /\ b # last
      BY <1>3, <2>5, <2>8, <3>3
    <3> QED  BY <3>1, <3>2, <3>3
  <2> QED  BY <2>1, <2>7, <2>8
<1> QED  BY <1>5, <1>6, <1>7

LEMMA TickKeeps ==
  ASSUME HInv, Tick
  PROVE  Queues' /\ Pace' /\ Order'
<1>0. /\ age \in [Processes -> 0..(Latency + 1)] /\ Latency \in Nat
  BY TimesAssumption DEF HInv, TypeOK
<1>1. UNCHANGED <<queue, process>>
  BY DEF Tick
<1>2. Steady
  BY OthersSteady DEF HInv
<1>3. /\ \A j \in Jobs : Paced(j)' <=> Paced(j)
      /\ \A p \in Processes : process[p] # "none" => Target(p)' = Target(p)
  BY <1>2, SteadyKeeps DEF HInv
<1>4. ASSUME NEW p \in Processes
      PROVE  /\ age[p] \in Nat /\ age'[p] \in Nat /\ age'[p] >= age[p]
             /\ process[p] = "running" /\ age[p] <= Latency =>
                  age'[p] = age[p] + 1
             /\ process[p] = "none" => age'[p] = age[p]
  <2>1. age'[p] = IF process[p] = "running" /\ age[p] <= Latency
                  THEN age[p] + 1 ELSE age[p]
    BY DEF Tick
  <2>2. age[p] \in Nat
    BY <1>0
  <2> QED  BY <1>0, <2>1, <2>2
<1>5. Queues'
  <2>1. \A s \in Servers : \A i \in DOMAIN queue[s] :
          /\ queue[s][i] \in Processes /\ process[queue[s][i]] # "none"
    BY InQueue
  <2> QED  BY <1>1, <1>3, <2>1 DEF HInv, Queues, Target
<1>6. Pace'
  <2>1. \A p \in Processes : process'[p] = "none" => age'[p] = 0
    BY <1>1, <1>4 DEF HInv, Pace
  <2>2. ASSUME NEW p \in Processes, Paced(p[1])', process'[p] = "running"
        PROVE  age'[p] + job'[p[1]].sleep > Latency
    <3>j. PICK j \in Jobs : j = p[1]
      BY ProcessNames
    <3>1. process[p] = "running" /\ Paced(j)
      BY <1>1, <1>3, <2>2, <3>j
    <3>2. /\ job[j] # None
          /\ job'[j].sleep = IF job[j].sleep > 0 THEN job[j].sleep - 1 ELSE 0
      <4>1. TypeOK /\ job[j] # None
        BY <3>1 DEF HInv, Paced
      <4> QED  BY <4>1, TickOfJob
    <3>3. job[j].sleep \in Nat
      BY <3>2 DEF HInv, TypeOK, Goroutines
    <3>4. age[p] + job[j].sleep > Latency
      BY <3>1, <3>j DEF HInv, Pace
    <3>5. age[p] \in Nat /\ age'[p] \in Nat /\ age'[p] >= age[p]
          /\ (age[p] <= Latency => age'[p] = age[p] + 1)
      BY <1>4, <3>1
    <3> QED  BY <1>0, <3>2, <3>3, <3>4, <3>5, <3>j
  <2>3. ASSUME NEW p \in Processes, NEW q \in Processes, Earlier(p, q)',
               process'[q] # "none", process'[p] = "running"
        PROVE  age'[p] > Latency
    <3>1. Earlier(p, q)
      BY <1>3, <2>3, ProcessNames DEF Earlier
    <3>2. age[p] > Latency
      BY <1>1, <2>3, <3>1 DEF HInv, Pace
    <3> QED  BY <1>0, <1>4, <3>2
  <2> QED  BY <2>1, <2>2, <2>3 DEF Pace
<1>7. Order'
  <2> SUFFICES ASSUME NEW p \in Processes, NEW q \in Processes,
                      process'[p] = "queued", process'[q] # "none",
                      age'[p] <= Latency, Earlier(p, q)',
                      Target(p)' = Target(q)'
               PROVE  (/\ process[q] # "served"
                       /\ \A b \in DOMAIN queue[Target(p)] :
                            queue[Target(p)][b] = q =>
                              \E a \in DOMAIN queue[Target(p)] :
                                a < b /\ queue[Target(p)][a] = p)'
    BY DEF Order
  <2>1. /\ process[p] = "queued" /\ process[q] # "none" /\ age[p] <= Latency
        /\ Earlier(p, q) /\ Target(p)' = Target(p) /\ Target(q)' = Target(q)
    BY <1>0, <1>1, <1>3, <1>4, ProcessNames DEF Earlier
  <2>t. PICK t : t = Target(p)
    OBVIOUS
  <2>2. Target(p)' = t /\ Target(q) = t
    BY <2>1, <2>t
  <2>3. /\ process[q] # "served"
        /\ \A b \in DOMAIN queue[t] : queue[t][b] = q =>
             \E a \in DOMAIN queue[t] : a < b /\ queue[t][a] = p
    BY <2>1, <2>2, <2>t DEF HInv, Order
  <2> QED  BY <1>1, <2>2, <2>3
<1> QED  BY <1>5, <1>6, <1>7

-----------------------------------------------------------------------------
(***************************************************************************)
(* The theorems                                                            *)
(***************************************************************************)

LEMMA InitEstablishes == Init => HInv
<1> SUFFICES ASSUME Init PROVE HInv
  OBVIOUS
<1>1. /\ \A p \in Processes : process[p] = "none" /\ age[p] = 0
      /\ \A j \in Jobs : job[j] = None
      /\ \A s \in Servers : queue[s] = <<>> /\ server[s] = "absent"
      /\ plant = "starting" /\ toStart = StartOrder
  BY DEF Init
<1>2. InTable = {}
  BY <1>1 DEF InTable
<1>3. TableFull
  BY <1>1, <1>2, FS_EmptySet DEF TableFull
<1>4. StartsOnce
  BY <1>1 DEF StartsOnce, Servers
<1>5. Queues
  BY <1>1 DEF Queues
<1>6. Named /\ Pace /\ Order
  BY <1>1 DEF Named, Pace, Order
<1> QED  BY <1>3, <1>4, <1>5, <1>6, InitTyped DEF HInv

\* A container's step, a server's, a process's, a goroutine's, or time: each keeps
\* the names, the table, the queues, the pauses and the order.
THEOREM Invariance == Spec => []HInv
<1>1. Init => HInv
  BY InitEstablishes
<1>2. HInv /\ [Next]_vars => HInv'
  <2> SUFFICES ASSUME HInv, [Next]_vars PROVE HInv'
    OBVIOUS
  <2>0. TypeOK /\ StartsOnce /\ Named /\ TableFull
    BY DEF HInv
  <2>1. CASE PlantStep \/ StartServerFails
    <3>1. Steady
      BY <2>0, <2>1, OthersSteady
    <3>2. UNCHANGED <<queue, process, job, age>>
      BY <2>1 DEF PlantStep, StartServer, StartServerFails, ListenAndServe,
                  PlantRestarts
    <3> QED
      BY <2>0, <2>1, <3>1, <3>2, PlantTyped, SteadyKeeps, QueuesStand DEF HInv
  <2>2. CASE PlantDies
    <3>1. Steady
      BY <2>0, <2>2, OthersSteady
    <3>2. /\ Reset(Servers) /\ UNCHANGED <<job, age>>
          /\ queue' = [s \in Servers |->
                         IF s \in Servers THEN <<>> ELSE queue[s]]
      BY <2>2 DEF PlantDies
    <3>3. Queues' /\ Pace' /\ Order'
      BY <3>1, <3>2, ResetKeeps
    <3> QED  BY <2>0, <2>2, <3>1, <3>3, PlantTyped, SteadyKeeps DEF HInv
  <2>3. ASSUME NEW s \in Servers, ServerListens(s) PROVE HInv'
    <3>1. Steady
      BY <2>0, <2>3, OthersSteady
    <3>2. UNCHANGED <<queue, process, job, age>>
      BY <2>3 DEF ServerListens
    <3> QED
      BY <2>0, <2>3, <3>1, <3>2, ServerTyped, SteadyKeeps, QueuesStand DEF HInv
  <2>4. ASSUME NEW s \in Servers, ServerEnds(s) PROVE HInv'
    <3>1. Steady
      BY <2>0, <2>4, OthersSteady
    <3>2. /\ Reset({s}) /\ UNCHANGED <<job, age>>
          /\ queue' = [r \in Servers |->
                         IF r \in {s} THEN <<>> ELSE queue[r]]
      BY <2>0, <2>4 DEF ServerEnds, TypeOK
    <3>3. Queues' /\ Pace' /\ Order'
      BY <3>1, <3>2, ResetKeeps
    <3> QED  BY <2>0, <2>4, <3>1, <3>3, ServerTyped, SteadyKeeps DEF HInv
  <2>5. ASSUME NEW s \in Servers, Serve(s) PROVE HInv'
    <3>1. Steady
      BY <2>0, <2>5, OthersSteady
    <3> QED  BY <2>0, <2>5, <3>1, ServerTyped, SteadyKeeps, ServeKeeps DEF HInv
  <2>6. ASSUME NEW j \in Jobs, HandleRequest(j) PROVE HInv'
    BY <2>0, <2>6, HmiTyped, RequestNames, RequestKeeps DEF HInv
  <2>7. ASSUME NEW j \in Jobs, Goes(j) PROVE HInv'
    <3>1. PICK stage \in {"running", "failed"} : RunCommand(j, stage)
      BY <2>7 DEF Goes, StartProcess, StartProcessFails
    <3>2. stage \in Stages /\ stage # "none"
      BY DEF Stages
    <3>3. Named'
      BY <2>0, <3>1, <3>2, TurnNames
    <3>4. TableFull'
      BY <2>0, <2>7, TurnTable
    <3>5. TypeOK' /\ StartsOnce'
      BY <2>0, <2>7, HmiTyped
    <3>6. Queues' /\ Pace' /\ Order'
      BY <3>1, TurnKeeps
    <3> QED  BY <3>3, <3>4, <3>5, <3>6 DEF HInv
  <2>8. ASSUME NEW p \in Processes, Connects(p) PROVE HInv'
    <3>0. ProcessStep(p)
      BY <2>8 DEF ProcessStep
    <3>1. Steady
      BY <2>0, <3>0, OthersSteady
    <3> QED  BY <2>0, <2>8, <3>0, <3>1, ProcessTyped, SteadyKeeps, ConnectKeeps
             DEF HInv
  <2>9. ASSUME NEW p \in Processes, ConnectFails(p) PROVE HInv'
    <3>0. ProcessStep(p)
      BY <2>9 DEF ProcessStep
    <3>1. Steady
      BY <2>0, <3>0, OthersSteady
    <3>2. /\ UNCHANGED <<queue, job, age>>
          /\ \A q \in Processes :
               \/ process'[q] = process[q]
               \/ process[q] = "running" /\ process'[q] = "refused"
      BY <2>0, <2>9 DEF ConnectFails, TypeOK
    <3>3. Queues' /\ Pace' /\ Order'
      BY <3>1, <3>2, QueuesStand
    <3> QED  BY <2>0, <3>0, <3>1, <3>3, ProcessTyped, SteadyKeeps DEF HInv
  <2>10. CASE HmiDies
    <3>1. Steady
      BY <2>0, <2>10, OthersSteady
    <3>2. /\ UNCHANGED <<queue, job, age>>
          /\ \A q \in Processes :
               \/ process'[q] = process[q]
               \/ process[q] \in {"queued", "running"} /\ process'[q] = "lost"
      BY <2>10 DEF HmiDies
    <3>3. Queues' /\ Pace' /\ Order'
      BY <3>1, <3>2, QueuesStand
    <3> QED  BY <2>0, <2>10, <3>1, <3>3, HmiTyped, SteadyKeeps DEF HInv
  <2>11. CASE Tick
    <3>1. Steady
      BY <2>0, <2>11, OthersSteady
    <3> QED  BY <2>0, <2>11, <3>1, HmiTyped, SteadyKeeps, TickKeeps DEF HInv
  <2>12. CASE UNCHANGED vars
    <3>1. Steady /\ UNCHANGED <<queue, process, job, age>>
      BY <2>0, <2>12, OthersSteady DEF vars
    <3>2. TypeOK' /\ StartsOnce'
      BY <2>0, <2>12 DEF TypeOK, StartsOnce, vars
    <3> QED  BY <2>0, <3>1, <3>2, SteadyKeeps, QueuesStand DEF HInv
  <2>13. CASE Next
    BY <2>1, <2>2, <2>3, <2>4, <2>5, <2>6, <2>7, <2>8, <2>9, <2>10, <2>11,
       <2>13 DEF Next, ProcessStep
  <2> QED  BY <2>12, <2>13
<1> QED  BY <1>1, <1>2, PTL DEF Spec

\* Every variable of the two containers keeps its type; only a server that listens
\* has a queue, never longer than its backlog.
THEOREM TypeCorrect == Spec => []TypeOK
<1>1. HInv => TypeOK
  BY DEF HInv
<1> QED  BY <1>1, Invariance, PTL

\* main.go:71-73 and 89: for any counts, delays, backlogs and faults, when the pause
\* less the jitter is longer than a process takes to connect, a server has done
\* with every command of the request that connected in time before it serves a
\* later one.
THEOREM PacedInOrder == Spec => []InOrderWhenPaced
<1>1. HInv => InOrderWhenPaced
  <2> SUFFICES ASSUME HInv, NEW j \in Jobs, job[j] # None,
                      job[j].delay - job[j].jitter > Latency,
                      NEW k \in DOMAIN job[j].cmds, NEW i \in 1..(k - 1),
                      process[<<j, k>>] = "served",
                      Target(<<j, i>>) = Target(<<j, k>>),
                      age[<<j, i>>] <= Latency
               PROVE  process[<<j, i>>] \notin {"running", "queued"}
    BY DEF InOrderWhenPaced
  <2>1. job[j].cmds \in Seq(Servers)
    BY DEF HInv, TypeOK, Goroutines
  <2>2. k \in Nat /\ i \in Nat /\ i < k /\ i \in DOMAIN job[j].cmds
    BY <2>1
  <2>p. PICK p \in Processes : p = <<j, i>>
    BY <2>2 DEF HInv, Named
  <2>q. PICK q \in Processes : q = <<j, k>>
    BY DEF HInv, Named
  <2>3. Earlier(p, q)
    BY <2>p, <2>q, <2>2 DEF Earlier, Paced
  <2>4. age[p] \in Int /\ Latency \in Int /\ age[p] <= Latency
    BY <2>p, TimesAssumption DEF HInv, TypeOK
  <2>5. process[p] # "running"
    <3> SUFFICES ASSUME process[p] = "running" PROVE FALSE
      OBVIOUS
    <3>1. age[p] > Latency
      BY <2>3, <2>q DEF HInv, Pace
    <3> QED  BY <2>4, <3>1
  <2>6. process[p] # "queued"
    BY <2>3, <2>4, <2>p, <2>q DEF HInv, Order
  <2> QED  BY <2>5, <2>6, <2>p
<1> QED  BY <1>1, Invariance, PTL

\* main.go:71-73: for a process table of any size, once a command has failed to
\* start no later one is started, of any request: zombies are never reaped.
THEOREM FailureIsForGood == Spec => NoProcessAfterFailure
<1>1. HInv /\ [Next]_vars =>
        [(\E p \in Processes : process[p] = "failed") =>
           \A q \in Processes :
             process[q] = "none" => process'[q] \in {"none", "failed"}]_vars
  <2> SUFFICES ASSUME HInv, Next, NEW p \in Processes, process[p] = "failed",
                      NEW q \in Processes, process[q] = "none"
               PROVE  process'[q] \in {"none", "failed"}
    BY DEF HInv
  <2>0. TypeOK /\ Named
    BY DEF HInv
  <2>1. CASE Steady
    BY <2>1 DEF Steady
  <2>2. ASSUME NEW j \in Jobs, HandleRequest(j)
        PROVE  process'[q] \in {"none", "failed"}
    BY <2>2 DEF HandleRequest
  <2>3. ASSUME NEW j \in Jobs, StartProcess(j) PROVE FALSE
    <3>1. /\ Cardinality(InTable) >= PidLimit
          /\ Cardinality(InTable) < PidLimit
          /\ Cardinality(InTable) \in Nat /\ PidLimit \in Nat
      BY <2>3, FS_CardinalityType, LimitsAssumption
         DEF HInv, TableFull, StartProcess
    <3> QED  BY <3>1
  <2>4. ASSUME NEW j \in Jobs, StartProcessFails(j)
        PROVE  process'[q] \in {"none", "failed"}
    <3>1. process' = [process EXCEPT ![<<j, job[j].next>>] = "failed"]
      BY <2>4 DEF StartProcessFails, RunCommand
    <3> QED  BY <2>0, <3>1 DEF TypeOK
  <2> QED
    BY <2>0, <2>1, <2>2, <2>3, <2>4, OthersSteady DEF Next, Goes
<1> QED  BY <1>1, Invariance, PTL DEF Spec, NoProcessAfterFailure

\* main.go:141-172: a server that is away while the API serves is started by
\* nothing but a new start of the container.
THEOREM NobodySupervises == Spec => DownUntilRestart
<1>1. TypeOK /\ [Next]_vars =>
        [\A s \in Servers :
           plant = "serving" /\ server[s] \in {"absent", "dead"} =>
             server'[s] = server[s] \/ plant' = "down"]_vars
  <2> SUFFICES ASSUME TypeOK, Next, NEW s \in Servers, plant = "serving",
                      server[s] \in {"absent", "dead"}
               PROVE  server'[s] = server[s] \/ plant' = "down"
    OBVIOUS
  <2>1. CASE PlantStep \/ StartServerFails \/ PlantDies
    BY <2>1 DEF PlantStep, StartServer, ListenAndServe, PlantRestarts,
                StartServerFails, PlantDies
  <2>2. ASSUME NEW r \in Servers, ServerListens(r) \/ ServerEnds(r) \/ Serve(r)
        PROVE  server'[s] = server[s]
    BY <2>2 DEF ServerListens, ServerEnds, Serve, TypeOK
  <2>3. CASE \/ \E j \in Jobs : HandleRequest(j) \/ Goes(j)
             \/ HmiDies \/ Tick
    BY <2>3 DEF HandleRequest, Goes, StartProcess, StartProcessFails,
                RunCommand, HmiDies, Tick
  <2>4. CASE \E p \in Processes : ProcessStep(p)
    BY <2>4 DEF ProcessStep, Connects, ConnectFails
  <2> QED  BY <2>1, <2>2, <2>3, <2>4 DEF Next
<1> QED  BY <1>1, TypeCorrect, PTL DEF Spec, DownUntilRestart
=============================================================================
