---------------------------- MODULE CoordinateEngine ----------------------------
(***************************************************************************)
(* The coordinate engine, a server that steps virtual networks and sends   *)
(* their coordinates, with its clients (safest_ext.cc and ce_client.py).   *)
(* The engine serves one connection at a time and polls the listening      *)
(* socket and the connected one in one loop.  A client sends a request and *)
(* blocks until it is answered.  The sockets lie outside src/; they are    *)
(* modelled as the two programs use them.                                  *)
(***************************************************************************)
EXTENDS Integers, Sequences, SequencesExt

CONSTANTS
  Client,       \* client processes; each has at most one connection
  None,         \* no connection
  Invalid,      \* the descriptor -1
  MaxNetworks,  \* the most networks a client sets up
  Setup,        \* the parameters clients call setup() with
  AddressLen,   \* what the uninitialized length given to accept() may be
  Patient,      \* clients connect only when the engine listens for a new one
  MaxSteps      \* bound: no coordinates are asked for after this many steps

Network == 0..MaxNetworks - 1

ASSUME NameAssumption ==
  None \notin Client \cup Nat /\ Invalid \notin Client /\ None # Invalid
ASSUME OptionAssumption ==
  /\ MaxNetworks \in Nat
  /\ MaxSteps \in Nat
  /\ Patient \in BOOLEAN
  /\ AddressLen \subseteq {"usable", "negative"}
ASSUME SetupAssumption ==
  Setup \subseteq [networks : 0..MaxNetworks, instances : Nat, pings : Nat, fit : BOOLEAN]

VARIABLES
  pc,         \* the engine: polling, receiving, answering, ..., dead
  turn,       \* which of the two dispatches of one readiness event
  conn,       \* the connection in poller[1], None while there is none
  msg,        \* the request being dispatched
  network_count,
  steps,      \* network -> how often it was stepped since it was set up
  prepared,   \* network -> the step its prepared response shows, None without one
  backlog,    \* connections that wait to be accepted
  call,       \* client -> where it is in its calls
  request,    \* client -> the last request it sent
  seen,       \* client, network it set up -> the step last returned to it
  renewed,    \* client -> it called setup() again since it connected (history)
  to_engine,  \* client -> requests on the way
  to_client,  \* client -> messages on the way
  link        \* client -> its connection: open, closed (fin) or reset (rst)

engine  == <<pc, turn, conn, msg>>
nets    == <<network_count, steps, prepared>>
clients == <<call, request, seen, renewed>>
wires   == <<backlog, to_engine, to_client, link>>
vars    == <<engine, nets, clients, wires>>

InitRequest(setup) == [type |-> "INIT", setup |-> setup]
GetRequest(network) == [type |-> "GET", network |-> network]

OK        == [type |-> "OK"]
DATA_NEXT == [type |-> "DATA_NEXT"]
Coords(network, step) == [type |-> "COORDS", network |-> network, step |-> step]
\* A message whose end never comes.
Cut       == [type |-> "CUT"]

Waiting(c) == call[c] \in {"waiting", "listening"}

\* No setup succeeds without networks, instances and pings; no distribution can be built
\* of a profile that is not fit (FullEarly in CongestionDistribution.tla) and no response
\* prepared without instances; no target can be drawn for a lone instance.
Futile(s) == s.networks = 0 \/ s.instances = 0 \/ s.pings = 0
NoResponse(s) == s.networks > 0 /\ s.instances = 0
Aborts(s) == ~s.fit \/ NoResponse(s)
Hangs(s)  == ~Aborts(s) /\ s.networks > 0 /\ s.instances = 1 /\ s.pings > 0

Init ==
  /\ pc = "poll" /\ turn = 1 /\ conn = None /\ msg = None
  /\ network_count = 0
  /\ steps = [n \in Network |-> 0]
  /\ prepared = [n \in Network |-> None]
  /\ backlog = <<>>
  /\ call = [c \in Client |-> "away"]
  /\ request = [c \in Client |-> None]
  /\ seen = [c \in Client |-> [n \in Network |-> None]]
  /\ renewed = [c \in Client |-> FALSE]
  /\ to_engine = [c \in Client |-> <<>>]
  /\ to_client = [c \in Client |-> <<>>]
  /\ link = [c \in Client |-> "none"]
-----------------------------------------------------------------------------
(* The engine.                                                             *)

\* A waiting connection is accepted.  With a bad length accept() fails after it
\* took the connection, and its result, -1, is taken for a socket.
Accept ==
  /\ pc = "poll"
  /\ backlog # <<>>
  /\ conn = None
  /\ \E len \in AddressLen :
       /\ conn' = IF len = "usable" THEN Head(backlog) ELSE Invalid
       /\ link' = IF len = "usable" THEN link
                  ELSE [link EXCEPT ![Head(backlog)] = "dropped"]
  /\ backlog' = Tail(backlog)
  /\ UNCHANGED <<pc, turn, msg, nets, clients, to_engine, to_client>>

\* Only when nobody waits to be accepted does the loop look at the connection.
Readable ==
  /\ pc = "poll"
  /\ conn \in Client
  /\ backlog = <<>>
  /\ to_engine[conn] # <<>> \/ link[conn] # "open"
  /\ pc' = IF link[conn] = "rst" THEN "dead" ELSE "recv"
  /\ turn' = 1
  /\ UNCHANGED <<conn, msg, nets, clients, wires>>

\* Mutants of Return: one dispatch for each event, whose zero means a lost client
\* though INIT returns it too; or zero means nothing.
ReturnFromOne(rc) ==
  /\ pc' = IF rc < 0 THEN "dead" ELSE "poll"
  /\ conn' = IF rc = 0 THEN None ELSE conn
  /\ UNCHANGED turn

ReturnKeeping(rc) ==
  \/ /\ turn = 1
     /\ pc' = IF rc < 0 THEN "dead" ELSE "recv"
     /\ turn' = 2
     /\ UNCHANGED conn
  \/ /\ turn = 2
     /\ pc' = "poll"
     /\ UNCHANGED <<conn, turn>>

\* dispatch() returns: the first result ends the engine when negative, the second
\* means a lost client when zero.
Return(rc) ==
  \/ /\ turn = 1
     /\ pc' = IF rc < 0 THEN "dead" ELSE "recv"
     /\ turn' = 2
     /\ UNCHANGED conn
  \/ /\ turn = 2
     /\ pc' = "poll"
     /\ conn' = IF rc = 0 THEN None ELSE conn
     /\ UNCHANGED turn

\* read_sock() has a message.
Receive ==
  /\ pc = "recv"
  /\ to_engine[conn] # <<>>
  /\ msg' = Head(to_engine[conn])
  /\ to_engine' = [to_engine EXCEPT ![conn] = Tail(@)]
  /\ pc' = "answer"
  /\ UNCHANGED <<turn, conn, nets, clients, backlog, to_client, link>>

\* read_sock() finds the connection closed or reset.
ReceiveNothing ==
  /\ pc = "recv"
  /\ to_engine[conn] = <<>>
  /\ \/ link[conn] = "fin" /\ Return(0)
     \/ link[conn] = "rst" /\ Return(-1)
  /\ UNCHANGED <<msg, nets, clients, wires>>

\* send(): a closed connection may answer with a reset, and sending on a reset one
\* kills the engine.
Send(m) ==
  /\ link[conn] # "rst"
  /\ to_client' = IF link[conn] = "open"
                  THEN [to_client EXCEPT ![conn] = Append(@, m)]
                  ELSE to_client
  /\ \/ UNCHANGED link
     \/ link[conn] = "fin" /\ link' = [link EXCEPT ![conn] = "rst"]
  /\ UNCHANGED <<backlog, to_engine>>

BrokenPipe ==
  /\ pc \in {"answer", "write"}
  /\ link[conn] = "rst"
  /\ pc' = "dead"
  /\ UNCHANGED <<turn, conn, msg, nets, clients, wires>>

\* Mutant of Prepared: the last network is left out.
PreparedButLast(s) == [n \in Network |-> IF n + 1 < s.networks THEN 1 ELSE None]

Prepared(s) == [n \in Network |-> IF n < s.networks THEN 1 ELSE None]

\* Mutant of AnswerInit: an answer for each network.
AnswerInitPerNetwork ==
  /\ pc = "answer" /\ msg.type = "INIT"
  /\ LET s == msg.setup IN
     /\ network_count' = s.networks
     /\ steps' = [n \in Network |-> 1]
     /\ prepared' = Prepared(s)
     /\ to_client' = [to_client EXCEPT ![conn] = [i \in 1..s.networks |-> OK]]
     /\ Return(IF Futile(s) THEN -1 ELSE 0)
  /\ UNCHANGED <<msg, clients, backlog, to_engine, link>>

\* Mutant of AnswerInit: the answer is sent only when initialize() succeeds.
AnswerInitOnSuccess ==
  /\ pc = "answer" /\ msg.type = "INIT"
  /\ LET s == msg.setup IN
     /\ network_count' = s.networks
     /\ steps' = [n \in Network |-> 1]
     /\ prepared' = Prepared(s)
     /\ IF Futile(s)
        THEN Return(-1) /\ UNCHANGED wires
        ELSE Return(0) /\ Send(OK)
  /\ UNCHANGED <<msg, clients>>

\* INIT: every network is made, stepped and its response prepared; the answer is
\* OK whatever initialize() returned.
AnswerInit ==
  /\ pc = "answer" /\ msg.type = "INIT"
  /\ LET s == msg.setup IN
     /\ network_count' = s.networks
     /\ steps' = [n \in Network |-> 1]
     /\ prepared' = Prepared(s)
     /\ IF Hangs(s) \/ Aborts(s)
        THEN /\ pc' = IF Hangs(s) THEN "hung" ELSE "dead"
             /\ UNCHANGED <<turn, conn, wires>>
        ELSE /\ Send(OK)
             /\ Return(IF Futile(s) THEN -1 ELSE 0)
  /\ UNCHANGED <<msg, clients>>

\* GET: data is announced before the network is looked up.
AnnounceCoordinates ==
  /\ pc = "answer" /\ msg.type = "GET"
  /\ Send(DATA_NEXT)
  /\ pc' = IF msg.network < network_count THEN "write" ELSE "dead"
  /\ UNCHANGED <<turn, conn, msg, nets, clients>>

WriteCoordinates ==
  /\ pc = "write"
  /\ Send(Coords(msg.network, prepared[msg.network]))
  /\ pc' = "step"
  /\ UNCHANGED <<turn, conn, msg, nets, clients>>

\* Mutant of StepNetwork: the response is prepared before the step.
PrepareThenStep ==
  /\ pc = "step"
  /\ steps' = [steps EXCEPT ![msg.network] = @ + 1]
  /\ prepared' = [prepared EXCEPT ![msg.network] = steps[msg.network]]
  /\ Return(1)
  /\ UNCHANGED <<msg, network_count, clients, wires>>

\* After the answer the network is stepped and the next response prepared.
StepNetwork ==
  /\ pc = "step"
  /\ steps' = [steps EXCEPT ![msg.network] = @ + 1]
  /\ prepared' = [prepared EXCEPT ![msg.network] = steps'[msg.network]]
  /\ Return(1)
  /\ UNCHANGED <<msg, network_count, clients, wires>>

\* The engine is killed, perhaps in the middle of a long message.
Killed ==
  /\ pc # "dead"
  /\ pc' = "dead"
  /\ \/ UNCHANGED to_client
     \/ /\ pc = "write" /\ link[conn] = "open"
        /\ to_client' = [to_client EXCEPT ![conn] = Append(@, Cut)]
  /\ UNCHANGED <<turn, conn, msg, nets, clients, backlog, to_engine, link>>

EngineStep ==
  \/ Accept \/ Readable \/ Receive \/ ReceiveNothing
  \/ AnswerInit \/ AnnounceCoordinates \/ WriteCoordinates \/ StepNetwork
  \/ BrokenPipe
-----------------------------------------------------------------------------
(* The clients.  They take turns: one connects after the others ended.     *)

Forgotten(c) == conn # c /\ ~Contains(backlog, c)

Listens == conn = None /\ backlog = <<>>

\* connect(): the kernel completes the connection before the engine accepts it.
Connect(c) ==
  /\ call[c] = "away" /\ Forgotten(c)
  /\ pc # "dead"
  /\ Patient => Listens
  /\ \A d \in Client \ {c} : call[d] = "away"
  /\ call' = [call EXCEPT ![c] = "connected"]
  /\ backlog' = Append(backlog, c)
  /\ to_engine' = [to_engine EXCEPT ![c] = <<>>]
  /\ to_client' = [to_client EXCEPT ![c] = <<>>]
  /\ link' = [link EXCEPT ![c] = "open"]
  /\ UNCHANGED <<engine, nets, request, seen, renewed>>

ConnectionRefused(c) ==
  /\ call[c] = "away" /\ pc = "dead"
  /\ call' = [call EXCEPT ![c] = "failed"]
  /\ UNCHANGED <<engine, nets, request, seen, renewed, wires>>

Ask(c, m) ==
  /\ request' = [request EXCEPT ![c] = m]
  /\ to_engine' = [to_engine EXCEPT ![c] = Append(@, m)]
  /\ call' = [call EXCEPT ![c] = "waiting"]
  /\ UNCHANGED <<engine, nets, backlog, to_client, link>>

\* setup(), the first of the connection or another one: nothing limits their number.
SetUp(c) ==
  /\ call[c] \in {"connected", "ready"}
  /\ \E s \in Setup :
       /\ Ask(c, InitRequest(s))
       /\ seen' = [seen EXCEPT ![c] =
                     [n \in Network |-> IF n < s.networks THEN 0 ELSE None]]
  /\ renewed' = [renewed EXCEPT ![c] = call[c] = "ready"]

\* get_next_coordinates() of a network that was set up.
GetNextCoordinates(c) ==
  /\ call[c] = "ready"
  /\ \E n \in Network :
       /\ seen[c][n] # None
       /\ seen[c][n] < MaxSteps
       /\ Ask(c, GetRequest(n))
  /\ UNCHANGED <<seen, renewed>>

Take(c) ==
  /\ to_client' = [to_client EXCEPT ![c] = Tail(@)]
  /\ UNCHANGED <<engine, nets, request, renewed, backlog, to_engine, link>>

\* wait_response() reads a status.
TakeStatus(c) ==
  /\ call[c] = "waiting" /\ to_client[c] # <<>>
  /\ \/ Head(to_client[c]) = OK
        /\ call' = [call EXCEPT ![c] = "ready"]
     \/ Head(to_client[c]) = DATA_NEXT
        /\ call' = [call EXCEPT ![c] = "listening"]
  /\ Take(c)
  /\ UNCHANGED seen

\* translate_coordinate_response() refuses coordinates of another network.
TakeCoordinates(c) ==
  /\ call[c] = "listening" /\ to_client[c] # <<>>
  /\ LET m == Head(to_client[c]) IN
     /\ m.type = "COORDS"
     /\ IF m.network = request[c].network
        THEN /\ call' = [call EXCEPT ![c] = "ready"]
             /\ seen' = [seen EXCEPT ![c][m.network] = m.step]
        ELSE /\ call' = [call EXCEPT ![c] = "failed"]
             /\ UNCHANGED seen
  /\ Take(c)

\* recv() returns nothing, or too few bytes for a header: the call raises.
HeaderFails(c) ==
  /\ Waiting(c)
  /\ \/ to_client[c] = <<>> /\ (pc = "dead" \/ link[c] = "dropped")
     \/ to_client[c] # <<>> /\ Head(to_client[c]) # Cut
  /\ call' = [call EXCEPT ![c] = "failed"]
  /\ UNCHANGED <<engine, nets, request, seen, renewed, wires>>

\* The client ends, by itself or not, and what it knew with it.  Unread data makes that
\* a reset.
Leave(c) ==
  /\ call[c] # "away"
  /\ call' = [call EXCEPT ![c] = "away"]
  /\ link' = [link EXCEPT ![c] = IF to_client[c] = <<>> THEN "fin" ELSE "rst"]
  /\ request' = [request EXCEPT ![c] = None]
  /\ seen' = [seen EXCEPT ![c] = [n \in Network |-> None]]
  /\ renewed' = [renewed EXCEPT ![c] = FALSE]
  /\ UNCHANGED <<engine, nets, backlog, to_engine, to_client>>

ClientStep(c) ==
  \/ Connect(c) \/ ConnectionRefused(c) \/ SetUp(c) \/ GetNextCoordinates(c)
  \/ TakeStatus(c) \/ TakeCoordinates(c) \/ HeaderFails(c) \/ Leave(c)

\* A client that waits gets on when it can.
WakeUp(c) == TakeStatus(c) \/ TakeCoordinates(c) \/ HeaderFails(c)

Next == EngineStep \/ Killed \/ \E c \in Client : ClientStep(c)

Spec == Init /\ [][Next]_vars

\* The engine runs on, and so does a client that has something to read.
Fairness == WF_vars(EngineStep) /\ \A c \in Client : WF_vars(WakeUp(c))

FairSpec == Spec /\ Fairness
-----------------------------------------------------------------------------
(* Properties.                                                             *)

Requests == {InitRequest(s) : s \in Setup} \cup {GetRequest(n) : n \in Network}

\* Types.  In particular every network that can be asked for has its response
\* prepared, so that write_coordinates() never sends an empty one.
TypeOK ==
  /\ pc \in {"poll", "recv", "answer", "write", "step", "hung", "dead"}
  /\ turn \in {1, 2}
  /\ conn \in Client \cup {None, Invalid}
  /\ pc \in {"recv", "answer", "write", "step"} => conn \in Client
  /\ msg \in Requests \cup {None}
  /\ network_count \in 0..MaxNetworks
  /\ steps \in [Network -> Nat]
  /\ prepared \in [Network -> Nat \cup {None}]
  /\ \A n \in Network : n < network_count => prepared[n] # None
  /\ backlog \in Seq(Client)
  /\ call \in [Client -> {"away", "connected", "waiting", "listening", "ready", "failed"}]
  /\ request \in [Client -> Requests \cup {None}]
  /\ seen \in [Client -> [Network -> Nat \cup {None}]]
  /\ renewed \in [Client -> BOOLEAN]
  /\ to_engine \in [Client -> Seq(Requests)]
  /\ link \in [Client -> {"none", "open", "fin", "rst", "dropped"}]

\* Requests and answers are paired: when setup() or get_next_coordinates() has
\* returned, no request of the client is under way and no answer is left that the
\* next call would take for its own; while it waits there is one request at most, so
\* that read_sock(), which reads past the end of a message, finds nothing there.
AnswersPaired ==
  \A c \in Client :
    /\ call[c] \in {"connected", "ready"} =>
         /\ to_engine[c] = <<>>
         /\ to_client[c] = <<>>
         /\ pc \in {"answer", "write"} => conn # c
    /\ call[c] # "away" => Len(to_engine[c]) <= 1

\* Each call of get_next_coordinates() returns the coordinates one step after those
\* of the call before it for that network, and the first those of step one: none
\* is skipped, repeated, or left over from an earlier client.
CoordinatesInSequence ==
  [][\A c \in Client : call[c] = "listening" /\ call'[c] = "ready" =>
       LET n == request[c].network IN seen'[c][n] = seen[c][n] + 1]_vars

\* The engine was killed within an answer: the client's recv() then returns nothing
\* for ever and it asks for the rest for ever.
Endless(c) == to_client[c] # <<>> /\ Head(to_client[c]) = Cut

\* The connection of c is open, but the engine neither holds it nor will accept it.
TakenForLost(c) == link[c] = "open" /\ Forgotten(c)

\* The engine forgets a client whose connection is open only if that client called
\* setup() again: the INIT of the first setup() of a connection always comes by the
\* first of the two dispatches, whose zero means nothing.
LiveClientsHeld == \A c \in Client : TakenForLost(c) => renewed[c]

\* Every setup() and get_next_coordinates() of a client the engine holds, or has yet to
\* accept, returns or raises, unless the engine was killed in the middle of an answer.
WaitsEndWhileHeld ==
  \A c \in Client : Waiting(c) ~> (~Waiting(c) \/ Endless(c) \/ TakenForLost(c))

\* "Wait for a response from the coordinate engine telling you whether or not the
\* command was successful": every setup() and get_next_coordinates() returns or
\* raises, unless the engine was killed in the middle of an answer.
WaitsEnd == \A c \in Client : Waiting(c) ~> (~Waiting(c) \/ Endless(c))

\* "Lost client connection. Listening for a new one.": a client that ended, in
\* whatever state of its calls, is forgotten, or the engine has stopped.
LostClientsForgotten ==
  \A c \in Client : call[c] = "away" ~> (Forgotten(c) \/ pc = "dead")
=============================================================================
