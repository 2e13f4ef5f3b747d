------------------------- MODULE CoordinateEngineProofs -------------------------
(***************************************************************************)
(* The engine and its clients stay in step: whatever either side does at   *)
(* whatever moment, an answer reaches the call it was made for, for any    *)
(* number of clients, networks and steps.                                  *)
(***************************************************************************)
EXTENDS CoordinateEngine, SequenceTheorems, TLAPS

Reply ==
  {OK, DATA_NEXT, Cut} \cup [type : {"COORDS"}, network : Network, step : Nat]

\* c is in a call, or between two, of a connection it still holds.
Active(c) == call[c] \in {"connected", "waiting", "listening", "ready"}

Answering(c) == conn = c /\ pc \in {"answer", "write"}

Stopped == pc \in {"dead", "hung"}

\* Where the request of c is: on the way, with the engine, announced, answered.  What is
\* on the way to c depends on whether c has already read the announcement.
Quiet(c) == to_client[c] = <<>> /\ to_engine[c] = <<>> /\ ~Answering(c)

Sent(c) ==
  /\ to_engine[c] = <<request[c]>> /\ to_client[c] = <<>> /\ ~Answering(c)

Received(c) ==
  /\ to_engine[c] = <<>> /\ to_client[c] = <<>>
  /\ Stopped \/ (conn = c /\ pc = "answer" /\ msg = request[c])

SetUpAnswered(c) ==
  /\ to_engine[c] = <<>> /\ to_client[c] = <<OK>> /\ ~Answering(c)

Announced(c) ==
  /\ to_engine[c] = <<>>
  /\ to_client[c] = IF call[c] = "waiting" THEN <<DATA_NEXT>> ELSE <<>>
  /\ pc = "dead" \/ (conn = c /\ pc = "write" /\ msg = request[c])

\* The rest of an answer: the coordinates of the next step, or nothing more ever.
NextCoords(c) == Coords(request[c].network, seen[c][request[c].network] + 1)

Written(c) ==
  /\ to_engine[c] = <<>> /\ ~Answering(c)
  /\ to_client[c] = IF call[c] = "waiting" THEN <<DATA_NEXT, NextCoords(c)>> ELSE <<NextCoords(c)>>

Broken(c) ==
  /\ to_engine[c] = <<>> /\ pc = "dead"
  /\ to_client[c] = IF call[c] = "waiting" THEN <<DATA_NEXT, Cut>> ELSE <<Cut>>

\* The networks of a client, before the first coordinates.
Fresh(c) ==
  \A n \in Network : seen[c][n] = IF n < request[c].setup.networks THEN 0 ELSE None

SettingUp(c) ==
  /\ \E s \in Setup : request[c] = InitRequest(s)
  /\ call[c] = "waiting"
  /\ Sent(c) \/ Received(c) \/ SetUpAnswered(c)
  /\ Fresh(c)

Getting(c) ==
  /\ \E n \in Network : request[c] = GetRequest(n) /\ seen[c][n] # None
  /\ \/ call[c] = "waiting" /\ (Sent(c) \/ Received(c))
     \/ Announced(c) \/ Written(c) \/ Broken(c)

InCall(c) ==
  /\ call[c] \in {"connected", "ready"} => Quiet(c)
  /\ call[c] = "waiting" => SettingUp(c) \/ Getting(c)
  /\ call[c] = "listening" => Getting(c)

\* A client's own connection is open unless it was dropped when it was to be accepted;
\* nobody comes after a client that is served.
Connected(c) ==
  Active(c) =>
    /\ link[c] \in {"open", "dropped"}
    /\ conn = c => backlog = <<>>
    /\ \A i \in 1..Len(backlog) : backlog[i] = c => i = Len(backlog)
    /\ \A d \in Client : Active(d) => d = c

\* The client's setup() was answered: it is the last whose networks were made.
IsSetUp(c) ==
  \/ call[c] \in {"ready", "listening"}
  \/ call[c] = "waiting" /\ (request[c].type = "GET" \/ to_client[c] # <<>>)

HasCoords(replies, n) ==
  \E i \in DOMAIN replies : replies[i].type = "COORDS" /\ replies[i].network = n

UnderWay(c, n) == HasCoords(to_client[c], n)

\* The step a network's prepared response shows is the one after the last returned or
\* sent, except while the engine has still to make the step.
InStep(c) ==
  IsSetUp(c) /\ ~Stopped =>
    /\ backlog = <<>> /\ conn \in {c, None}
    /\ \A n \in Network : seen[c][n] # None =>
         /\ n < network_count
         /\ prepared[n] = seen[c][n] + (IF UnderWay(c, n) THEN 1 ELSE 0)
                                     + (IF pc = "step" /\ msg.network = n THEN 0 ELSE 1)

Dispatching ==
  /\ to_client \in [Client -> Seq(Reply)]
  /\ pc \in {"answer", "write", "step"} => msg \in Requests
  /\ pc \in {"write", "step"} => msg.type = "GET" /\ msg.network < network_count
  /\ \A n \in Network : prepared[n] # None => prepared[n] = steps[n]
  /\ conn # Invalid => \A c \in Client : link[c] # "dropped"
  /\ \A c \in Client : Len(to_engine[c]) <= 1

\* Only a client that was set up can have called setup() again.
RenewedLater(c) == call[c] \in {"away", "connected"} => ~renewed[c]

\* The INIT of the first setup() of an open connection is still to be read.
FirstSetupToCome(c) ==
  /\ link[c] = "open" /\ ~renewed[c]
  /\ call[c] = "connected" \/ (to_engine[c] # <<>> /\ Head(to_engine[c]).type = "INIT")

\* It is read by the first of the two dispatches.
ReadByFirst(c) ==
  conn = c =>
    /\ FirstSetupToCome(c) =>
         pc \in {"poll", "hung", "dead"} \/ (pc = "recv" /\ turn = 1)
    /\ link[c] = "open" /\ ~renewed[c] /\ pc = "answer" /\ msg.type = "INIT" => turn = 1

IInv ==
  /\ TypeOK /\ Dispatching
  /\ \A c \in Client : Connected(c) /\ InCall(c) /\ InStep(c)
  /\ \A c \in Client : RenewedLater(c) /\ ReadByFirst(c)
  /\ LiveClientsHeld
-----------------------------------------------------------------------------
\* What is sent, and how requests and replies are told apart.
LEMMA RequestFacts ==
  /\ \A st : InitRequest(st).type = "INIT" /\ InitRequest(st).setup = st
  /\ \A n : GetRequest(n).type = "GET" /\ GetRequest(n).network = n
  /\ \A m \in Requests : m.type = "INIT" => m.setup \in Setup /\ m = InitRequest(m.setup)
  /\ \A m \in Requests : m.type = "GET" => m.network \in Network /\ m = GetRequest(m.network)
  /\ \A m \in Requests : m.type = "INIT" \/ m.type = "GET"
BY DEF InitRequest, GetRequest, Requests

LEMMA ReplyFacts ==
  /\ OK \in Reply /\ DATA_NEXT \in Reply /\ Cut \in Reply
  /\ \A n \in Network, k \in Nat : Coords(n, k) \in Reply
  /\ OK # DATA_NEXT /\ OK # Cut /\ DATA_NEXT # Cut
  /\ OK.type # "COORDS" /\ DATA_NEXT.type # "COORDS" /\ Cut.type # "COORDS"
  /\ \A n, k : /\ Coords(n, k).type = "COORDS"
               /\ Coords(n, k).network = n /\ Coords(n, k).step = k
               /\ Coords(n, k) # OK /\ Coords(n, k) # DATA_NEXT /\ Coords(n, k) # Cut
BY DEF OK, DATA_NEXT, Cut, Coords, Reply

LEMMA ShortLists ==
  ASSUME NEW a, NEW b
  PROVE  /\ Append(<<>>, a) = <<a>> /\ Append(<<a>>, b) = <<a, b>>
         /\ Tail(<<a>>) = <<>> /\ Tail(<<a, b>>) = <<b>>
         /\ Head(<<a>>) = a /\ Head(<<a, b>>) = a
         /\ <<a>> # <<>> /\ <<a, b>> # <<>> /\ Len(<<a>>) = 1
<1>1. Append(<<>>, a) = <<a>> /\ Append(<<a>>, b) = <<a, b>>
  <2>1. <<>> \in Seq({a, b}) /\ <<a>> \in Seq({a, b}) /\ <<a, b>> \in Seq({a, b})
    OBVIOUS
  <2>2. Append(<<>>, a) \in Seq({a, b}) /\ Append(<<a>>, b) \in Seq({a, b})
    BY <2>1, AppendProperties
  <2>3. Len(Append(<<>>, a)) = 1 /\ Append(<<>>, a)[1] = a
    OBVIOUS
  <2>4. Len(Append(<<a>>, b)) = 2 /\ Append(<<a>>, b)[1] = a /\ Append(<<a>>, b)[2] = b
    OBVIOUS
  <2>5. Append(<<>>, a) = <<a>>
    BY <2>1, <2>2, <2>3, SeqEqual
  <2>6. Len(<<a, b>>) = 2 /\ <<a, b>>[1] = a /\ <<a, b>>[2] = b
    OBVIOUS
  <2>7. \A i \in 1..2 : Append(<<a>>, b)[i] = <<a, b>>[i]
    BY <2>4, <2>6
  <2>8. Append(<<a>>, b) = <<a, b>>
    BY <2>1, <2>2, <2>4, <2>6, <2>7, SeqEqual
  <2> QED BY <2>5, <2>8
<1>2. Tail(<<a>>) = <<>>
  OBVIOUS
<1>3. Tail(<<a, b>>) = <<b>>
  OBVIOUS
<1>4. Head(<<a>>) = a /\ Head(<<a, b>>) = a /\ <<a>> # <<>> /\ <<a, b>> # <<>> /\ Len(<<a>>) = 1
  OBVIOUS
<1> QED BY <1>1, <1>2, <1>3, <1>4

LEMMA SetupFacts ==
  ASSUME NEW s \in Setup
  PROVE  s.networks \in 0..MaxNetworks /\ s.instances \in Nat /\ s.pings \in Nat
BY SetupAssumption

\* Sending reaches the connected client if its end is open, and nobody else.
LEMMA SendReaches ==
  ASSUME TypeOK, Dispatching, conn \in Client, NEW m \in Reply, Send(m)
  PROVE  /\ link' \in [Client -> {"none", "open", "fin", "rst", "dropped"}]
         /\ to_client' \in [Client -> Seq(Reply)]
         /\ \A c \in Client :
              /\ c # conn => to_client'[c] = to_client[c] /\ link'[c] = link[c]
              /\ link[c] \in {"open", "dropped"} => link'[c] = link[c]
              /\ link'[c] \in {"open", "dropped"} => link'[c] = link[c]
              /\ c = conn /\ link[c] = "open" =>
                   to_client'[c] = Append(to_client[c], m)
         /\ UNCHANGED <<backlog, to_engine>>
<1>1. to_client[conn] \in Seq(Reply)
  BY DEF Dispatching
<1>2. Append(to_client[conn], m) \in Seq(Reply)
  BY <1>1
<1>3. link \in [Client -> {"none", "open", "fin", "rst", "dropped"}]
      /\ to_client \in [Client -> Seq(Reply)]
  BY DEF TypeOK, Dispatching
<1> QED BY <1>2, <1>3 DEF Send

\* What a dispatch leaves behind.
LEMMA ReturnFacts ==
  ASSUME TypeOK, pc \in {"recv", "answer", "step"}, NEW rc \in Int, Return(rc)
  PROVE  /\ pc' \in {"dead", "recv", "poll"} /\ turn' \in {1, 2}
         /\ conn' = conn \/ conn' = None
         /\ conn' = None => pc' = "poll"
BY NameAssumption DEF Return, TypeOK
-----------------------------------------------------------------------------
(* Types.                                                                  *)

LEMMA TypesInit == Init => TypeOK /\ Dispatching
<1> SUFFICES ASSUME Init PROVE TypeOK /\ Dispatching
  OBVIOUS
<1>1. <<>> \in Seq(Client) /\ <<>> \in Seq(Requests) /\ <<>> \in Seq(Reply)
  OBVIOUS
<1>2. MaxNetworks \in Nat
  BY OptionAssumption
<1>3. TypeOK
  BY <1>1, <1>2 DEF Init, TypeOK, Network
<1>4. Dispatching
  BY <1>1, <1>3 DEF Init, TypeOK, Dispatching
<1> QED BY <1>3, <1>4

LEMMA TypesStep == IInv /\ [Next]_vars => TypeOK' /\ Dispatching'
<1> SUFFICES ASSUME IInv, [Next]_vars PROVE TypeOK' /\ Dispatching'
  OBVIOUS
<1>0. TypeOK /\ Dispatching /\ \A c \in Client : InCall(c)
  BY DEF IInv
<1> USE DEF engine, nets, clients, wires
<1>1. CASE Accept
  <2>1. backlog \in Seq(Client) /\ backlog # <<>>
    BY <1>0, <1>1 DEF Accept, TypeOK
  <2>2. Head(backlog) \in Client /\ Tail(backlog) \in Seq(Client)
    BY <1>0, <2>1
  <2>3. Invalid \notin Client /\ Invalid # None
    BY NameAssumption
  <2>4. CASE conn' = Head(backlog) /\ link' = link
    BY <1>0, <1>1, <2>2, <2>3, <2>4 DEF Accept, TypeOK, Dispatching
  <2>5. CASE conn' = Invalid /\ link' = [link EXCEPT ![Head(backlog)] = "dropped"]
    BY <1>0, <1>1, <2>2, <2>3, <2>5 DEF Accept, TypeOK, Dispatching
  <2> QED BY <1>0, <1>1, <2>4, <2>5 DEF Accept
<1>2. CASE Readable
  BY <1>0, <1>2 DEF Readable, TypeOK, Dispatching
<1>3. CASE Receive
  <2>1. conn \in Client /\ to_engine[conn] \in Seq(Requests) /\ to_engine[conn] # <<>>
    BY <1>0, <1>3 DEF Receive, TypeOK
  <2>2. /\ Head(to_engine[conn]) \in Requests /\ Tail(to_engine[conn]) \in Seq(Requests)
        /\ Len(Tail(to_engine[conn])) <= Len(to_engine[conn])
    BY <1>0, <2>1
  <2>3. \A c \in Client : Len(to_engine'[c]) <= 1
    BY <1>0, <1>3, <2>1, <2>2 DEF Receive, TypeOK, Dispatching
  <2> QED BY <1>0, <1>3, <2>1, <2>2, <2>3 DEF Receive, TypeOK, Dispatching
<1>4. CASE ReceiveNothing
  <2>1. \E rc \in Int : Return(rc)
    BY <1>0, <1>4 DEF ReceiveNothing
  <2>2. conn' \in {conn, None} /\ pc' \in {"dead", "recv", "poll"} /\ turn' \in {1, 2}
        /\ (conn' = None => pc' = "poll")
    BY <1>0, <1>4, <2>1, ReturnFacts DEF ReceiveNothing
  <2>3. conn # Invalid
    BY <1>0, <1>4, NameAssumption DEF ReceiveNothing, TypeOK
  <2> QED BY <1>0, <1>4, <2>2, <2>3 DEF ReceiveNothing, TypeOK, Dispatching
<1>5. CASE AnswerInit
  <2>1. msg \in Requests /\ msg.type = "INIT" /\ conn \in Client /\ pc = "answer"
    BY <1>0, <1>5 DEF AnswerInit, TypeOK, Dispatching
  <2>2. PICK s \in Setup : s = msg.setup
    BY <1>0, <2>1, RequestFacts
  <2>3. s.networks \in 0..MaxNetworks
    BY SetupFacts
  <2>4. network_count' = s.networks /\ steps' = [n \in Network |-> 1] /\ prepared' = Prepared(s)
        /\ UNCHANGED <<msg, clients>>
    BY <1>0, <1>5, <2>2 DEF AnswerInit
  <2>5. /\ pc' \in {"hung", "dead", "recv", "poll"} /\ turn' \in {1, 2}
        /\ conn' \in {conn, None} /\ (conn' = None => pc' = "poll")
        /\ UNCHANGED <<backlog, to_engine>>
        /\ link' \in [Client -> {"none", "open", "fin", "rst", "dropped"}]
        /\ to_client' \in [Client -> Seq(Reply)]
        /\ \A c \in Client : link'[c] = "dropped" => link[c] = "dropped"
    <3>1. CASE Hangs(s) \/ Aborts(s)
      BY <1>0, <1>5, <2>1, <2>2, <3>1, NameAssumption DEF AnswerInit, TypeOK, Dispatching
    <3>2. CASE ~(Hangs(s) \/ Aborts(s))
      <4>1. Send(OK) /\ \E rc \in Int : Return(rc)
        BY <1>0, <1>5, <2>2, <3>2 DEF AnswerInit
      <4> QED BY <1>0, <2>1, <4>1, SendReaches, ReturnFacts, ReplyFacts
    <3> QED BY <1>0, <3>1, <3>2
  <2>6. /\ steps' \in [Network -> Nat] /\ prepared' \in [Network -> Nat \cup {None}]
        /\ \A n \in Network : n < network_count' => prepared'[n] # None
        /\ \A n \in Network : prepared'[n] # None => prepared'[n] = steps'[n]
    BY <1>0, <2>4, NameAssumption DEF Prepared
  <2>7. conn # Invalid
    BY <1>0, <2>1, NameAssumption
  <2> QED BY <1>0, <2>1, <2>3, <2>4, <2>5, <2>6, <2>7 DEF TypeOK, Dispatching
<1>6. CASE AnnounceCoordinates
  <2>1. conn \in Client /\ msg \in Requests
    BY <1>0, <1>6 DEF AnnounceCoordinates, TypeOK, Dispatching
  <2>2. /\ link' \in [Client -> {"none", "open", "fin", "rst", "dropped"}]
        /\ to_client' \in [Client -> Seq(Reply)]
        /\ \A c \in Client : link'[c] = "dropped" => link[c] = "dropped"
        /\ UNCHANGED <<backlog, to_engine>>
    BY <1>0, <1>6, <2>1, SendReaches, ReplyFacts DEF AnnounceCoordinates
  <2> QED BY <1>0, <1>6, <2>1, <2>2 DEF AnnounceCoordinates, TypeOK, Dispatching
<1>7. CASE WriteCoordinates
  <2>1. conn \in Client /\ msg \in Requests /\ msg.type = "GET" /\ msg.network < network_count
    BY <1>0, <1>7 DEF WriteCoordinates, TypeOK, Dispatching
  <2>2. msg.network \in Network
    BY <1>0, <2>1, RequestFacts
  <2>3. prepared[msg.network] \in Nat
    BY <1>0, <2>1, <2>2 DEF TypeOK
  <2>4. Coords(msg.network, prepared[msg.network]) \in Reply
    BY <1>0, <2>2, <2>3, ReplyFacts
  <2>5. /\ link' \in [Client -> {"none", "open", "fin", "rst", "dropped"}]
        /\ to_client' \in [Client -> Seq(Reply)]
        /\ \A c \in Client : link'[c] = "dropped" => link[c] = "dropped"
        /\ UNCHANGED <<backlog, to_engine>>
    BY <1>0, <1>7, <2>1, <2>4, SendReaches DEF WriteCoordinates
  <2> QED BY <1>0, <1>7, <2>1, <2>5 DEF WriteCoordinates, TypeOK, Dispatching
<1>8. CASE StepNetwork
  <2>1. conn \in Client /\ msg \in Requests /\ msg.type = "GET"
    BY <1>0, <1>8 DEF StepNetwork, TypeOK, Dispatching
  <2>2. msg.network \in Network
    BY <1>0, <2>1, RequestFacts
  <2>3. conn' \in {conn, None} /\ pc' \in {"dead", "recv", "poll"} /\ turn' \in {1, 2}
        /\ (conn' = None => pc' = "poll")
    BY <1>0, <1>8, ReturnFacts DEF StepNetwork
  <2>4. steps[msg.network] + 1 \in Nat /\ steps[msg.network] + 1 # None
    BY <1>0, <2>2, NameAssumption DEF TypeOK
  <2>5. /\ steps' = [steps EXCEPT ![msg.network] = steps[msg.network] + 1]
        /\ prepared' = [prepared EXCEPT ![msg.network] = steps[msg.network] + 1]
    BY <1>0, <1>8, <2>2 DEF StepNetwork, TypeOK
  <2>6. /\ steps' \in [Network -> Nat] /\ prepared' \in [Network -> Nat \cup {None}]
        /\ \A n \in Network : n < network_count => prepared'[n] # None
        /\ \A n \in Network : prepared'[n] # None => prepared'[n] = steps'[n]
    BY <1>0, <2>2, <2>4, <2>5 DEF TypeOK, Dispatching
  <2>7. conn # Invalid
    BY <1>0, <2>1, NameAssumption
  <2> QED BY <1>0, <1>8, <2>1, <2>3, <2>6, <2>7 DEF StepNetwork, TypeOK, Dispatching
<1>9. CASE BrokenPipe
  BY <1>0, <1>9 DEF BrokenPipe, TypeOK, Dispatching
<1>10. CASE Killed
  <2>1. to_client' \in [Client -> Seq(Reply)]
    <3>1. CASE UNCHANGED to_client
      BY <1>0, <3>1 DEF Dispatching
    <3>2. CASE pc = "write" /\ to_client' = [to_client EXCEPT ![conn] = Append(@, Cut)]
      <4>1. conn \in Client /\ to_client[conn] \in Seq(Reply)
        BY <1>0, <3>2 DEF TypeOK, Dispatching
      <4>2. Append(to_client[conn], Cut) \in Seq(Reply)
        BY <1>0, <4>1, ReplyFacts
      <4> QED BY <1>0, <3>2, <4>1, <4>2 DEF Dispatching
    <3> QED BY <1>0, <1>10, <3>1, <3>2 DEF Killed
  <2> QED BY <1>0, <1>10, <2>1 DEF Killed, TypeOK, Dispatching
<1>11. ASSUME NEW c \in Client, ClientStep(c) PROVE TypeOK' /\ Dispatching'
  <2>1. CASE Connect(c)
    <3>1. Append(backlog, c) \in Seq(Client) /\ <<>> \in Seq(Requests) /\ <<>> \in Seq(Reply)
          /\ Len(<<>>) = 0
      BY <1>0 DEF TypeOK
    <3> QED BY <1>0, <2>1, <3>1 DEF Connect, TypeOK, Dispatching
  <2>2. CASE ConnectionRefused(c)
    BY <1>0, <2>2 DEF ConnectionRefused, TypeOK, Dispatching
  <2>3. ASSUME NEW m \in Requests, Ask(c, m), to_engine[c] = <<>>,
               seen' \in [Client -> [Network -> Nat \cup {None}]],
               renewed' \in [Client -> BOOLEAN]
        PROVE  TypeOK' /\ Dispatching'
    <3>1. /\ to_engine[c] \in Seq(Requests) /\ Append(to_engine[c], m) \in Seq(Requests)
          /\ Len(Append(to_engine[c], m)) <= 1
      BY <1>0, <2>3 DEF TypeOK
    <3> QED BY <1>0, <2>3, <3>1 DEF Ask, TypeOK, Dispatching
  <2>4. CASE SetUp(c)
    <3>0. to_engine[c] = <<>>
      BY <1>0, <2>4 DEF SetUp, InCall, Quiet
    <3>1. PICK s \in Setup :
            /\ Ask(c, InitRequest(s))
            /\ seen' = [seen EXCEPT ![c] = [n \in Network |-> IF n < s.networks THEN 0 ELSE None]]
      BY <1>0, <2>4 DEF SetUp
    <3>2. InitRequest(s) \in Requests
      BY DEF Requests
    <3>3. renewed' \in [Client -> BOOLEAN]
      BY <1>0, <2>4 DEF SetUp, TypeOK
    <3> QED BY <1>0, <3>0, <3>1, <3>2, <3>3, <2>3 DEF TypeOK
  <2>8. CASE GetNextCoordinates(c)
    <3>0. to_engine[c] = <<>>
      BY <1>0, <2>8 DEF GetNextCoordinates, InCall, Quiet
    <3>1. PICK n \in Network : Ask(c, GetRequest(n))
      BY <1>0, <2>8 DEF GetNextCoordinates
    <3>2. GetRequest(n) \in Requests /\ UNCHANGED <<seen, renewed>>
      BY <1>0, <2>8 DEF Requests, GetNextCoordinates
    <3> QED BY <1>0, <3>0, <3>1, <3>2, <2>3 DEF TypeOK
  <2>5. CASE TakeStatus(c) \/ TakeCoordinates(c)
    <3>1. Take(c) /\ to_client[c] \in Seq(Reply) /\ to_client[c] # <<>>
      BY <1>0, <2>5 DEF TakeStatus, TakeCoordinates, Dispatching
    <3>2. Head(to_client[c]) \in Reply /\ Tail(to_client[c]) \in Seq(Reply)
      BY <1>0, <3>1
    <3>3. seen' \in [Client -> [Network -> Nat \cup {None}]]
          /\ call' \in [Client -> {"away", "connected", "waiting", "listening", "ready", "failed"}]
      <4>1. CASE TakeStatus(c)
        BY <1>0, <4>1 DEF TakeStatus, TypeOK
      <4>2. CASE TakeCoordinates(c)
        <5>1. Head(to_client[c]).type = "COORDS"
          BY <1>0, <4>2 DEF TakeCoordinates
        <5>2. Head(to_client[c]).network \in Network /\ Head(to_client[c]).step \in Nat
          BY <1>0, <3>2, <5>1, ReplyFacts DEF Reply
        <5>3. call' = [call EXCEPT ![c] = "ready"] \/ call' = [call EXCEPT ![c] = "failed"]
          BY <1>0, <4>2 DEF TakeCoordinates
        <5>4. \/ seen' = [seen EXCEPT ![c][Head(to_client[c]).network] = Head(to_client[c]).step]
              \/ seen' = seen
          BY <1>0, <4>2 DEF TakeCoordinates
        <5>5. seen' \in [Client -> [Network -> Nat \cup {None}]]
          <6> DEFINE m == Head(to_client[c])
          <6>1. seen[c] \in [Network -> Nat \cup {None}]
                /\ seen \in [Client -> [Network -> Nat \cup {None}]]
            BY <1>0 DEF TypeOK
          <6>2. [seen[c] EXCEPT ![m.network] = m.step] \in [Network -> Nat \cup {None}]
            BY <5>2, <6>1
          <6> QED BY <5>4, <6>1, <6>2
        <5> QED BY <1>0, <5>3, <5>5 DEF TypeOK
      <4> QED BY <1>0, <2>5, <4>1, <4>2
    <3> QED BY <1>0, <3>1, <3>2, <3>3 DEF Take, TypeOK, Dispatching
  <2>6. CASE HeaderFails(c)
    BY <1>0, <2>6 DEF HeaderFails, TypeOK, Dispatching
  <2>7. CASE Leave(c)
    BY <1>0, <2>7 DEF Leave, TypeOK, Dispatching
  <2> QED BY <1>0, <1>11, <2>1, <2>2, <2>4, <2>8, <2>5, <2>6, <2>7 DEF ClientStep
<1>12. CASE UNCHANGED vars
  BY <1>0, <1>12 DEF vars, TypeOK, Dispatching
<1> QED BY <1>0, <1>1, <1>2, <1>3, <1>4, <1>5, <1>6, <1>7, <1>8, <1>9, <1>10, <1>11, <1>12
        DEF Next, EngineStep
-----------------------------------------------------------------------------
(* Connections.                                                            *)

LEMMA ConnectedStep ==
  ASSUME IInv, [Next]_vars, NEW c \in Client PROVE Connected(c)'
<1> USE DEF engine, nets, clients, wires
<1>0. TypeOK /\ Dispatching /\ \A d \in Client : Connected(d)
  BY DEF IInv
<1>1. ASSUME UNCHANGED <<call, backlog>>, conn' \in {conn, None},
             \A d \in Client : link[d] \in {"open", "dropped"} => link'[d] \in {"open", "dropped"}
      PROVE  Connected(c)'
  BY <1>0, <1>1, NameAssumption DEF Connected, Active
<1>2. CASE Accept
  <2>1. backlog \in Seq(Client) /\ backlog # <<>>
    BY <1>0, <1>2 DEF Accept, TypeOK
  <2>2. /\ Head(backlog) = backlog[1] /\ Len(backlog) \in Nat /\ Len(backlog) >= 1
        /\ Len(Tail(backlog)) = Len(backlog) - 1 /\ Tail(backlog) \in Seq(Client)
        /\ \A i \in 1..Len(Tail(backlog)) : Tail(backlog)[i] = backlog[i + 1]
    BY <2>1
  <2>3. conn' \in {Head(backlog), Invalid} /\ backlog' = Tail(backlog) /\ call' = call
        /\ \A d \in Client : link[d] \in {"open", "dropped"} => link'[d] \in {"open", "dropped"}
    BY <1>0, <1>2 DEF Accept, TypeOK
  <2>4. SUFFICES ASSUME Active(c)'
                 PROVE  /\ conn' = c => backlog' = <<>>
                        /\ \A i \in 1..Len(backlog') : backlog'[i] = c => i = Len(backlog')
    BY <1>0, <2>3 DEF Connected, Active
  <2>5. \A i \in 1..Len(backlog) : backlog[i] = c => i = Len(backlog)
    BY <1>0, <2>3, <2>4 DEF Connected, Active
  <2>6. ASSUME conn' = c PROVE backlog' = <<>>
    <3>1. backlog[1] = c
      BY <2>2, <2>3, <2>6, NameAssumption
    <3>2. Len(backlog) = 1
      BY <2>2, <2>5, <3>1
    <3> QED BY <2>2, <2>3, <3>2
  <2>7. ASSUME NEW i \in 1..Len(backlog'), backlog'[i] = c PROVE i = Len(backlog')
    <3>1. backlog[i + 1] = c /\ i + 1 \in 1..Len(backlog)
      BY <2>2, <2>3, <2>7
    <3>2. i + 1 = Len(backlog)
      BY <2>5, <3>1
    <3>3. Len(backlog') = Len(backlog) - 1
      BY <2>2, <2>3
    <3>4. i \in Int /\ Len(backlog) \in Int
      BY <2>2
    <3> QED BY <3>2, <3>3, <3>4
  <2> QED BY <2>6, <2>7
<1>3. ASSUME NEW m \in Reply, conn \in Client, Send(m)
      PROVE  /\ \A d \in Client : link[d] \in {"open", "dropped"} => link'[d] \in {"open", "dropped"}
             /\ backlog' = backlog
  BY <1>0, <1>3, SendReaches
<1>4. CASE Readable \/ Receive \/ BrokenPipe \/ Killed
  BY <1>1, <1>4 DEF Readable, Receive, BrokenPipe, Killed
<1>5. CASE ReceiveNothing \/ StepNetwork
  <2>1. \E rc \in Int : Return(rc)
    BY <1>5 DEF ReceiveNothing, StepNetwork
  <2>2. conn' \in {conn, None}
    BY <1>0, <1>5, <2>1, ReturnFacts DEF ReceiveNothing, StepNetwork
  <2> QED BY <1>1, <1>5, <2>2 DEF ReceiveNothing, StepNetwork
<1>6. CASE AnswerInit
  <2>1. CASE conn' = conn /\ UNCHANGED wires
    BY <1>1, <1>6, <2>1 DEF AnswerInit
  <2>2. CASE Send(OK) /\ \E rc \in Int : Return(rc)
    <3>1. conn' \in {conn, None}
      BY <1>0, <1>6, <2>2, ReturnFacts DEF AnswerInit
    <3>2. conn \in Client
      BY <1>0, <1>6 DEF AnswerInit, TypeOK
    <3> QED BY <1>1, <1>3, <1>6, <2>2, <3>1, <3>2, ReplyFacts DEF AnswerInit
  <2> QED BY <1>6, <2>1, <2>2 DEF AnswerInit
<1>7. CASE AnnounceCoordinates
  <2>1. conn \in Client
    BY <1>0, <1>7 DEF AnnounceCoordinates, TypeOK
  <2> QED BY <1>1, <1>3, <1>7, <2>1, ReplyFacts DEF AnnounceCoordinates
<1>8. CASE WriteCoordinates
  <2>1. conn \in Client /\ msg.network \in Network /\ prepared[msg.network] \in Nat
    BY <1>0, <1>8, RequestFacts DEF WriteCoordinates, TypeOK, Dispatching
  <2>2. Coords(msg.network, prepared[msg.network]) \in Reply
    BY <2>1, ReplyFacts
  <2> QED BY <1>1, <1>3, <1>8, <2>1, <2>2 DEF WriteCoordinates
<1>9. ASSUME NEW d \in Client, ClientStep(d) PROVE Connected(c)'
  <2>1. CASE Connect(d)
    <3>1. d = c \/ ~Active(c)'
      BY <1>0, <2>1 DEF Connect, Active, TypeOK
    <3>2. SUFFICES ASSUME d = c PROVE Connected(c)'
      BY <3>1 DEF Connected
    <3>3. link'[c] = "open" /\ conn' # c
      BY <1>0, <2>1, <3>2 DEF Connect, TypeOK, Forgotten
    <3>4. \A e \in Client : Active(e)' => e = c
      BY <1>0, <2>1, <3>2 DEF Connect, Active, TypeOK
    <3>5. backlog \in Seq(Client) /\ backlog' = Append(backlog, c)
          /\ \A i \in 1..Len(backlog) : backlog[i] # c
      BY <1>0, <2>1, <3>2 DEF Connect, TypeOK, Forgotten, Contains
    <3>6. \A i \in 1..Len(backlog') : backlog'[i] = c => i = Len(backlog')
      BY <3>5, AppendProperties
    <3> QED BY <3>3, <3>4, <3>6 DEF Connected
  <2>2. CASE ~Connect(d)
    <3>1. UNCHANGED <<conn, backlog>> /\ (\A e \in Client : e # d => link'[e] = link[e])
          /\ (Active(d)' => link'[d] = link[d])
          /\ \A e \in Client : Active(e)' => Active(e)
      <4>1. CASE ConnectionRefused(d)
        BY <1>0, <4>1 DEF ConnectionRefused, Active, TypeOK
      <4>2. CASE SetUp(d)
        BY <1>0, <4>2 DEF SetUp, Ask, Active, TypeOK
      <4>3. CASE GetNextCoordinates(d)
        BY <1>0, <4>3 DEF GetNextCoordinates, Ask, Active, TypeOK
      <4>4. CASE TakeStatus(d)
        BY <1>0, <4>4 DEF TakeStatus, Take, Active, TypeOK
      <4>5. CASE TakeCoordinates(d)
        BY <1>0, <4>5 DEF TakeCoordinates, Take, Active, TypeOK
      <4>6. CASE HeaderFails(d)
        BY <1>0, <4>6 DEF HeaderFails, Active, TypeOK
      <4>7. CASE Leave(d)
        BY <1>0, <4>7 DEF Leave, Active, TypeOK
      <4> QED BY <1>9, <2>2, <4>1, <4>2, <4>3, <4>4, <4>5, <4>6, <4>7 DEF ClientStep
    <3> QED BY <1>0, <3>1 DEF Connected
  <2> QED BY <2>1, <2>2
<1>10. CASE UNCHANGED vars
  BY <1>1, <1>10 DEF vars
<1> QED BY <1>2, <1>4, <1>5, <1>6, <1>7, <1>8, <1>9, <1>10 DEF Next, EngineStep
-----------------------------------------------------------------------------
(* Calls and their answers.                                                *)

\* What the engine does between and for others leaves a call where it is.
LEMMA InCallKept ==
  ASSUME NEW c \in Client, InCall(c),
         call'[c] = call[c], request'[c] = request[c], seen'[c] = seen[c],
         to_engine'[c] = to_engine[c], to_client'[c] = to_client[c],
         Answering(c)' => Answering(c),
         Answering(c) => pc' = "dead" \/ UNCHANGED <<conn, pc, msg>>,
         Stopped => pc' = pc \/ pc' = "dead"
  PROVE  InCall(c)'
<1>1. NextCoords(c)' = NextCoords(c)
  BY DEF NextCoords
<1>2. Sent(c) => Sent(c)'
  BY DEF Sent
<1>3. Received(c) => Received(c)'
  BY DEF Received, Stopped, Answering
<1>4. SetUpAnswered(c) => SetUpAnswered(c)'
  BY DEF SetUpAnswered
<1>5. Announced(c) => Announced(c)'
  BY DEF Announced, Stopped, Answering
<1>6. Written(c) => Written(c)'
  BY <1>1 DEF Written
<1>7. Broken(c) => Broken(c)'
  BY DEF Broken, Stopped
<1>8. Fresh(c) => Fresh(c)'
  BY DEF Fresh
<1>9. SettingUp(c) => SettingUp(c)'
  BY <1>2, <1>3, <1>4, <1>8 DEF SettingUp
<1>10. Getting(c) => Getting(c)'
  BY <1>2, <1>3, <1>5, <1>6, <1>7 DEF Getting
<1>11. Quiet(c) => Quiet(c)'
  BY DEF Quiet
<1> QED BY <1>9, <1>10, <1>11 DEF InCall

\* Where a call is when the engine takes its request or answers it.
LEMMA CallTaken ==
  ASSUME IInv, NEW c \in Client, Active(c), to_engine[c] # <<>>
  PROVE  /\ call[c] = "waiting" /\ Sent(c)
         /\ (SettingUp(c) /\ request[c].type = "INIT") \/ (Getting(c) /\ request[c].type = "GET")
<1>1. InCall(c)
  BY DEF IInv
<1> QED BY <1>1, RequestFacts
        DEF Active, InCall, Quiet, SettingUp, Getting, Sent, Received, SetUpAnswered,
            Announced, Written, Broken

LEMMA CallAnswered ==
  ASSUME IInv, NEW c \in Client, Active(c), Answering(c)
  PROVE  /\ conn = c /\ request[c] = msg /\ link[c] = "open"
         /\ pc = "answer" /\ msg.type = "INIT" => call[c] = "waiting" /\ SettingUp(c) /\ Received(c)
         /\ pc = "answer" /\ msg.type = "GET" => call[c] = "waiting" /\ Getting(c) /\ Received(c)
         /\ pc = "write" => call[c] \in {"waiting", "listening"} /\ Getting(c) /\ Announced(c)
<1>1. InCall(c) /\ Connected(c) /\ Dispatching
  BY DEF IInv
<1>2. link[c] = "open" /\ conn = c
  BY <1>1, NameAssumption DEF Connected, Dispatching, Answering
<1>3. Answering(c) => ~Quiet(c) /\ ~Sent(c) /\ ~SetUpAnswered(c) /\ ~Written(c) /\ ~Broken(c)
  BY DEF Quiet, Sent, SetUpAnswered, Written, Broken, Answering
<1>4. pc \in {"answer", "write"} /\ ~Stopped
  BY DEF Answering, Stopped
<1>5. Received(c) => pc = "answer" /\ msg = request[c]
  BY <1>4 DEF Received
<1>6. Announced(c) => pc = "write" /\ msg = request[c]
  BY <1>4 DEF Announced
<1>7. SettingUp(c) => call[c] = "waiting" /\ Received(c) /\ request[c].type = "INIT"
  BY <1>3, RequestFacts DEF SettingUp
<1>8. Getting(c) => request[c].type = "GET" /\ (Announced(c) \/ (call[c] = "waiting" /\ Received(c)))
  BY <1>3, RequestFacts DEF Getting
<1>9. call[c] \in {"waiting", "listening"} /\ (SettingUp(c) \/ Getting(c))
  BY <1>1, <1>3 DEF InCall, Active
<1> QED BY <1>2, <1>4, <1>5, <1>6, <1>7, <1>8, <1>9

LEMMA HasCoordsFacts ==
  ASSUME NEW n, NEW a, NEW b
  PROVE  /\ ~HasCoords(<<>>, n)
         /\ HasCoords(<<a>>, n) <=> a.type = "COORDS" /\ a.network = n
         /\ HasCoords(<<a, b>>, n) <=> \/ a.type = "COORDS" /\ a.network = n
                                       \/ b.type = "COORDS" /\ b.network = n
BY DEF HasCoords

\* Which of the lists an engine leaves on the way hold coordinates.
LEMMA OnTheWay ==
  ASSUME NEW n, NEW m, NEW k
  PROVE  /\ ~HasCoords(<<>>, n) /\ ~HasCoords(<<OK>>, n) /\ ~HasCoords(<<DATA_NEXT>>, n)
         /\ HasCoords(<<Coords(m, k)>>, n) <=> n = m
         /\ HasCoords(<<DATA_NEXT, Coords(m, k)>>, n) <=> n = m
<1>1. OK.type # "COORDS" /\ DATA_NEXT.type # "COORDS"
      /\ Coords(m, k).type = "COORDS" /\ Coords(m, k).network = m
  BY ReplyFacts
<1>2. ~HasCoords(<<>>, n) /\ ~HasCoords(<<OK>>, n) /\ ~HasCoords(<<DATA_NEXT>>, n)
  BY <1>1, HasCoordsFacts
<1>3. HasCoords(<<Coords(m, k)>>, n) <=> n = m
  BY <1>1, HasCoordsFacts
<1>4. HasCoords(<<DATA_NEXT, Coords(m, k)>>, n) <=> n = m
  BY <1>1, HasCoordsFacts
<1> QED BY <1>2, <1>3, <1>4

\* What is sent next is one more than what was returned.
LEMMA NextIsPrepared ==
  ASSUME IInv, NEW c \in Client, Active(c), Answering(c), pc = "write"
  PROVE  /\ msg.network \in Network /\ seen[c][msg.network] \in Nat
         /\ request[c] = GetRequest(msg.network)
         /\ prepared[msg.network] = seen[c][msg.network] + 1
         /\ Coords(msg.network, prepared[msg.network]) = NextCoords(c)
<1>1. /\ request[c] = msg /\ Getting(c) /\ Announced(c)
      /\ call[c] \in {"waiting", "listening"} /\ InStep(c) /\ TypeOK
  BY CallAnswered DEF IInv
<1>2. PICK n \in Network : request[c] = GetRequest(n) /\ seen[c][n] # None
  BY <1>1 DEF Getting
<1>3. msg.network = n /\ request[c].network = n /\ request[c].type = "GET"
  BY <1>1, <1>2, RequestFacts
<1>4. seen[c][n] \in Nat
  BY <1>1, <1>2 DEF TypeOK
<1>5. ~UnderWay(c, n)
  <2>1. to_client[c] = <<>> \/ to_client[c] = <<DATA_NEXT>>
    BY <1>1 DEF Announced
  <2>2. ~HasCoords(<<>>, n) /\ ~HasCoords(<<DATA_NEXT>>, n)
    BY HasCoordsFacts, ReplyFacts
  <2> QED BY <2>1, <2>2 DEF UnderWay
<1>6. prepared[n] = seen[c][n] + 0 + 1
  <2>1. IsSetUp(c) /\ ~Stopped
    BY <1>1, <1>3 DEF IsSetUp, Stopped
  <2> QED BY <1>1, <1>2, <1>5, <2>1 DEF InStep
<1>7. prepared[n] = seen[c][n] + 1
  BY <1>4, <1>6
<1> QED BY <1>2, <1>3, <1>4, <1>7 DEF NextCoords

LEMMA InCallStep ==
  ASSUME IInv, [Next]_vars, NEW c \in Client PROVE InCall(c)'
<1> USE DEF engine, nets, clients, wires
<1>0. TypeOK /\ Dispatching /\ InCall(c)
  BY DEF IInv
<1>a. SUFFICES ASSUME Active(c)' PROVE InCall(c)'
  BY DEF InCall, Active
<1>1. CASE Accept \/ Readable \/ BrokenPipe
  <2>1. UNCHANGED <<call, request, seen, to_engine, to_client>>
    BY <1>1 DEF Accept, Readable, BrokenPipe
  <2>2. (Answering(c)' => Answering(c)) /\ (Answering(c) => pc' = "dead" \/ UNCHANGED <<conn, pc, msg>>)
        /\ (Stopped => pc' = pc \/ pc' = "dead")
    BY <1>1 DEF Accept, Readable, BrokenPipe, Answering, Stopped
  <2> QED BY <1>0, <2>1, <2>2, InCallKept
<1>2. CASE Receive
  <2>1. conn \in Client /\ to_engine[conn] \in Seq(Requests) /\ pc = "recv" /\ pc' = "answer"
        /\ UNCHANGED <<call, request, seen, to_client, conn>>
        /\ to_engine[conn] # <<>> /\ msg' = Head(to_engine[conn])
        /\ to_engine' = [to_engine EXCEPT ![conn] = Tail(to_engine[conn])]
        /\ to_engine \in [Client -> Seq(Requests)]
    BY <1>0, <1>2 DEF Receive, TypeOK
  <2>2. CASE conn = c
    <3>1. Active(c) /\ to_engine[c] # <<>>
      BY <1>a, <2>1, <2>2 DEF Active
    <3>2. /\ call[c] = "waiting" /\ to_engine[c] = <<request[c]>> /\ to_client[c] = <<>>
          /\ SettingUp(c) \/ Getting(c)
      BY <3>1, CallTaken DEF Sent
    <3>3. to_engine'[c] = <<>> /\ msg' = request[c]
      BY <2>1, <2>2, <3>2, ShortLists
    <3>4. Received(c)'
      BY <2>1, <2>2, <3>2, <3>3 DEF Received
    <3>5. SettingUp(c) => SettingUp(c)'
      BY <2>1, <3>2, <3>4 DEF SettingUp, Fresh
    <3>6. Getting(c) => Getting(c)'
      BY <2>1, <3>2, <3>4 DEF Getting
    <3> QED BY <2>1, <3>2, <3>5, <3>6 DEF InCall
  <2>3. CASE conn # c
    <3>1. to_engine'[c] = to_engine[c]
      BY <2>1, <2>3
    <3> QED BY <1>0, <2>1, <2>3, <3>1, InCallKept DEF Answering, Stopped
  <2> QED BY <2>2, <2>3
<1>3. CASE ReceiveNothing \/ StepNetwork
  <2>1. \E rc \in Int : Return(rc)
    BY <1>3 DEF ReceiveNothing, StepNetwork
  <2>2. UNCHANGED <<call, request, seen, to_engine, to_client>> /\ pc \in {"recv", "step"}
    BY <1>3 DEF ReceiveNothing, StepNetwork
  <2>3. pc' \in {"dead", "recv", "poll"}
    BY <1>0, <2>1, <2>2, ReturnFacts
  <2> QED BY <1>0, <2>2, <2>3, InCallKept DEF Answering, Stopped
<1>4. ASSUME conn \in Client, pc \in {"answer", "write"}, NEW m \in Reply, Send(m),
             UNCHANGED clients
      PROVE  /\ conn # c => to_client'[c] = to_client[c] /\ to_engine'[c] = to_engine[c]
             /\ conn = c => /\ Active(c) /\ Answering(c) /\ to_engine'[c] = to_engine[c]
                            /\ to_client'[c] = Append(to_client[c], m)
  <2>1. Active(c)
    BY <1>a, <1>4 DEF Active
  <2> QED BY <1>0, <1>4, <2>1, SendReaches, CallAnswered DEF Answering
<1>5. CASE AnswerInit
  <2>1. conn \in Client /\ pc = "answer" /\ msg.type = "INIT" /\ UNCHANGED clients
    BY <1>0, <1>5 DEF AnswerInit, TypeOK
  <2>2. CASE pc' \in {"hung", "dead"} /\ UNCHANGED <<turn, conn, wires>>
    <3>1. CASE conn = c
      <4>1. Active(c) /\ Answering(c)
        BY <1>a, <2>1, <3>1 DEF Active, Answering
      <4>2. call[c] = "waiting" /\ SettingUp(c) /\ Received(c)
        BY <2>1, <4>1, CallAnswered
      <4>3. Received(c)'
        BY <2>2, <4>2 DEF Received, Stopped
      <4> QED BY <2>1, <4>2, <4>3 DEF InCall, SettingUp, Fresh
    <3>2. CASE conn # c
      BY <1>0, <2>1, <2>2, <3>2, InCallKept DEF Answering, Stopped
    <3> QED BY <3>1, <3>2
  <2>3. CASE Send(OK) /\ \E rc \in Int : Return(rc)
    <3>1. pc' \in {"dead", "recv", "poll"}
      BY <1>0, <2>1, <2>3, ReturnFacts
    <3>2. CASE conn = c
      <4>1. /\ Active(c) /\ Answering(c) /\ to_engine'[c] = to_engine[c]
            /\ to_client'[c] = Append(to_client[c], OK)
        BY <1>4, <2>1, <2>3, <3>2, ReplyFacts
      <4>2. call[c] = "waiting" /\ SettingUp(c) /\ Received(c)
        BY <2>1, <4>1, CallAnswered
      <4>3. to_client'[c] = <<OK>>
        BY <4>1, <4>2, ShortLists DEF Received
      <4>4. SetUpAnswered(c)'
        BY <3>1, <4>1, <4>2, <4>3 DEF SetUpAnswered, Received, Answering
      <4> QED BY <2>1, <4>2, <4>4 DEF InCall, SettingUp, Fresh
    <3>3. CASE conn # c
      <4>1. to_client'[c] = to_client[c] /\ to_engine'[c] = to_engine[c]
        BY <1>4, <2>1, <2>3, <3>3, ReplyFacts
      <4> QED BY <1>0, <2>1, <3>1, <3>3, <4>1, InCallKept DEF Answering, Stopped
    <3> QED BY <3>2, <3>3
  <2> QED BY <1>5, <2>2, <2>3 DEF AnswerInit
<1>6. CASE AnnounceCoordinates
  <2>1. /\ conn \in Client /\ pc = "answer" /\ msg.type = "GET" /\ pc' \in {"write", "dead"}
        /\ UNCHANGED <<clients, conn, msg>> /\ Send(DATA_NEXT)
    BY <1>0, <1>6 DEF AnnounceCoordinates, TypeOK
  <2>2. CASE conn = c
    <3>1. /\ Active(c) /\ Answering(c) /\ to_engine'[c] = to_engine[c]
          /\ to_client'[c] = Append(to_client[c], DATA_NEXT)
      BY <1>4, <2>1, <2>2, ReplyFacts
    <3>2. call[c] = "waiting" /\ Getting(c) /\ Received(c) /\ request[c] = msg
      BY <2>1, <3>1, CallAnswered
    <3>3. to_client'[c] = <<DATA_NEXT>>
      BY <3>1, <3>2, ShortLists DEF Received
    <3>4. Announced(c)'
      BY <2>1, <2>2, <3>1, <3>2, <3>3 DEF Announced, Received
    <3> QED BY <2>1, <3>2, <3>4 DEF InCall, Getting
  <2>3. CASE conn # c
    <3>1. to_client'[c] = to_client[c] /\ to_engine'[c] = to_engine[c]
      BY <1>4, <2>1, <2>3, ReplyFacts
    <3> QED BY <1>0, <2>1, <2>3, <3>1, InCallKept DEF Answering, Stopped
  <2> QED BY <2>2, <2>3
<1>7. CASE WriteCoordinates
  <2>1. /\ conn \in Client /\ pc = "write" /\ pc' = "step"
        /\ msg.network \in Network /\ prepared[msg.network] \in Nat
        /\ UNCHANGED <<clients, conn, msg>> /\ Send(Coords(msg.network, prepared[msg.network]))
    BY <1>0, <1>7, RequestFacts DEF WriteCoordinates, TypeOK, Dispatching
  <2> DEFINE m == Coords(msg.network, prepared[msg.network])
  <2>2. m \in Reply
    BY <2>1, ReplyFacts
  <2>3. CASE conn = c
    <3>1. /\ Active(c) /\ Answering(c) /\ to_engine'[c] = to_engine[c]
          /\ to_client'[c] = Append(to_client[c], m)
      BY <1>4, <2>1, <2>2, <2>3
    <3>2. call[c] \in {"waiting", "listening"} /\ Getting(c) /\ Announced(c)
      BY <2>1, <3>1, CallAnswered
    <3>3. m = NextCoords(c) /\ NextCoords(c)' = NextCoords(c)
      BY <2>1, <3>1, NextIsPrepared DEF NextCoords
    <3>4. to_client'[c] = IF call[c] = "waiting" THEN <<DATA_NEXT, m>> ELSE <<m>>
      BY <3>1, <3>2, ShortLists DEF Announced
    <3>5. Written(c)'
      BY <2>1, <3>1, <3>2, <3>3, <3>4 DEF Written, Announced, Answering
    <3> QED BY <2>1, <3>2, <3>5 DEF InCall, Getting
  <2>4. CASE conn # c
    <3>1. to_client'[c] = to_client[c] /\ to_engine'[c] = to_engine[c]
      BY <1>4, <2>1, <2>2, <2>4
    <3> QED BY <1>0, <2>1, <2>4, <3>1, InCallKept DEF Answering, Stopped
  <2> QED BY <2>3, <2>4
<1>8. CASE Killed
  <2>1. pc' = "dead" /\ UNCHANGED <<clients, to_engine, conn, msg>>
    BY <1>8 DEF Killed
  <2>2. CASE to_client'[c] = to_client[c]
    BY <1>0, <2>1, <2>2, InCallKept DEF Answering, Stopped
  <2>3. CASE to_client'[c] # to_client[c]
    <3>1. conn = c /\ pc = "write" /\ to_client'[c] = Append(to_client[c], Cut)
      BY <1>0, <1>8, <2>3 DEF Killed, Dispatching
    <3>2. Active(c) /\ Answering(c)
      BY <1>a, <2>1, <3>1 DEF Active, Answering
    <3>3. call[c] \in {"waiting", "listening"} /\ Getting(c) /\ Announced(c)
      BY <3>1, <3>2, CallAnswered
    <3>4. Broken(c)'
      BY <2>1, <3>1, <3>3, ShortLists DEF Announced, Broken
    <3> QED BY <2>1, <3>3, <3>4 DEF InCall, Getting
  <2> QED BY <2>2, <2>3
<1>9. ASSUME NEW d \in Client, d # c, ClientStep(d) PROVE InCall(c)'
  <2>1. /\ call'[c] = call[c] /\ request'[c] = request[c] /\ seen'[c] = seen[c]
        /\ to_engine'[c] = to_engine[c] /\ to_client'[c] = to_client[c]
    <3>1. CASE Connect(d) \/ ConnectionRefused(d) \/ HeaderFails(d) \/ Leave(d)
      BY <1>0, <1>9, <3>1 DEF Connect, ConnectionRefused, HeaderFails, Leave, TypeOK, Dispatching
    <3>2. CASE SetUp(d) \/ GetNextCoordinates(d)
      BY <1>0, <1>9, <3>2 DEF SetUp, GetNextCoordinates, Ask, TypeOK, Dispatching
    <3>3. CASE TakeStatus(d)
      BY <1>0, <1>9, <3>3 DEF TakeStatus, Take, TypeOK, Dispatching
    <3>4. CASE TakeCoordinates(d)
      BY <1>0, <1>9, <3>4 DEF TakeCoordinates, Take, TypeOK, Dispatching
    <3> QED BY <1>9, <3>1, <3>2, <3>3, <3>4 DEF ClientStep
  <2>2. UNCHANGED <<pc, conn, msg>>
    BY <1>9 DEF ClientStep, Connect, ConnectionRefused, SetUp, GetNextCoordinates, Ask,
                TakeStatus, TakeCoordinates, Take, HeaderFails, Leave
  <2> QED BY <1>0, <2>1, <2>2, InCallKept DEF Answering, Stopped
<1>10. CASE Connect(c)
  <2>1. /\ call'[c] = "connected" /\ to_engine'[c] = <<>> /\ to_client'[c] = <<>>
        /\ conn # c /\ conn' = conn
    BY <1>0, <1>10 DEF Connect, Forgotten, TypeOK, Dispatching
  <2> QED BY <2>1 DEF InCall, Quiet, Answering
<1>11. CASE ConnectionRefused(c) \/ HeaderFails(c) \/ Leave(c)
  BY <1>0, <1>a, <1>11 DEF ConnectionRefused, HeaderFails, Leave, TypeOK, Active
<1>12. ASSUME NEW m, Ask(c, m), Quiet(c)
       PROVE  /\ call'[c] = "waiting" /\ request'[c] = m
              /\ to_engine'[c] = <<m>> /\ to_client'[c] = <<>> /\ ~Answering(c)'
  <2>1. to_engine'[c] = Append(to_engine[c], m)
    BY <1>0, <1>12 DEF Ask, TypeOK
  <2> QED BY <1>0, <1>12, <2>1, ShortLists DEF Ask, Quiet, Answering, TypeOK
<1>13. CASE SetUp(c)
  <2>1. PICK s \in Setup :
          /\ Ask(c, InitRequest(s))
          /\ seen' = [seen EXCEPT ![c] = [n \in Network |-> IF n < s.networks THEN 0 ELSE None]]
    BY <1>13 DEF SetUp
  <2>2. Quiet(c)
    BY <1>0, <1>13 DEF SetUp, InCall
  <2>3. Sent(c)' /\ call'[c] = "waiting" /\ request'[c] = InitRequest(s)
    BY <1>12, <2>1, <2>2 DEF Sent
  <2>4. Fresh(c)'
    BY <1>0, <2>1, <2>3, RequestFacts DEF Fresh, TypeOK
  <2> QED BY <2>3, <2>4 DEF InCall, SettingUp
<1>14. CASE GetNextCoordinates(c)
  <2>1. PICK n \in Network : seen[c][n] # None /\ Ask(c, GetRequest(n)) /\ seen' = seen
    BY <1>14 DEF GetNextCoordinates
  <2>2. Quiet(c)
    BY <1>0, <1>14 DEF GetNextCoordinates, InCall
  <2>3. Sent(c)' /\ call'[c] = "waiting" /\ request'[c] = GetRequest(n)
    BY <1>12, <2>1, <2>2 DEF Sent
  <2> QED BY <2>1, <2>3 DEF InCall, Getting
<1>15. CASE TakeStatus(c)
  <2>1. /\ call[c] = "waiting" /\ to_client[c] # <<>>
        /\ UNCHANGED <<pc, conn, msg, request, seen, to_engine>>
        /\ to_client'[c] = Tail(to_client[c])
        /\ \/ Head(to_client[c]) = OK /\ call'[c] = "ready"
           \/ Head(to_client[c]) = DATA_NEXT /\ call'[c] = "listening"
    BY <1>0, <1>15 DEF TakeStatus, Take, TypeOK, Dispatching
  <2>2. NextCoords(c)' = NextCoords(c) /\ (Answering(c)' <=> Answering(c))
    BY <2>1 DEF NextCoords, Answering
  <2>3. ~Sent(c) /\ ~Received(c)
    BY <2>1 DEF Sent, Received
  <2>4. CASE SettingUp(c)
    <3>1. to_engine[c] = <<>> /\ to_client[c] = <<OK>> /\ ~Answering(c)
      BY <2>3, <2>4 DEF SettingUp, SetUpAnswered
    <3>2. Head(to_client[c]) = OK /\ to_client'[c] = <<>>
      BY <2>1, <3>1, ShortLists
    <3>3. call'[c] = "ready"
      BY <2>1, <3>2, ReplyFacts
    <3> QED BY <2>1, <2>2, <3>1, <3>2, <3>3 DEF InCall, Quiet
  <2>5. CASE Getting(c)
    <3>1. Announced(c) \/ Written(c) \/ Broken(c)
      BY <2>3, <2>5 DEF Getting
    <3>2. Head(to_client[c]) = DATA_NEXT
          /\ to_client'[c] = IF Announced(c) THEN <<>> ELSE IF Written(c) THEN <<NextCoords(c)>> ELSE <<Cut>>
      <4>1. CASE Announced(c)
        BY <2>1, <4>1, ShortLists DEF Announced
      <4>2. CASE ~Announced(c) /\ Written(c)
        BY <2>1, <4>2, ShortLists DEF Written
      <4>3. CASE ~Announced(c) /\ ~Written(c) /\ Broken(c)
        BY <2>1, <4>3, ShortLists DEF Broken
      <4> QED BY <3>1, <4>1, <4>2, <4>3
    <3>3. call'[c] = "listening"
      BY <2>1, <3>2, ReplyFacts
    <3>4. CASE Announced(c)
      <4>1. Announced(c)'
        BY <2>1, <3>2, <3>3, <3>4 DEF Announced
      <4> QED BY <2>1, <2>5, <3>3, <4>1 DEF InCall, Getting
    <3>5. CASE ~Announced(c) /\ Written(c)
      <4>1. Written(c)'
        BY <2>1, <2>2, <3>2, <3>3, <3>5 DEF Written
      <4> QED BY <2>1, <2>5, <3>3, <4>1 DEF InCall, Getting
    <3>6. CASE ~Announced(c) /\ ~Written(c) /\ Broken(c)
      <4>1. Broken(c)'
        BY <2>1, <3>2, <3>3, <3>6 DEF Broken
      <4> QED BY <2>1, <2>5, <3>3, <4>1 DEF InCall, Getting
    <3> QED BY <3>1, <3>4, <3>5, <3>6
  <2> QED BY <1>0, <2>1, <2>4, <2>5 DEF InCall
<1>16. CASE TakeCoordinates(c)
  <2>1. /\ call[c] = "listening" /\ to_client[c] # <<>> /\ Head(to_client[c]).type = "COORDS"
        /\ UNCHANGED <<pc, conn, msg, request, to_engine>>
        /\ to_client'[c] = Tail(to_client[c])
        /\ call'[c] \in {"ready", "failed"}
    BY <1>0, <1>16 DEF TakeCoordinates, Take, TypeOK, Dispatching
  <2>2. Getting(c)
    BY <1>0, <2>1 DEF InCall
  <2>3. Written(c)
    BY <2>1, <2>2, ShortLists, ReplyFacts DEF Getting, Announced, Broken
  <2>4. to_client'[c] = <<>>
    BY <2>1, <2>3, ShortLists DEF Written
  <2> QED BY <2>1, <2>3, <2>4 DEF InCall, Quiet, Written, Answering
<1>17. CASE UNCHANGED vars
  BY <1>0, <1>17, InCallKept DEF vars, Answering, Stopped
<1> QED BY <1>1, <1>2, <1>3, <1>5, <1>6, <1>7, <1>8, <1>9, <1>10, <1>11, <1>13, <1>14,
           <1>15, <1>16, <1>17 DEF Next, EngineStep, ClientStep
-----------------------------------------------------------------------------
(* Steps.                                                                  *)

\* Nothing changes of what a client that is set up knows of its networks, ...
LEMMA InStepKept ==
  ASSUME NEW c \in Client, InStep(c), IsSetUp(c)' => IsSetUp(c), ~Stopped' => ~Stopped,
         UNCHANGED <<backlog, network_count, prepared>>, conn' \in {conn, None},
         seen'[c] = seen[c], \A n \in Network : UnderWay(c, n)' <=> UnderWay(c, n),
         (pc # "step" /\ pc' # "step") \/ UNCHANGED <<pc, msg>>
  PROVE  InStep(c)'
BY DEF InStep

\* ... and while it is, the engine serves nobody else.
LEMMA ServedAlone ==
  ASSUME IInv, NEW c \in Client, IsSetUp(c), ~Stopped
  PROVE  /\ backlog = <<>> /\ conn \in {c, None} /\ Active(c)
         /\ pc # "poll" => conn = c
         /\ pc = "answer" => msg.type = "GET"
<1>1. TypeOK /\ Dispatching /\ InStep(c)
  BY DEF IInv
<1>2. Active(c) /\ backlog = <<>> /\ conn \in {c, None}
  BY <1>1 DEF InStep, IsSetUp, Active
<1>3. pc # "poll" => conn = c
  BY <1>1, <1>2, NameAssumption DEF TypeOK, Stopped
<1>4. ASSUME pc = "answer" PROVE msg.type = "GET"
  <2>1. msg \in Requests /\ Answering(c)
    BY <1>1, <1>3, <1>4 DEF Dispatching, Answering
  <2>2. ASSUME msg.type = "INIT" PROVE FALSE
    <3>1. call[c] = "waiting" /\ Received(c) /\ request[c].type = "INIT"
      BY <1>2, <1>4, <2>1, <2>2, CallAnswered
    <3> QED BY <3>1 DEF IsSetUp, Received
  <2> QED BY <2>1, <2>2, RequestFacts
<1> QED BY <1>2, <1>3, <1>4

LEMMA InStepStep ==
  ASSUME IInv, [Next]_vars, NEW c \in Client PROVE InStep(c)'
<1> USE DEF engine, nets, clients, wires
<1>0. TypeOK /\ Dispatching /\ InStep(c) /\ InCall(c) /\ Connected(c) /\ InCall(c)'
  BY InCallStep DEF IInv
<1>a. SUFFICES ASSUME IsSetUp(c)', ~Stopped' PROVE InStep(c)'
  BY DEF InStep
<1>1. CASE Accept
  <2>1. IsSetUp(c) /\ ~Stopped /\ backlog # <<>>
    BY <1>a, <1>1 DEF Accept, IsSetUp, Stopped
  <2> QED BY <2>1, ServedAlone
<1>2. CASE Readable \/ Receive
  BY <1>0, <1>2, InStepKept DEF Readable, Receive, IsSetUp, Stopped, UnderWay
<1>3. CASE ReceiveNothing
  <2>1. \E rc \in Int : Return(rc)
    BY <1>3 DEF ReceiveNothing
  <2>2. conn' \in {conn, None} /\ pc' \in {"dead", "recv", "poll"} /\ pc = "recv"
    BY <1>0, <1>3, <2>1, ReturnFacts DEF ReceiveNothing
  <2> QED BY <1>0, <1>3, <2>2, InStepKept DEF ReceiveNothing, IsSetUp, Stopped, UnderWay
<1>4. CASE AnswerInit
  <2>1. /\ conn \in Client /\ pc = "answer" /\ msg.type = "INIT" /\ msg \in Requests
        /\ UNCHANGED clients /\ ~Stopped
    BY <1>0, <1>4 DEF AnswerInit, TypeOK, Dispatching, Stopped
  <2>2. PICK s \in Setup : s = msg.setup
    BY <2>1, RequestFacts
  <2>3. Send(OK) /\ \E rc \in Int : Return(rc)
    BY <1>a, <1>4, <2>2 DEF AnswerInit, Stopped
  <2>4. conn' \in {conn, None} /\ pc' \in {"dead", "recv", "poll"}
    BY <1>0, <2>1, <2>3, ReturnFacts
  <2>5. /\ backlog' = backlog /\ to_engine' = to_engine
        /\ conn # c => to_client'[c] = to_client[c]
    BY <1>0, <2>1, <2>3, SendReaches, ReplyFacts
  <2>6. conn = c
    <3> SUFFICES ASSUME conn # c PROVE FALSE
      OBVIOUS
    <3>1. IsSetUp(c)
      BY <1>a, <2>1, <2>5 DEF IsSetUp
    <3> QED BY <2>1, <3>1, ServedAlone
  <2>7. /\ call[c] = "waiting" /\ SettingUp(c) /\ request[c] = msg /\ to_client[c] = <<>>
        /\ backlog = <<>> /\ link[c] = "open"
    <3>1. Active(c) /\ Answering(c)
      BY <1>a, <2>1, <2>6 DEF IsSetUp, Active, Answering
    <3>2. call[c] = "waiting" /\ SettingUp(c) /\ request[c] = msg /\ Received(c) /\ link[c] = "open"
      BY <2>1, <3>1, CallAnswered
    <3> QED BY <1>0, <2>6, <3>1, <3>2 DEF Received, Connected
  <2>8. to_client'[c] = <<OK>>
    BY <1>0, <2>1, <2>3, <2>6, <2>7, SendReaches, ReplyFacts, ShortLists
  <2>9. \A n \in Network : ~UnderWay(c, n)'
    BY <2>8, OnTheWay DEF UnderWay
  <2>10. \A n \in Network : seen[c][n] = IF n < s.networks THEN 0 ELSE None
    BY <2>2, <2>7, RequestFacts DEF SettingUp, Fresh
  <2>11. network_count' = s.networks /\ prepared' = Prepared(s)
    BY <1>4, <2>2 DEF AnswerInit
  <2>12. ASSUME NEW n \in Network, seen'[c][n] # None
         PROVE  n < network_count' /\ seen'[c][n] = 0 /\ prepared'[n] = 1
    BY <2>1, <2>10, <2>11, <2>12 DEF Prepared
  <2> QED BY <2>4, <2>5, <2>6, <2>7, <2>9, <2>12 DEF InStep
<1>5. CASE AnnounceCoordinates
  <2>1. /\ conn \in Client /\ pc = "answer" /\ pc' \in {"write", "dead"} /\ UNCHANGED <<clients, conn, msg>>
        /\ Send(DATA_NEXT) /\ UNCHANGED nets /\ ~Stopped /\ msg.type = "GET"
    BY <1>0, <1>5 DEF AnnounceCoordinates, TypeOK, Stopped
  <2>2. backlog' = backlog /\ (conn # c => to_client'[c] = to_client[c])
        /\ (conn = c /\ link[c] = "open" => to_client'[c] = Append(to_client[c], DATA_NEXT))
    BY <1>0, <2>1, SendReaches, ReplyFacts
  <2>3. CASE conn = c
    <3>1. Active(c) /\ Answering(c)
      BY <1>a, <2>1, <2>3 DEF IsSetUp, Active, Answering
    <3>2. Getting(c) /\ Received(c) /\ link[c] = "open" /\ request[c].type = "GET"
      BY <2>1, <3>1, CallAnswered
    <3>3. to_client[c] = <<>> /\ to_client'[c] = <<DATA_NEXT>>
      BY <2>2, <2>3, <3>2, ShortLists DEF Received
    <3>4. IsSetUp(c) /\ \A n \in Network : UnderWay(c, n)' <=> UnderWay(c, n)
      <4>1. \A n \in Network : UnderWay(c, n)' <=> UnderWay(c, n)
        BY <3>3, OnTheWay DEF UnderWay
      <4> QED BY <1>a, <2>1, <3>2, <4>1 DEF IsSetUp
    <3> QED BY <1>0, <2>1, <2>2, <3>4, InStepKept
  <2>4. CASE conn # c
    <3>1. IsSetUp(c)
      BY <1>a, <2>1, <2>2, <2>4 DEF IsSetUp
    <3> QED BY <2>1, <2>4, <3>1, ServedAlone
  <2> QED BY <2>3, <2>4
<1>6. CASE WriteCoordinates
  <2>1. /\ conn \in Client /\ pc = "write" /\ pc' = "step" /\ UNCHANGED <<clients, conn, msg>>
        /\ msg.network \in Network /\ prepared[msg.network] \in Nat
        /\ Send(Coords(msg.network, prepared[msg.network])) /\ UNCHANGED nets /\ ~Stopped
    BY <1>0, <1>6, RequestFacts DEF WriteCoordinates, TypeOK, Dispatching, Stopped
  <2>2. backlog' = backlog /\ (conn # c => to_client'[c] = to_client[c])
    BY <1>0, <2>1, SendReaches, ReplyFacts
  <2>3. conn = c
    <3> SUFFICES ASSUME conn # c PROVE FALSE
      OBVIOUS
    <3>1. IsSetUp(c)
      BY <1>a, <2>1, <2>2 DEF IsSetUp
    <3> QED BY <2>1, <3>1, ServedAlone
  <2>4. Active(c) /\ Answering(c)
    BY <1>a, <2>1, <2>3 DEF IsSetUp, Active, Answering
  <2>5. call[c] \in {"waiting", "listening"} /\ Getting(c) /\ Announced(c) /\ request[c] = msg
        /\ link[c] = "open"
    BY <2>1, <2>4, CallAnswered
  <2>6. /\ Coords(msg.network, prepared[msg.network]) = NextCoords(c)
        /\ request[c] = GetRequest(msg.network) /\ seen[c][msg.network] \in Nat
    BY <2>1, <2>4, NextIsPrepared
  <2>7. /\ to_client[c] \in {<<>>, <<DATA_NEXT>>}
        /\ to_client'[c] = Append(to_client[c], Coords(msg.network, prepared[msg.network]))
    BY <1>0, <2>1, <2>3, <2>5, SendReaches, ReplyFacts DEF Announced
  <2>8. \/ to_client'[c] = <<Coords(msg.network, prepared[msg.network])>>
        \/ to_client'[c] = <<DATA_NEXT, Coords(msg.network, prepared[msg.network])>>
    BY <2>7, ShortLists
  <2>9. \A n \in Network : ~UnderWay(c, n) /\ (UnderWay(c, n)' <=> n = msg.network)
    <3>1. \A n \in Network : ~UnderWay(c, n)
      BY <2>7, OnTheWay DEF UnderWay
    <3>2. ASSUME NEW n \in Network PROVE UnderWay(c, n)' <=> n = msg.network
      <4> DEFINE sent == Coords(msg.network, prepared[msg.network])
      <4>1. /\ HasCoords(<<sent>>, n) <=> n = msg.network
            /\ HasCoords(<<DATA_NEXT, sent>>, n) <=> n = msg.network
        BY OnTheWay
      <4> QED BY <2>8, <4>1 DEF UnderWay
    <3> QED BY <3>1, <3>2
  <2>10. IsSetUp(c)
    BY <2>5, <2>6, RequestFacts DEF IsSetUp
  <2>11. ASSUME NEW n \in Network, seen'[c][n] # None
         PROVE  /\ n < network_count'
                /\ prepared'[n] = seen'[c][n] + (IF UnderWay(c, n)' THEN 1 ELSE 0)
                                    + (IF pc' = "step" /\ msg'.network = n THEN 0 ELSE 1)
    <3>1. n < network_count /\ prepared[n] = seen[c][n] + 0 + 1 /\ seen[c][n] \in Nat
      BY <1>0, <2>1, <2>9, <2>10, <2>11 DEF InStep, TypeOK
    <3> QED BY <2>1, <2>9, <3>1
  <2> QED BY <1>0, <2>1, <2>2, <2>10, <2>11 DEF InStep
<1>7. CASE StepNetwork
  <2>1. /\ pc = "step" /\ msg \in Requests /\ msg.type = "GET"
        /\ UNCHANGED <<msg, network_count, clients, wires>> /\ ~Stopped
        /\ steps' = [steps EXCEPT ![msg.network] = @ + 1]
        /\ prepared' = [prepared EXCEPT ![msg.network] = steps'[msg.network]]
    BY <1>0, <1>7 DEF StepNetwork, Dispatching, Stopped
  <2>2. conn' \in {conn, None} /\ pc' \in {"dead", "recv", "poll"}
    BY <1>0, <1>7, <2>1, ReturnFacts DEF StepNetwork
  <2>3. IsSetUp(c) /\ \A n \in Network : UnderWay(c, n)' <=> UnderWay(c, n)
    BY <1>a, <2>1 DEF IsSetUp, UnderWay
  <2>4. msg.network \in Network
    BY <2>1, RequestFacts
  <2>5. ASSUME NEW n \in Network, seen'[c][n] # None
        PROVE  /\ n < network_count'
               /\ prepared'[n] = seen'[c][n] + (IF UnderWay(c, n)' THEN 1 ELSE 0)
                                   + (IF pc' = "step" /\ msg'.network = n THEN 0 ELSE 1)
    <3>1. seen'[c][n] = seen[c][n] /\ seen[c][n] \in Nat
      BY <1>0, <2>1, <2>5 DEF TypeOK
    <3>2. /\ n < network_count
          /\ prepared[n] = seen[c][n] + (IF UnderWay(c, n) THEN 1 ELSE 0)
                             + (IF msg.network = n THEN 0 ELSE 1)
      BY <1>0, <2>1, <2>3, <3>1, NameAssumption DEF InStep
    <3>3. prepared[n] \in Nat /\ prepared[n] = steps[n]
      BY <1>0, <3>2 DEF TypeOK, Dispatching
    <3>4. prepared'[n] = IF msg.network = n THEN prepared[n] + 1 ELSE prepared[n]
      BY <1>0, <2>1, <2>4, <3>3 DEF TypeOK
    <3> QED BY <2>1, <2>2, <2>3, <3>1, <3>2, <3>3, <3>4
  <2> QED BY <1>0, <2>1, <2>2, <2>3, <2>5 DEF InStep
<1>8. CASE BrokenPipe \/ Killed
  BY <1>a, <1>8 DEF BrokenPipe, Killed, Stopped
<1>9. ASSUME NEW d \in Client, ClientStep(d) PROVE UNCHANGED <<pc, conn, msg, nets>>
  BY <1>9 DEF ClientStep, Connect, ConnectionRefused, SetUp, GetNextCoordinates, Ask,
              TakeStatus, TakeCoordinates, Take, HeaderFails, Leave
<1>10. ASSUME NEW d \in Client, d # c, ClientStep(d) PROVE InStep(c)'
  <2>1. /\ call'[c] = call[c] /\ request'[c] = request[c] /\ seen'[c] = seen[c]
        /\ to_client'[c] = to_client[c]
    <3>1. CASE Connect(d) \/ ConnectionRefused(d) \/ HeaderFails(d) \/ Leave(d)
      BY <1>0, <1>10, <3>1 DEF Connect, ConnectionRefused, HeaderFails, Leave, TypeOK, Dispatching
    <3>2. CASE SetUp(d) \/ GetNextCoordinates(d)
      BY <1>0, <1>10, <3>2 DEF SetUp, GetNextCoordinates, Ask, TypeOK, Dispatching
    <3>3. CASE TakeStatus(d)
      BY <1>0, <1>10, <3>3 DEF TakeStatus, Take, TypeOK, Dispatching
    <3>4. CASE TakeCoordinates(d)
      BY <1>0, <1>10, <3>4 DEF TakeCoordinates, Take, TypeOK, Dispatching
    <3> QED BY <1>10, <3>1, <3>2, <3>3, <3>4 DEF ClientStep
  <2>2. IsSetUp(c) /\ UNCHANGED <<pc, conn, msg, nets>>
        /\ \A n \in Network : UnderWay(c, n)' <=> UnderWay(c, n)
    BY <1>a, <1>9, <1>10, <2>1 DEF IsSetUp, UnderWay
  <2>3. ~Connect(d)
    BY <1>10, <2>2 DEF Connect, IsSetUp
  <2>4. backlog' = backlog
    BY <1>10, <2>3 DEF ClientStep, ConnectionRefused, SetUp, GetNextCoordinates, Ask,
                       TakeStatus, TakeCoordinates, Take, HeaderFails, Leave
  <2> QED BY <1>0, <1>a, <2>1, <2>2, <2>4, InStepKept DEF Stopped
<1>11. CASE Connect(c) \/ ConnectionRefused(c) \/ HeaderFails(c) \/ Leave(c)
  BY <1>0, <1>a, <1>11 DEF Connect, ConnectionRefused, HeaderFails, Leave, TypeOK, IsSetUp
<1>12. CASE SetUp(c)
  <2>1. call'[c] = "waiting" /\ to_client'[c] = <<>> /\ request'[c].type = "INIT"
    BY <1>0, <1>12, RequestFacts DEF SetUp, Ask, InCall, Quiet, TypeOK
  <2> QED BY <1>a, <2>1 DEF IsSetUp
<1>13. CASE GetNextCoordinates(c)
  <2>1. call[c] = "ready" /\ UNCHANGED <<backlog, seen, to_client>>
    BY <1>13 DEF GetNextCoordinates, Ask
  <2>2. UNCHANGED <<pc, conn, msg, nets>>
    BY <1>9, <1>13 DEF ClientStep
  <2> QED BY <1>0, <2>1, <2>2, InStepKept DEF IsSetUp, Stopped, UnderWay
<1>14. CASE TakeStatus(c)
  <2>1. /\ call[c] = "waiting" /\ to_client[c] # <<>> /\ UNCHANGED <<backlog, seen, request>>
        /\ to_client'[c] = Tail(to_client[c])
    BY <1>0, <1>14 DEF TakeStatus, Take, TypeOK, Dispatching
  <2>2. IsSetUp(c) /\ UNCHANGED <<pc, conn, msg, nets>>
    BY <1>9, <1>14, <2>1 DEF ClientStep, IsSetUp
  <2>3. \A n \in Network : UnderWay(c, n)' <=> UnderWay(c, n)
    <3>1. SetUpAnswered(c) \/ Announced(c) \/ Written(c) \/ Broken(c)
      <4>1. ~Sent(c) /\ ~Received(c)
        BY <2>1 DEF Sent, Received
      <4>2. SettingUp(c) \/ Getting(c)
        BY <1>0, <2>1 DEF InCall
      <4> QED BY <4>1, <4>2 DEF SettingUp, Getting
    <3>2. CASE SetUpAnswered(c)
      <4>1. to_client[c] = <<OK>> /\ to_client'[c] = <<>>
        BY <2>1, <3>2, ShortLists DEF SetUpAnswered
      <4> QED BY <4>1, OnTheWay DEF UnderWay
    <3>3. CASE Announced(c)
      <4>1. to_client[c] = <<DATA_NEXT>> /\ to_client'[c] = <<>>
        BY <2>1, <3>3, ShortLists DEF Announced
      <4> QED BY <4>1, OnTheWay DEF UnderWay
    <3>4. CASE Written(c)
      <4>1. to_client[c] = <<DATA_NEXT, NextCoords(c)>> /\ to_client'[c] = <<NextCoords(c)>>
        BY <2>1, <3>4, ShortLists DEF Written
      <4> QED BY <4>1, OnTheWay DEF UnderWay, NextCoords
    <3>5. CASE Broken(c)
      BY <1>a, <2>2, <3>5 DEF Broken, Stopped
    <3> QED BY <3>1, <3>2, <3>3, <3>4, <3>5
  <2> QED BY <1>0, <1>a, <2>1, <2>2, <2>3, InStepKept DEF Stopped
<1>15. CASE TakeCoordinates(c)
  <2>1. /\ call[c] = "listening" /\ to_client[c] # <<>> /\ Head(to_client[c]).type = "COORDS"
        /\ UNCHANGED <<backlog, request, pc, conn, msg, nets>>
        /\ to_client'[c] = Tail(to_client[c])
    BY <1>0, <1>15 DEF TakeCoordinates, Take, TypeOK, Dispatching
  <2>2. Getting(c) /\ Written(c)
    BY <1>0, <2>1, ShortLists, ReplyFacts DEF InCall, Getting, Announced, Broken
  <2>3. PICK n \in Network : request[c] = GetRequest(n) /\ seen[c][n] # None
    BY <2>2 DEF Getting
  <2>4. seen[c][n] \in Nat /\ request[c].network = n
    BY <1>0, <2>3, RequestFacts DEF TypeOK
  <2>5. to_client[c] = <<Coords(n, seen[c][n] + 1)>>
    BY <2>1, <2>2, <2>4 DEF Written, NextCoords
  <2>6. Head(to_client[c]) = Coords(n, seen[c][n] + 1) /\ to_client'[c] = <<>>
    BY <2>1, <2>5, ShortLists
  <2>7. seen'[c] = [seen[c] EXCEPT ![n] = seen[c][n] + 1]
    <3>1. seen' = [seen EXCEPT ![c][n] = seen[c][n] + 1]
      <4> DEFINE m == Head(to_client[c])
      <4>1. m.network = n /\ m.step = seen[c][n] + 1 /\ m.network = request[c].network
        BY <2>4, <2>6, ReplyFacts
      <4>2. seen' = [seen EXCEPT ![c][m.network] = m.step]
        BY <1>15, <4>1 DEF TakeCoordinates
      <4> QED BY <4>1, <4>2
    <3> QED BY <1>0, <3>1 DEF TypeOK
  <2>8. \A k \in Network : ~UnderWay(c, k)' /\ (UnderWay(c, k) <=> k = n)
    <3>1. \A k \in Network : ~UnderWay(c, k)'
      BY <2>6, OnTheWay DEF UnderWay
    <3>2. ASSUME NEW k \in Network PROVE UnderWay(c, k) <=> k = n
      <4>1. HasCoords(<<Coords(n, seen[c][n] + 1)>>, k) <=> k = n
        BY OnTheWay
      <4> QED BY <2>5, <4>1 DEF UnderWay
    <3> QED BY <3>1, <3>2
  <2>9. IsSetUp(c) /\ ~Stopped
    BY <1>a, <2>1 DEF IsSetUp, Stopped
  <2>10. ASSUME NEW k \in Network, seen'[c][k] # None
         PROVE  /\ k < network_count'
                /\ prepared'[k] = seen'[c][k] + (IF UnderWay(c, k)' THEN 1 ELSE 0)
                                    + (IF pc' = "step" /\ msg'.network = k THEN 0 ELSE 1)
    <3>1. seen[c] \in [Network -> Nat \cup {None}]
      BY <1>0 DEF TypeOK
    <3>2. seen[c][k] # None /\ seen[c][k] \in Nat
          /\ seen'[c][k] = seen[c][k] + (IF UnderWay(c, k) THEN 1 ELSE 0)
      BY <2>4, <2>7, <2>8, <2>10, <2>3, <3>1
    <3>3. /\ k < network_count
          /\ prepared[k] = seen[c][k] + (IF UnderWay(c, k) THEN 1 ELSE 0)
                             + (IF pc = "step" /\ msg.network = k THEN 0 ELSE 1)
      BY <1>0, <2>9, <3>2 DEF InStep
    <3> QED BY <2>1, <2>8, <3>2, <3>3
  <2> QED BY <1>0, <2>1, <2>9, <2>10 DEF InStep
<1>16. CASE UNCHANGED vars
  BY <1>0, <1>16, InStepKept DEF vars, IsSetUp, Stopped, UnderWay
<1> QED BY <1>1, <1>2, <1>3, <1>4, <1>5, <1>6, <1>7, <1>8, <1>10, <1>11, <1>12, <1>13,
           <1>14, <1>15, <1>16 DEF Next, EngineStep, ClientStep
-----------------------------------------------------------------------------
(* Who is taken for lost.                                                  *)

LEMMA RenewedLaterStep ==
  ASSUME IInv, [Next]_vars, NEW c \in Client PROVE RenewedLater(c)'
<1> USE DEF engine, nets, clients, wires
<1>0. TypeOK /\ RenewedLater(c)
  BY DEF IInv
<1>1. CASE EngineStep \/ Killed \/ UNCHANGED vars
  BY <1>0, <1>1 DEF RenewedLater, EngineStep, Accept, Readable, Receive, ReceiveNothing, AnswerInit,
                    AnnounceCoordinates, WriteCoordinates, StepNetwork, BrokenPipe, Killed, vars
<1>2. ASSUME NEW d \in Client, ClientStep(d) PROVE RenewedLater(c)'
  <2>1. CASE SetUp(d)
    <3>1. \E m : Ask(d, m)
      BY <2>1 DEF SetUp
    <3> QED BY <1>0, <2>1, <3>1 DEF RenewedLater, SetUp, Ask, TypeOK
  <2>2. CASE GetNextCoordinates(d)
    <3>1. renewed' = renewed /\ \E m : Ask(d, m)
      BY <2>2 DEF GetNextCoordinates
    <3> QED BY <1>0, <3>1 DEF RenewedLater, Ask, TypeOK
  <2>3. CASE ~SetUp(d) /\ ~GetNextCoordinates(d)
    BY <1>0, <1>2, <2>3 DEF RenewedLater, ClientStep, Connect, ConnectionRefused, TakeStatus,
                            TakeCoordinates, Take, HeaderFails, Leave, TypeOK
  <2> QED BY <2>1, <2>2, <2>3
<1> QED BY <1>1, <1>2 DEF Next

LEMMA ReadByFirstStep ==
  ASSUME IInv, [Next]_vars, NEW c \in Client PROVE ReadByFirst(c)'
<1> USE DEF engine, nets, clients, wires
<1>0. TypeOK /\ Dispatching /\ InCall(c) /\ ReadByFirst(c) /\ None \notin Client
  BY NameAssumption DEF IInv
<1>1. CASE Accept
  BY <1>0, <1>1 DEF Accept, ReadByFirst, FirstSetupToCome, TypeOK
<1>2. CASE Readable
  BY <1>0, <1>2 DEF Readable, ReadByFirst, FirstSetupToCome
<1>3. CASE Receive
  <2>1. /\ pc = "recv" /\ msg' = Head(to_engine[conn]) /\ pc' = "answer" /\ conn \in Client
        /\ to_engine' = [to_engine EXCEPT ![conn] = Tail(@)] /\ to_engine[conn] # <<>>
        /\ UNCHANGED <<turn, conn, call, renewed, link>>
    BY <1>0, <1>3 DEF Receive, TypeOK
  <2>2. SUFFICES ASSUME conn = c PROVE ReadByFirst(c)'
    BY <2>1 DEF ReadByFirst
  <2>3. to_engine'[c] = <<>>
    <3>1. to_engine[c] \in Seq(Requests) /\ Len(to_engine[c]) <= 1 /\ to_engine[c] # <<>>
      BY <1>0, <2>1, <2>2 DEF TypeOK, Dispatching
    <3>2. to_engine'[c] = Tail(to_engine[c])
      BY <1>0, <2>1, <2>2 DEF TypeOK
    <3> QED BY <3>1, <3>2
  <2>4. call[c] # "connected"
    BY <1>0, <2>1, <2>2 DEF InCall, Quiet
  <2> QED BY <1>0, <2>1, <2>2, <2>3, <2>4 DEF ReadByFirst, FirstSetupToCome
<1>4. ASSUME NEW rc \in Int, Return(rc), pc \in {"recv", "answer", "step"},
             UNCHANGED <<msg, clients, to_engine>>,
             link'[c] = "open" => link[c] = "open",
             conn = c => ~FirstSetupToCome(c) \/ link'[c] # "open"
      PROVE  ReadByFirst(c)'
  <2>1. conn' = c => conn = c
    BY <1>0, <1>4, ReturnFacts
  <2>2. pc' \in {"dead", "recv", "poll"}
    BY <1>0, <1>4, ReturnFacts
  <2> QED BY <1>0, <1>4, <2>1, <2>2 DEF ReadByFirst, FirstSetupToCome
<1>5. CASE ReceiveNothing
  <2>1. \E rc \in Int : Return(rc)
    BY <1>5 DEF ReceiveNothing
  <2>2. conn = c => link[c] # "open"
    BY <1>5 DEF ReceiveNothing
  <2> QED BY <1>4, <1>5, <2>1, <2>2 DEF ReceiveNothing, FirstSetupToCome
<1>6. CASE AnswerInit
  <2>1. pc = "answer" /\ UNCHANGED <<msg, clients>> /\ conn \in Client
    BY <1>0, <1>6 DEF AnswerInit, TypeOK
  <2>2. conn = c => ~FirstSetupToCome(c)
    BY <1>0, <2>1 DEF ReadByFirst
  <2>3. CASE pc' \in {"hung", "dead"} /\ UNCHANGED <<turn, conn, wires>>
    BY <1>0, <2>1, <2>3 DEF ReadByFirst, FirstSetupToCome
  <2>4. CASE Send(OK) /\ \E rc \in Int : Return(rc)
    <3>1. (link'[c] = "open" => link[c] = "open") /\ UNCHANGED to_engine
      BY <1>0, <2>1, <2>4, SendReaches, ReplyFacts
    <3> QED BY <1>4, <2>1, <2>2, <2>4, <3>1
  <2> QED BY <1>6, <2>3, <2>4 DEF AnswerInit
<1>7. CASE AnnounceCoordinates \/ WriteCoordinates
  <2>1. /\ pc \in {"answer", "write"} /\ pc' \in {"write", "step", "dead"} /\ conn \in Client
        /\ UNCHANGED <<turn, conn, msg, clients>>
    BY <1>0, <1>7 DEF AnnounceCoordinates, WriteCoordinates, TypeOK
  <2>2. (link'[c] = "open" => link[c] = "open") /\ UNCHANGED to_engine
    <3>1. conn = c \/ link'[c] = link[c]
      BY <1>0, <1>7, <2>1 DEF AnnounceCoordinates, WriteCoordinates, Send, TypeOK
    <3>2. link[conn] # "open" => link'[conn] # "open"
      BY <1>0, <1>7, <2>1 DEF AnnounceCoordinates, WriteCoordinates, Send, TypeOK
    <3> QED BY <1>7, <3>1, <3>2 DEF AnnounceCoordinates, WriteCoordinates, Send
  <2> QED BY <1>0, <2>1, <2>2 DEF ReadByFirst, FirstSetupToCome
<1>8. CASE StepNetwork
  <2>1. pc = "step" /\ Return(1) /\ UNCHANGED <<msg, clients, wires>>
    BY <1>8 DEF StepNetwork
  <2>2. conn = c => ~FirstSetupToCome(c)
    BY <1>0, <2>1 DEF ReadByFirst
  <2> QED BY <1>4, <2>1, <2>2
<1>9. CASE BrokenPipe \/ Killed
  BY <1>0, <1>9 DEF BrokenPipe, Killed, ReadByFirst, FirstSetupToCome
<1>10. ASSUME NEW d \in Client, ClientStep(d) PROVE ReadByFirst(c)'
  <2>1. UNCHANGED <<pc, turn, conn, msg>>
    BY <1>10 DEF ClientStep, Connect, ConnectionRefused, SetUp, GetNextCoordinates, Ask,
                 TakeStatus, TakeCoordinates, Take, HeaderFails, Leave
  <2>2. CASE Connect(d)
    <3>1. conn # d /\ (d # c => UNCHANGED <<call[c], renewed[c], link[c], to_engine[c]>>)
      BY <1>0, <2>2 DEF Connect, Forgotten, TypeOK
    <3> QED BY <1>0, <2>1, <3>1 DEF ReadByFirst, FirstSetupToCome
  <2>3. CASE SetUp(d)
    <3>1. PICK s \in Setup : Ask(d, InitRequest(s))
      BY <2>3 DEF SetUp
    <3>2. d # c => UNCHANGED <<call[c], renewed[c], link[c], to_engine[c]>>
      BY <1>0, <2>3, <3>1 DEF SetUp, Ask, TypeOK
    <3>3. ASSUME d = c PROVE ReadByFirst(c)'
      <4>1. link'[c] = link[c] /\ renewed'[c] = (call[c] = "ready")
        BY <1>0, <2>3, <3>1, <3>3 DEF SetUp, Ask, TypeOK
      <4>2. CASE call[c] = "ready"
        BY <4>1, <4>2 DEF ReadByFirst, FirstSetupToCome
      <4>3. CASE call[c] = "connected" /\ link[c] = "open" /\ conn = c
        <5>1. FirstSetupToCome(c)
          BY <4>3 DEF FirstSetupToCome, RenewedLater, IInv
        <5>2. pc \in {"poll", "hung", "dead"} \/ (pc = "recv" /\ turn = 1)
          BY <1>0, <4>3, <5>1 DEF ReadByFirst
        <5> QED BY <2>1, <5>2 DEF ReadByFirst
      <4> QED BY <2>1, <2>3, <3>3, <4>1, <4>2, <4>3 DEF SetUp, ReadByFirst, FirstSetupToCome
    <3> QED BY <1>0, <2>1, <3>2, <3>3 DEF ReadByFirst, FirstSetupToCome
  <2>4. CASE GetNextCoordinates(d)
    <3>1. PICK n \in Network : Ask(d, GetRequest(n))
      BY <2>4 DEF GetNextCoordinates
    <3>2. d # c => UNCHANGED <<call[c], renewed[c], link[c], to_engine[c]>>
      BY <1>0, <2>4, <3>1 DEF GetNextCoordinates, Ask, TypeOK
    <3>3. ASSUME d = c PROVE ~FirstSetupToCome(c)'
      <4>1. call[c] = "ready"
        BY <2>4, <3>3 DEF GetNextCoordinates
      <4>2. to_engine[c] = <<>> /\ to_engine'[c] = Append(to_engine[c], GetRequest(n))
            /\ call'[c] = "waiting"
        BY <1>0, <3>1, <3>3, <4>1 DEF InCall, Quiet, Ask, TypeOK
      <4>3. Head(to_engine'[c]) = GetRequest(n)
        BY <4>2, ShortLists
      <4> QED BY <4>2, <4>3, RequestFacts DEF FirstSetupToCome
    <3>4. link' = link /\ renewed' = renewed
      BY <2>4, <3>1 DEF GetNextCoordinates, Ask
    <3> QED BY <1>0, <2>1, <3>2, <3>3, <3>4 DEF ReadByFirst, FirstSetupToCome
  <2>5. CASE TakeStatus(d) \/ TakeCoordinates(d) \/ HeaderFails(d) \/ ConnectionRefused(d)
    <3>1. UNCHANGED <<renewed, link, to_engine>> /\ (call'[c] = "connected" => call[c] = "connected")
      BY <1>0, <2>5 DEF TakeStatus, TakeCoordinates, Take, HeaderFails, ConnectionRefused, TypeOK
    <3> QED BY <1>0, <2>1, <3>1 DEF ReadByFirst, FirstSetupToCome
  <2>6. CASE Leave(d)
    <3>1. \/ link'[c] # "open"
          \/ UNCHANGED <<call[c], renewed[c], link[c], to_engine[c]>>
      BY <1>0, <2>6 DEF Leave, TypeOK
    <3> QED BY <1>0, <2>1, <3>1 DEF ReadByFirst, FirstSetupToCome
  <2> QED BY <1>10, <2>2, <2>3, <2>4, <2>5, <2>6 DEF ClientStep
<1>11. CASE UNCHANGED vars
  BY <1>0, <1>11 DEF vars, ReadByFirst, FirstSetupToCome
<1> QED BY <1>1, <1>2, <1>3, <1>5, <1>6, <1>7, <1>8, <1>9, <1>10, <1>11 DEF Next, EngineStep

\* Who waits to be accepted after one more connection came, or the first was accepted.
LEMMA BacklogFacts ==
  ASSUME NEW b \in Seq(Client), NEW c \in Client
  PROVE  /\ Contains(Append(b, c), c)
         /\ \A d \in Client : Contains(b, d) => Contains(Append(b, c), d)
         /\ b # <<>> => /\ Head(b) \in Client
                       /\ \A d \in Client : Contains(b, d) => d = Head(b) \/ Contains(Tail(b), d)
<1>1. /\ Len(Append(b, c)) = Len(b) + 1 /\ Append(b, c)[Len(b) + 1] = c /\ Len(b) \in Nat
      /\ \A i \in 1..Len(b) : Append(b, c)[i] = b[i]
  BY AppendProperties
<1>2. ASSUME b # <<>>, NEW d \in Client, Contains(b, d), d # Head(b)
      PROVE  Contains(Tail(b), d)
  <2>1. PICK i \in 1..Len(b) : b[i] = d
    BY <1>2 DEF Contains
  <2>2. Head(b) = b[1] /\ Len(Tail(b)) = Len(b) - 1 /\ \A j \in 1..Len(Tail(b)) : Tail(b)[j] = b[j + 1]
    BY <1>2
  <2>3. i # 1 /\ i - 1 \in 1..Len(Tail(b)) /\ Len(b) \in Nat
    BY <1>2, <2>1, <2>2
  <2>4. Tail(b)[i - 1] = d
    BY <2>1, <2>2, <2>3
  <2> QED BY <2>3, <2>4 DEF Contains
<1> QED BY <1>1, <1>2 DEF Contains

LEMMA LiveClientsHeldStep ==
  ASSUME IInv, [Next]_vars PROVE LiveClientsHeld'
<1> USE DEF engine, nets, clients, wires
<1>0. TypeOK /\ Dispatching /\ LiveClientsHeld /\ \A c \in Client : RenewedLater(c) /\ ReadByFirst(c)
  BY DEF IInv
<1>1. SUFFICES ASSUME NEW c \in Client, TakenForLost(c)', ~renewed'[c] PROVE FALSE
  BY <1>0 DEF LiveClientsHeld, TypeOK
<1>2. link'[c] = "open" /\ conn' # c /\ ~Contains(backlog', c)
  BY <1>1 DEF TakenForLost, Forgotten
<1>3. ~renewed[c] /\ link[c] = "open" => conn = c \/ Contains(backlog, c)
  BY <1>0 DEF LiveClientsHeld, TakenForLost, Forgotten
<1>4. CASE Accept
  <2>1. backlog \in Seq(Client) /\ backlog # <<>> /\ backlog' = Tail(backlog) /\ renewed' = renewed
        /\ conn = None
    BY <1>0, <1>4 DEF Accept, TypeOK
  <2>2. link'[c] = link[c] \/ link'[c] = "dropped"
    BY <1>0, <1>4 DEF Accept, TypeOK
  <2>3. Contains(backlog, c)
    BY <1>1, <1>2, <1>3, <2>1, <2>2, NameAssumption
  <2>4. c = Head(backlog)
    BY <1>2, <2>1, <2>3, BacklogFacts
  <2>5. conn' = c \/ link'[c] = "dropped"
    BY <1>0, <1>4, <2>4 DEF Accept, TypeOK
  <2> QED BY <1>2, <2>5
<1>5. ASSUME UNCHANGED <<renewed, backlog>>, link'[c] = "open" => link[c] = "open"
      PROVE  conn = c /\ conn' # conn /\ link[c] = "open" /\ ~renewed[c]
  BY <1>1, <1>2, <1>3, <1>5
<1>6. CASE ReceiveNothing
  <2>1. conn = c /\ link[c] = "open"
    BY <1>5, <1>6 DEF ReceiveNothing
  <2> QED BY <1>6, <2>1 DEF ReceiveNothing
<1>7. CASE AnswerInit
  <2>1. pc = "answer" /\ msg.type = "INIT" /\ UNCHANGED clients /\ conn \in Client
    BY <1>0, <1>7 DEF AnswerInit, TypeOK
  <2>2. CASE UNCHANGED <<conn, wires>>
    BY <1>5, <2>1, <2>2
  <2>3. CASE Send(OK) /\ \E rc \in Int : Return(rc)
    <3>1. (link'[c] = "open" => link[c] = "open") /\ UNCHANGED backlog
      BY <1>0, <2>1, <2>3, SendReaches, ReplyFacts
    <3>2. conn = c /\ conn' # conn /\ link[c] = "open" /\ ~renewed[c]
      BY <1>5, <2>1, <3>1
    <3>3. turn = 1
      BY <1>0, <2>1, <3>2 DEF ReadByFirst
    <3> QED BY <2>3, <3>2, <3>3 DEF Return
  <2> QED BY <1>7, <2>2, <2>3 DEF AnswerInit
<1>8. CASE AnnounceCoordinates \/ WriteCoordinates
  <2>1. conn \in Client /\ UNCHANGED <<conn, renewed, backlog>>
    BY <1>0, <1>8 DEF AnnounceCoordinates, WriteCoordinates, Send, TypeOK
  <2>2. link'[c] = "open" => link[c] = "open"
    BY <1>0, <1>8, <2>1 DEF AnnounceCoordinates, WriteCoordinates, Send, TypeOK
  <2> QED BY <1>5, <2>1, <2>2
<1>9. CASE StepNetwork
  <2>1. Return(1) /\ UNCHANGED <<clients, wires>>
    BY <1>9 DEF StepNetwork
  <2>2. conn' = conn
    BY <2>1 DEF Return
  <2> QED BY <1>5, <2>1, <2>2
<1>10. CASE Readable \/ Receive \/ BrokenPipe \/ Killed
  BY <1>5, <1>10 DEF Readable, Receive, BrokenPipe, Killed
<1>11. ASSUME NEW d \in Client, ClientStep(d) PROVE FALSE
  <2>1. CASE Connect(d)
    <3>1. backlog \in Seq(Client) /\ backlog' = Append(backlog, d) /\ UNCHANGED <<conn, renewed>>
      BY <1>0, <2>1 DEF Connect, TypeOK
    <3>2. Contains(backlog', d) /\ (Contains(backlog, c) => Contains(backlog', c))
      BY <3>1, BacklogFacts
    <3>3. d # c => link'[c] = link[c]
      BY <1>0, <2>1 DEF Connect, TypeOK
    <3> QED BY <1>1, <1>2, <1>3, <3>1, <3>2, <3>3
  <2>2. CASE SetUp(d)
    <3>1. PICK s \in Setup : Ask(d, InitRequest(s))
      BY <2>2 DEF SetUp
    <3>2. UNCHANGED <<conn, backlog, link>> /\ (renewed[c] /\ d # c => renewed'[c])
      BY <1>0, <2>2, <3>1 DEF SetUp, Ask, TypeOK
    <3>3. call[d] = "ready" => renewed'[d]
      BY <1>0, <2>2 DEF SetUp, TypeOK
    <3>4. renewed[c] => renewed'[c]
      BY <1>0, <2>2, <3>2, <3>3 DEF SetUp, RenewedLater
    <3> QED BY <1>1, <1>2, <1>3, <3>2, <3>4
  <2>3. CASE GetNextCoordinates(d)
    <3>1. UNCHANGED <<conn, renewed, backlog, link>>
      BY <2>3 DEF GetNextCoordinates, Ask
    <3> QED BY <1>5, <3>1
  <2>4. CASE TakeStatus(d) \/ TakeCoordinates(d) \/ HeaderFails(d) \/ ConnectionRefused(d)
    <3>1. UNCHANGED <<conn, renewed, backlog, link>>
      BY <2>4 DEF TakeStatus, TakeCoordinates, Take, HeaderFails, ConnectionRefused
    <3> QED BY <1>5, <3>1
  <2>5. CASE Leave(d)
    <3>1. d # c /\ UNCHANGED <<conn, backlog>> /\ link'[c] = link[c] /\ renewed'[c] = renewed[c]
      BY <1>0, <1>2, <2>5 DEF Leave, TypeOK
    <3> QED BY <1>1, <1>2, <1>3, <3>1
  <2> QED BY <1>11, <2>1, <2>2, <2>3, <2>4, <2>5 DEF ClientStep
<1>12. CASE UNCHANGED vars
  BY <1>5, <1>12 DEF vars
<1> QED BY <1>4, <1>6, <1>7, <1>8, <1>9, <1>10, <1>11, <1>12 DEF Next, EngineStep
-----------------------------------------------------------------------------
(* The theorems.                                                           *)

LEMMA InitIInv == Init => IInv
<1> SUFFICES ASSUME Init PROVE IInv
  OBVIOUS
<1>1. TypeOK /\ Dispatching
  BY TypesInit
<1>2. \A c \in Client : call[c] = "away"
  BY DEF Init
<1>3. \A c \in Client : conn # c /\ link[c] # "open" /\ ~renewed[c]
  BY NameAssumption DEF Init
<1> QED BY <1>1, <1>2, <1>3 DEF IInv, Connected, Active, InCall, InStep, IsSetUp, RenewedLater,
                                ReadByFirst, LiveClientsHeld, TakenForLost

LEMMA StepIInv == IInv /\ [Next]_vars => IInv'
  BY TypesStep, ConnectedStep, InCallStep, InStepStep, RenewedLaterStep, ReadByFirstStep,
     LiveClientsHeldStep DEF IInv

\* Types, and that the engine never writes a response that was not prepared, whatever
\* clients come, ask and leave.
THEOREM EngineTypeOK == Spec => []TypeOK
<1>1. IInv => TypeOK
  BY DEF IInv
<1> QED BY <1>1, InitIInv, StepIInv, PTL DEF Spec

\* Requests and answers are paired: a call that returned leaves nothing behind, neither
\* at the engine nor on the way, that the next call could take for its own.
THEOREM AnswersAlwaysPaired == Spec => []AnswersPaired
<1>1. IInv => AnswersPaired
  <2> SUFFICES ASSUME IInv PROVE AnswersPaired
    OBVIOUS
  <2>1. ASSUME NEW c \in Client
        PROVE  InCall(c) /\ Len(to_engine[c]) <= 1
    BY DEF IInv, Dispatching
  <2> QED BY <2>1 DEF AnswersPaired, InCall, Quiet, Answering
<1> QED BY <1>1, InitIInv, StepIInv, PTL DEF Spec

\* The engine takes a client whose connection is open for lost only after it called setup()
\* again: the first INIT of a connection is always read by the first of the two
\* dispatches, for any number of clients that come and go.
THEOREM LiveClientsStayHeld == Spec => []LiveClientsHeld
<1>1. IInv => LiveClientsHeld
  BY DEF IInv
<1> QED BY <1>1, InitIInv, StepIInv, PTL DEF Spec

LEMMA SequenceStep ==
  ASSUME IInv, [Next]_vars, NEW c \in Client, call[c] = "listening", call'[c] = "ready"
  PROVE  seen'[c][request[c].network] = seen[c][request[c].network] + 1
<1>0. TypeOK /\ Dispatching /\ InCall(c)
  BY DEF IInv
<1>1. TakeCoordinates(c)
  <2>1. call' # call
    OBVIOUS
  <2>2. PICK d \in Client : ClientStep(d)
    BY <2>1 DEF Next, EngineStep, Killed, Accept, Readable, Receive, ReceiveNothing, AnswerInit,
                AnnounceCoordinates, WriteCoordinates, StepNetwork, BrokenPipe, clients, vars
  <2>3. d = c
    BY <1>0, <2>2 DEF TypeOK, ClientStep, Connect, ConnectionRefused, SetUp,
                      GetNextCoordinates, Ask, TakeStatus, TakeCoordinates, HeaderFails, Leave
  <2> QED BY <1>0, <2>2, <2>3 DEF TypeOK, ClientStep, Connect, ConnectionRefused, SetUp,
                      GetNextCoordinates, Ask, TakeStatus, HeaderFails, Leave
<1>2. to_client[c] # <<>> /\ Head(to_client[c]).type = "COORDS"
  BY <1>1 DEF TakeCoordinates
<1>3. Getting(c) /\ Written(c)
  BY <1>0, <1>2, ShortLists, ReplyFacts DEF InCall, Getting, Announced, Broken
<1>4. PICK n \in Network : request[c] = GetRequest(n)
  BY <1>3 DEF Getting
<1>5. request[c].network = n /\ to_client[c] = <<Coords(n, seen[c][n] + 1)>>
  BY <1>3, <1>4, RequestFacts DEF Written, NextCoords
<1>6. Head(to_client[c]) = Coords(n, seen[c][n] + 1)
  BY <1>5, ShortLists
<1>7. seen' = [seen EXCEPT ![c][n] = seen[c][n] + 1]
  BY <1>1, <1>5, <1>6, ReplyFacts DEF TakeCoordinates
<1>8. seen[c] \in [Network -> Nat \cup {None}] /\ seen \in [Client -> [Network -> Nat \cup {None}]]
  BY <1>0 DEF TypeOK
<1> QED BY <1>5, <1>7, <1>8

\* Each call returns the coordinates one step after those of the call before, for every
\* network: the engine, which sends what it prepared after the last request and only then
\* steps, is never a step ahead of or behind its client.
THEOREM CoordinatesAlwaysInSequence == Spec => CoordinatesInSequence
<1>1. IInv /\ [Next]_vars =>
        [\A c \in Client : call[c] = "listening" /\ call'[c] = "ready" =>
           LET n == request[c].network IN seen'[c][n] = seen[c][n] + 1]_vars
  BY SequenceStep
<1> QED BY <1>1, InitIInv, StepIInv, PTL DEF Spec, CoordinatesInSequence
=============================================================================
