-------------------------------- MODULE Amqp --------------------------------
(***************************************************************************)
(* The qamqp client library (src/mod/ext/qamqp): network, connection,      *)
(* channel, queue and exchange objects of one process.  The library is     *)
(* single threaded and every signal is a direct call, so an operation is   *)
(* an operator from the state of the library to its next state; the        *)
(* modules that use the library turn them into actions.                    *)
(*                                                                         *)
(* c.out is the TCP stream to the broker.  A frame is a record; what its   *)
(* encoding does is the subject of AmqpFields.                             *)
(***************************************************************************)
EXTENDS Integers, Sequences, SequencesExt

CONSTANTS
    Msg,        \* messages
    NoMsg,      \* the message of a frame that carries none
    Size,       \* Size[m]: length of the body of m
    FrameMax,   \* longest body a frame may carry (FRAME_MAX - 7)
    AmqpPort    \* default port (AMQPPORT)

ASSUME AmqpAssumption ==
    /\ NoMsg \notin Msg
    /\ Size \in [Msg -> Nat]
    /\ FrameMax \in Nat \ {0}

ASSUME PortAssumption == AmqpPort \in 1 .. 65534

\* The two channels an application creates: the numbers ChannelPrivate::init
\* hands out only have to differ.
Chan == {"queue", "exchange"}

Frame(ch, kind, n, tag, msg) ==
    [ch |-> ch, kind |-> kind, n |-> n, tag |-> tag, msg |-> msg]
Method(ch, kind) == Frame(ch, kind, 0, 0, NoMsg)

\* A Client with its network, the two channels, the exchange and the queue.
\* autoReconnect_ is never initialised: auto is whatever the memory held.
NewClient(auto) ==
    [port |-> AmqpPort, connected |-> FALSE,
     sock |-> "unconnected", auto |-> auto, connect |-> FALSE, lastPort |-> 0,
     timeOut |-> 1000, timers |-> 0, out |-> << >>,
     opened |-> [ch \in Chan |-> FALSE],
     delayedDeclare |-> [ch \in Chan |-> FALSE], declared |-> [ch \in Chan |-> FALSE],
     delayedBindings |-> 0, consumerTag |-> 0, messages |-> << >>]

-----------------------------------------------------------------------------
(* Network *)

\* Mutant: the defaults of the slot replace the address of the last connection.
ConnectToDefault(c, port) ==
    [c EXCEPT !.connect = TRUE, !.lastPort = port,
              !.sock = IF @ = "unconnected" THEN "connecting" ELSE @]

\* connectToHost() on a socket that is not idle only warns.
ConnectTo(c, port) ==
    LET p == IF port = 0 THEN c.lastPort ELSE port
    IN  [c EXCEPT !.connect  = TRUE,
                  !.lastPort = p,
                  !.sock     = IF @ = "unconnected" THEN "connecting" ELSE @]

\* A frame written while the socket is not connected is dropped in silence.
SendFrames(c, fs) ==
    IF c.sock = "connected" THEN [c EXCEPT !.out = @ \o fs] ELSE c

SendFrame(c, f) == SendFrames(c, << f >>)

ConnectionReady(c) ==
    [c EXCEPT !.sock = "connected", !.timeOut = 0,
              !.out = << Method("connection", "Header") >>]

\* The delay before the next attempt grows; the attempt is only planned when
\* the uninitialised flag happens to be set.
NetworkError(c) ==
    [c EXCEPT !.timeOut = IF @ = 0 THEN 1000 ELSE IF @ < 120000 THEN 5 * @ ELSE @,
              !.timers  = IF c.auto /\ c.connect THEN @ + 1 ELSE @]

ReconnectTimer(c) == ConnectTo([c EXCEPT !.timers = @ - 1], 0)

\* The socket is gone: error() is all that happens, Network::disconnected() is
\* connected to nothing, so no channel learns of it.
SocketLost(c) == NetworkError([c EXCEPT !.sock = "unconnected", !.out = << >>])

-----------------------------------------------------------------------------
(* Client *)

\* A URL of another scheme is skipped and the defaults stay; QUrl::port() is -1
\* when the URL has none, which the socket truncates to 65535.
ParseCnnString(c, url) ==
    IF url.scheme \in {"amqp", "amqps"}
    THEN [c EXCEPT !.port = IF url.port = -1 THEN 65535 ELSE url.port]
    ELSE c

ClientOpen(c, url) == LET p == ParseCnnString(c, url) IN ConnectTo(p, p.port)

-----------------------------------------------------------------------------
(* Channel *)

ChannelOpen(c, ch) ==
    IF c.opened[ch] \/ ~c.connected THEN c
    ELSE SendFrame(c, Method(ch, "ChannelOpen"))

\* Neither the flag nor the peer is told: the channel stays "opened" and no
\* Close-Ok is sent.
ChannelClose(c) == c

SetQOS(c, ch, count) == SendFrame(c, Frame(ch, "Qos", count, 0, NoMsg))

-----------------------------------------------------------------------------
(* Queue *)

\* Mutant: a delayed declaration stays delayed after it was sent.
QueueDeclareAgain(c) ==
    IF ~c.opened["queue"]
    THEN [c EXCEPT !.delayedDeclare["queue"] = TRUE]
    ELSE SendFrame(c, Method("queue", "QueueDeclare"))

QueueDeclare(c) ==
    IF ~c.opened["queue"]
    THEN [c EXCEPT !.delayedDeclare["queue"] = TRUE]
    ELSE [SendFrame(c, Method("queue", "QueueDeclare"))
              EXCEPT !.delayedDeclare["queue"] = FALSE]

\* bind(), called n times.
QueueBind(c, n) ==
    IF ~c.opened["queue"]
    THEN [c EXCEPT !.delayedBindings = @ + n]
    ELSE SendFrames(c, [i \in 1 .. n |-> Method("queue", "Bind")])

QueueOnOpen(c) ==
    LET d == IF c.delayedDeclare["queue"] THEN QueueDeclare(c) ELSE c
    IN  [QueueBind(d, d.delayedBindings) EXCEPT !.delayedBindings = 0]

QueueDeclareOk(c) == [c EXCEPT !.declared["queue"] = TRUE]

\* Mutant: consume() with coNoAck.
QueueConsumeNoAck(c) ==
    IF ~c.opened["queue"] THEN c
    ELSE SendFrame(c, Frame("queue", "Consume", 1, c.consumerTag, NoMsg))

\* consume() asks for explicit acknowledgements (no coNoAck); there is no
\* delayed consume.
QueueConsume(c) ==
    IF ~c.opened["queue"] THEN c
    ELSE SendFrame(c, Frame("queue", "Consume", 0, c.consumerTag, NoMsg))

\* consumeOk() clears declared.
QueueConsumeOk(c, tag) ==
    [c EXCEPT !.declared["queue"] = FALSE, !.consumerTag = tag]

QueueDeliver(c, f) ==
    IF f.tag # c.consumerTag THEN c
    ELSE [c EXCEPT !.messages =
              Append(@, [tag |-> f.n, left |-> 0, payload |-> << >>])]

\* Mutant: the length in the header is not taken.
QueueContentIgnored(c, f) == c

QueueContent(c, f) ==
    IF c.messages = << >> THEN c
    ELSE [c EXCEPT !.messages[Len(c.messages)].left = f.n]

TakeBody(message, f) ==
    [message EXCEPT !.left = @ - f.n, !.payload = Append(@, f.msg)]

QueueBody(c, f) ==
    IF c.messages = << >> THEN c
    ELSE [c EXCEPT !.messages[Len(c.messages)] = TakeBody(@, f)]

\* messageReceived is emitted by a body frame, for a complete message that is
\* alone in the queue.
Announced(c) == Len(c.messages) = 1 /\ c.messages[1].left = 0

GetMessage(c) == [c EXCEPT !.messages = Tail(@)]

QueueAck(c, message) ==
    IF ~c.opened["queue"] THEN c
    ELSE SendFrame(c, Frame("queue", "Ack", message.tag, 0, NoMsg))

-----------------------------------------------------------------------------
(* Exchange *)

ExchangeDeclare(c) ==
    IF ~c.opened["exchange"]
    THEN [c EXCEPT !.delayedDeclare["exchange"] = TRUE]
    ELSE [SendFrame(c, Method("exchange", "ExchangeDeclare"))
              EXCEPT !.delayedDeclare["exchange"] = FALSE]

ExchangeOnOpen(c) ==
    IF c.delayedDeclare["exchange"] THEN ExchangeDeclare(c) ELSE c

ExchangeDeclareOk(c) == [c EXCEPT !.declared["exchange"] = TRUE]

\* publish(): the method, the content header, then the body cut into frames.
\* Only the frames' order and lengths matter to the broker.
Publish(m) ==
    LET parts == (Size[m] + FrameMax - 1) \div FrameMax
        Part(i) == IF i < parts THEN FrameMax ELSE Size[m] - FrameMax * (parts - 1)
    IN  << Frame("exchange", "Publish", 0, 0, m),
           Frame("exchange", "Content", Size[m], 0, m) >>
        \o [i \in 1 .. parts |-> Frame("exchange", "Body", Part(i), 0, m)]

-----------------------------------------------------------------------------
(* Connection *)

ConnectionStart(c) == SendFrame(c, Method("connection", "StartOk"))

ConnectionTune(c) ==
    SendFrame(SendFrame(c, Method("connection", "TuneOk")),
              Method("connection", "ConnectionOpen"))

\* createQueue() and createExchange() connect _q_open() of their channel to
\* connected(): the queue's channel comes first.
OpenChannels(c) == ChannelOpen(ChannelOpen(c, "queue"), "exchange")

ConnectionOpenOk(c) == OpenChannels([c EXCEPT !.connected = TRUE])

ChannelOpenOk(c, ch) ==
    LET d == [c EXCEPT !.opened[ch] = TRUE]
    IN  IF ch = "queue" THEN QueueOnOpen(d) ELSE ExchangeOnOpen(d)

ChannelDisconnected(c, ch) == [c EXCEPT !.opened[ch] = FALSE]

\* Only the exchange forgets what it had declared and was about to declare.
ExchangeDisconnected(c) ==
    [ChannelDisconnected(c, "exchange") EXCEPT
        !.delayedDeclare["exchange"] = FALSE, !.declared["exchange"] = FALSE]

\* No Close-Ok and the socket stays open: error() plans a reconnection while
\* the old connection is still up.
ConnectionClose(c) ==
    ExchangeDisconnected(ChannelDisconnected(
        NetworkError([c EXCEPT !.connected = FALSE]), "queue"))

-----------------------------------------------------------------------------
(* The handlers of a frame: those of its class, on its channel *)

ConnectionMethods == {"Start", "Tune", "ConnectionOpenOk", "ConnectionClose"}

ConnectionMethod(c, f) ==
    CASE f.kind = "Start"            -> ConnectionStart(c)
      [] f.kind = "Tune"             -> ConnectionTune(c)
      [] f.kind = "ConnectionOpenOk" -> ConnectionOpenOk(c)
      [] f.kind = "ConnectionClose"  -> ConnectionClose(c)

ChannelMethods == {"ChannelOpenOk", "ChannelClose"}

ChannelMethod(c, f) ==
    CASE f.kind = "ChannelOpenOk" -> ChannelOpenOk(c, f.ch)
      [] f.kind = "ChannelClose"  -> ChannelClose(c)

\* Of the queue, and of the class "basic"; the other answers change nothing.
QueueMethods == {"ConsumeOk", "Deliver", "QosOk", "BindOk"}

QueueMethod(c, f) ==
    CASE f.kind = "ConsumeOk" -> QueueConsumeOk(c, f.tag)
      [] f.kind = "Deliver"   -> QueueDeliver(c, f)
      [] f.kind \in {"QosOk", "BindOk"} -> c

=============================================================================
