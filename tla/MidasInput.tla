----------------------------- MODULE MidasInput -----------------------------
(***************************************************************************)
(* The two consumers of the qamqp library: midasinput, which appends every *)
(* message of its queue to a data file and acknowledges it, and vps, which *)
(* only logs it.  One daemon process (app tells which of the two it runs), *)
(* the broker, and the two TCP streams between them.  The link can be      *)
(* lost, the broker can refuse, close the connection or the channel, and   *)
(* the process can be killed at any point and started again.               *)
(*                                                                         *)
(* midasinput keeps data files and checkpoint.dat, which names the data    *)
(* file now written.  A file is a sequence of entries: a message, or a     *)
(* switch record that names the next file (an abort record follows it).    *)
(* That opening and writing a file succeed is an assumption: the code does *)
(* not look at what open() and write() return.                             *)
(***************************************************************************)
EXTENDS AmqpBroker

CONSTANTS
    MaxFaults,  \* bound on the faults of link and broker
    MaxLives,   \* bound on the starts of the process
    MaxFiles    \* bound on the data files: one for each life and the switches

ASSUME MidasAssumption ==
    {MaxFaults, MaxLives, MaxFiles} \subseteq Nat /\ MaxLives <= MaxFiles

VARIABLES
    app,        \* "midas" or "vps"
    client,     \* the qamqp library of the process
    broker,     \* the broker, see AmqpBroker
    proc,       \* "down", "up", or the step of switchOutput() it is at
    listeners,  \* connections of declared() of the exchange to mq_e_declared
    output,     \* the data file written to, 0 before the first
    data,       \* data[i]: the entries of the i-th data file
    checkpoint, \* file named by checkpoint.dat, 0 before the first
    published,  \* messages routed to the queue so far
    subscribed, \* runs of mq_declared() in this life
    cut,        \* a session was lost with the queue's channel open, this life
    faults, lives

vars == << app, client, broker, proc, listeners, output, data, checkpoint,
           published, subscribed, cut, faults, lives >>
diskVars == << proc, output, data, checkpoint >>
envVars == << app, published, lives >>

Entry(kind, payload, to) == [kind |-> kind, payload |-> payload, to |-> to]
Message(payload) == Entry("message", payload, 0)
SwitchTo(file) == << Entry("switch", << >>, file), Entry("abort", << >>, 0) >>

\* What the URL of the daemon leaves in the client: midasinput has "qamqp://" in
\* the code, vps whatever the configuration says.
Urls ==
    IF app = "midas" THEN {[scheme |-> "qamqp", port |-> -1]}
    ELSE [scheme : {"amqp"}, port : {-1, AmqpPort}]

Init ==
    /\ app \in {"midas", "vps"}
    /\ client = NewClient(FALSE)
    /\ broker = NewBroker
    /\ proc = "down"
    /\ listeners = 0 /\ output = 0 /\ data = << >> /\ checkpoint = 0
    /\ published = {} /\ subscribed = 0 /\ cut = FALSE
    /\ faults = 0 /\ lives = 0

-----------------------------------------------------------------------------
(* The process starts and stops *)

\* The constructor of midasinput (for vps the first reload() with an "mq" in its
\* configuration): connect, create and declare; both are delayed, the socket
\* only connects once the event loop runs.
Start ==
    /\ proc = "down" /\ lives < MaxLives
    /\ lives' = lives + 1
    /\ \E url \in Urls, auto \in BOOLEAN :
           client' = QueueDeclare(ClientOpen(NewClient(auto), url))
    /\ proc' = IF app = "midas" THEN "create" ELSE "up"
    /\ listeners' = 0 /\ subscribed' = 0 /\ cut' = FALSE /\ output' = 0
    /\ UNCHANGED << app, broker, data, checkpoint, published, faults >>

\* The process is killed: the broker sees the socket close.
Crash ==
    /\ proc # "down" /\ lives < MaxLives
    /\ proc' = "down"
    /\ client' = NewClient(FALSE)
    /\ broker' = EndSession(broker)
    /\ UNCHANGED << listeners, output, data, checkpoint, subscribed, cut, faults, envVars >>

-----------------------------------------------------------------------------
(* switchOutput(), one step per system call a crash may fall between *)

\* The slot is called again while the daemon runs.
SwitchOutput ==
    /\ app = "midas" /\ proc = "up" /\ Len(data) + MaxLives - lives < MaxFiles
    /\ proc' = "create"
    /\ UNCHANGED << client, broker, listeners, output, data, checkpoint, subscribed, cut, faults, envVars >>

\* Mutant: the old file is left without its records.
CreateFileOnly ==
    /\ proc = "create"
    /\ data' = Append(data, << >>)
    /\ proc' = "rename"
    /\ UNCHANGED << client, broker, listeners, output, checkpoint, subscribed, cut, faults, envVars >>

\* The new data file is created empty (its name is the current time).  Assumed: open()
\* succeeds, whose result is ignored, like that of the writes to the file later.
CreateFile ==
    /\ proc = "create"
    /\ data' = Append(data, << >>)
    /\ proc' = IF output = 0 THEN "rename" ELSE "close"
    /\ UNCHANGED << client, broker, listeners, output, checkpoint, subscribed, cut, faults, envVars >>

\* The old file gets its switch and abort records and is closed.
CloseOutput ==
    /\ proc = "close"
    /\ data' = [data EXCEPT ![output] = @ \o SwitchTo(Len(data))]
    /\ proc' = "rename"
    /\ UNCHANGED << client, broker, listeners, output, checkpoint, subscribed, cut, faults, envVars >>

\* Mutant: QFile::rename() instead of rename(): it does not replace a file.
RenameCheckpointOnce ==
    /\ proc = "rename"
    /\ checkpoint' = IF checkpoint = 0 THEN Len(data) ELSE checkpoint
    /\ output' = Len(data)
    /\ proc' = "up"
    /\ UNCHANGED << client, broker, listeners, data, subscribed, cut, faults, envVars >>

\* The checkpoint file, written and closed under another name, replaces
\* checkpoint.dat; the new file becomes the output.
RenameCheckpoint ==
    /\ proc = "rename"
    /\ checkpoint' = Len(data)
    /\ output' = Len(data)
    /\ proc' = "up"
    /\ UNCHANGED << client, broker, listeners, data, subscribed, cut, faults, envVars >>

-----------------------------------------------------------------------------
(* The socket and its timers *)

TcpConnected ==
    /\ proc = "up" /\ client.sock = "connecting" /\ client.lastPort = AmqpPort
    /\ client' = ConnectionReady(client)
    /\ UNCHANGED << broker, listeners, diskVars, subscribed, cut, faults, envVars >>

\* No broker answers: always so on another port, and a fault on the right one.
TcpRefused ==
    /\ proc = "up" /\ client.sock = "connecting" /\ faults < MaxFaults
    /\ client' = SocketLost(client)
    /\ faults' = faults + 1
    /\ UNCHANGED << broker, listeners, diskVars, subscribed, cut, envVars >>

Reconnect ==
    /\ proc = "up" /\ client.timers > 0
    /\ client' = ReconnectTimer(client)
    /\ UNCHANGED << broker, listeners, diskVars, subscribed, cut, faults, envVars >>

\* The TCP connection breaks, and what is in flight both ways is lost.
LinkDown ==
    /\ client.sock = "connected"
    /\ client' = SocketLost(client)
    /\ broker' = EndSession(broker)
    /\ cut' = (cut \/ client.opened["queue"])
    /\ UNCHANGED << listeners, diskVars, subscribed, envVars >>

LinkLoss ==
    /\ proc = "up" /\ faults < MaxFaults
    /\ LinkDown
    /\ faults' = faults + 1

\* The broker waited in vain for the Close-Ok.
HangUp ==
    /\ proc = "up" /\ broker.phase = "closing" /\ broker.out = << >>
    /\ LinkDown
    /\ UNCHANGED faults

-----------------------------------------------------------------------------
(* The daemon reads a frame: Network::readyRead and the slots below it *)

\* Mutant: no prefetch limit.
MqDeclaredNoQos(c) ==
    LET d == QueueConsume(c)
    IN  IF app = "midas" THEN ExchangeDeclare(d) ELSE d

\* mq_declared(): prefetch of one, consume, and only then the exchange.
MqDeclared(c) ==
    LET d == QueueConsume(SetQOS(c, "queue", 1))
    IN  IF app = "midas" THEN ExchangeDeclare(d) ELSE d

\* Every run of mq_declared() connected the slot once more.
MqEDeclared(c) == QueueBind(c, listeners)

MqMessageReceived(c) == QueueAck(GetMessage(c), c.messages[1])

ReadFrame(kinds) ==
    /\ proc = "up" /\ client.sock = "connected" /\ broker.out # << >>
    /\ Head(broker.out).kind \in kinds
    /\ broker' = [broker EXCEPT !.out = Tail(@)]

\* A session is over for the queue when the connection or the channel is closed.
ReadMethod ==
    /\ \/ ReadFrame(ConnectionMethods) /\ client' = ConnectionMethod(client, Head(broker.out))
       \/ ReadFrame(ChannelMethods) /\ client' = ChannelMethod(client, Head(broker.out))
       \/ ReadFrame(QueueMethods) /\ client' = QueueMethod(client, Head(broker.out))
    /\ cut' = \/ cut
              \/ client.opened["queue"]
                 /\ Head(broker.out).kind \in {"ConnectionClose", "ChannelClose"}
    /\ UNCHANGED << listeners, diskVars, subscribed, faults, envVars >>

ReadExchangeDeclareOk ==
    /\ ReadFrame({"ExchangeDeclareOk"})
    /\ client' = MqEDeclared(ExchangeDeclareOk(client))
    /\ UNCHANGED << listeners, diskVars, subscribed, cut, faults, envVars >>

ReadContent ==
    /\ ReadFrame({"Content"})
    /\ client' = QueueContent(client, Head(broker.out))
    /\ UNCHANGED << listeners, diskVars, subscribed, cut, faults, envVars >>

ReadDeclareOk ==
    /\ ReadFrame({"QueueDeclareOk"})
    /\ client' = MqDeclared(QueueDeclareOk(client))
    /\ subscribed' = subscribed + 1
    /\ listeners' = listeners + 1
    /\ UNCHANGED << diskVars, cut, faults, envVars >>

\* mq_messageReceived(): take, write, flush, acknowledge.
ReadBody ==
    /\ ReadFrame({"Body"})
    /\ LET c == QueueBody(client, Head(broker.out))
       IN  \/ /\ ~Announced(c)
              /\ client' = c
              /\ UNCHANGED data
           \/ /\ Announced(c)
              /\ client' = MqMessageReceived(c)
              /\ data' = IF app = "midas"
                         THEN [data EXCEPT ![output] = Append(@, Message(c.messages[1].payload))]
                         ELSE data
    /\ UNCHANGED << listeners, proc, output, checkpoint, subscribed, cut, faults, envVars >>

-----------------------------------------------------------------------------
(* The broker *)

BrokerReads ==
    /\ client.out # << >>
    /\ client' = [client EXCEPT !.out = Tail(@)]
    /\ LET f == Head(client.out)
       IN  \/ BrokerIgnores(broker, f) /\ UNCHANGED broker
           \/ /\ ~BrokerIgnores(broker, f) /\ BrokerRefuses(broker, f)
              /\ broker' = ForceClose(broker)
           \/ /\ ~BrokerIgnores(broker, f) /\ ~BrokerRefuses(broker, f)
              /\ broker' = BrokerHandle(broker, f)
    /\ UNCHANGED << listeners, diskVars, subscribed, cut, faults, envVars >>

BrokerDelivers ==
    /\ CanDeliver(broker)
    /\ broker' = Deliver(broker)
    /\ UNCHANGED << client, listeners, diskVars, subscribed, cut, faults, envVars >>

BrokerCloses ==
    /\ faults < MaxFaults
    /\ \/ broker.phase = "open" /\ broker' = ForceClose(broker)
       \/ "queue" \in broker.chans /\ broker' = CloseChannel(broker)
    /\ faults' = faults + 1
    /\ UNCHANGED << client, listeners, diskVars, subscribed, cut, envVars >>

\* Somebody publishes: to the exchange midasinput binds its queue to, or to the
\* queue of vps by name.
PublishMessage(m) ==
    /\ m \notin published
    /\ IF app = "midas" THEN broker.bound ELSE broker.qDeclared
    /\ published' = published \union {m}
    /\ broker' = [broker EXCEPT !.queue = Append(@, m)]
    /\ UNCHANGED << app, lives, client, listeners, diskVars, subscribed, cut, faults >>

-----------------------------------------------------------------------------
Daemon ==
    \/ CreateFile \/ CloseOutput \/ RenameCheckpoint
    \/ TcpConnected \/ Reconnect
    \/ ReadMethod \/ ReadDeclareOk \/ ReadExchangeDeclareOk \/ ReadContent \/ ReadBody

Network == LinkLoss \/ HangUp \/ TcpRefused

Next ==
    \/ Start \/ Crash \/ SwitchOutput \/ Daemon \/ Network
    \/ BrokerReads \/ BrokerDelivers \/ BrokerCloses
    \/ \E m \in Msg : PublishMessage(m)

\* The event loop runs, the broker works, an answered Close ends in a hang-up,
\* and the daemon is started again; no fault has to happen.
Fairness ==
    /\ WF_vars(Daemon) /\ WF_vars(Start) /\ WF_vars(HangUp)
    /\ WF_vars(BrokerReads) /\ WF_vars(BrokerDelivers)

Spec == Init /\ [][Next]_vars /\ Fairness

-----------------------------------------------------------------------------
(* Properties *)

\* Every part of the state has its type; in particular the delay of the next
\* attempt stops growing, and no body frame takes a message below zero.
TypeOK ==
    /\ app \in {"midas", "vps"}
    /\ client.sock \in {"unconnected", "connecting", "connected"}
    /\ client.timeOut \in {0, 1000, 5000, 25000, 125000}
    /\ client.timers \in 0 .. 2 * MaxFaults + 2
    /\ {client.opened, client.declared, client.delayedDeclare} \subseteq [Chan -> BOOLEAN]
    /\ \A i \in DOMAIN client.messages : client.messages[i].left \in Nat
    /\ broker.phase \in {"none", "start", "tune", "open", "closing"}
    /\ broker.chans \subseteq Chan
    /\ proc \in {"down", "up", "create", "close", "rename"}
    /\ output \in 0 .. Len(data) /\ checkpoint \in 0 .. Len(data)
    /\ published \subseteq Msg

\* The body of m as the file receives it: one part per body frame.
Parts(m) == [i \in 1 .. Len(Publish(m)) - 2 |-> m]

\* A message midasinput has acknowledged is in a data file, whole: the
\* acknowledgement of mq_messageReceived() never overtakes the write, and the
\* broker never counts a message as taken before it, whatever is lost or killed.
AckedIsStored ==
    app = "midas" =>
        \A m \in broker.acked :
            \E i \in DOMAIN data : Message(Parts(m)) \in ToSet(data[i])

\* With the prefetch of one that mq_declared() asks for, the process holds at most
\* one message: one that is never announced blocks it, the others stay with the
\* broker.
OneHeld == Len(client.messages) <= 1

\* The daemon consumes at most once in a life: no reconnection, reopened channel
\* or repeated answer runs mq_declared() a second time, which would give the
\* session two consumers and mq_e_declared() two connections.
SubscribedOnce == subscribed <= 1 /\ listeners <= 1 /\ broker.consumer <= 1

\* Nothing is written to a data file before checkpoint.dat names it, and a switch
\* record only names a file that exists: a reader finds every file that has data.
CheckpointFirst ==
    \A i \in DOMAIN data : data[i] # << >> =>
        /\ i <= checkpoint
        /\ \A e \in ToSet(data[i]) : e.kind = "switch" => e.to \in DOMAIN data

\* When checkpoint.dat is replaced while a data file is being written, the records
\* that send its reader to the new file are in it already, and are the last.
SwitchRecorded ==
    [][ checkpoint' # checkpoint /\ output # 0 =>
            IsSuffix(SwitchTo(checkpoint'), data[output]) ]_vars

\* A message that was received and never announced: an empty one.
Stuck == \E i \in DOMAIN client.messages : client.messages[i].left = 0

Drained ==
    /\ published \subseteq broker.acked
    /\ broker.consumer = 1
    /\ app = "midas" => broker.bound

\* The daemon ends up consuming, bound to the exchange and with nothing left to
\* acknowledge, except where the library gives up: the URL left the wrong port,
\* the socket is lost and autoReconnect_ happens to be false, the session was cut
\* after the channel of the queue had opened, or an empty message is held.
Drains ==
    <>[](/\ proc = "up"
         /\ \/ client.port # AmqpPort
            \/ client.sock = "unconnected" /\ ~client.auto
            \/ cut \/ Stuck \/ Drained)

=============================================================================
