-------------------------- MODULE MidasInput_proofs --------------------------
(*************************************************************************)
(* Theorems about midasinput, for any messages and sizes and any number  *)
(* of faults, lives and files.  First its files: what their reader can   *)
(* rely on wherever the process is killed.  Then its session with the    *)
(* broker: the frames that can be under way together, what is held of a  *)
(* delivery, and what an acknowledgement is worth.                       *)
(*************************************************************************)
EXTENDS MidasInput, SequenceFacts

-----------------------------------------------------------------------------
(* The files                                                                *)

\* Where switchOutput() is, and what it has done up to there.
FilesInv ==
  /\ app \in {"midas", "vps"}
  /\ proc \in {"down", "up", "create", "close", "rename"}
  /\ IsSeq(data) /\ \A i \in DOMAIN data : IsSeq(data[i])
  /\ checkpoint \in 0 .. Len(data) /\ output \in {0, checkpoint}
  /\ proc = "close" => output # 0
  /\ proc = "rename" => Len(data) # 0
  /\ proc = "rename" /\ output # 0 => IsSuffix(SwitchTo(Len(data)), data[output])
  /\ CheckpointFirst

LEMMA FilesInit == Init => FilesInv
<1>1. << >> \in Seq({}) /\ Len(<< >>) = 0
  BY EmptySeq
<1>2. IsSeq(<< >>) /\ DOMAIN << >> = {}
  <2>1. << >> \in Seq(ToSet(<< >>))
    BY EmptySeq
  <2>2. DOMAIN << >> = 1 .. 0
    BY <1>1, LenProperties
  <2> QED
    BY <2>1, <2>2 DEF IsSeq
<1>3. QED
  BY <1>1, <1>2 DEF Init, FilesInv, CheckpointFirst

\* The next data file is created empty.
LEMMA FileAdded ==
  ASSUME FilesInv, data' = Append(data, << >>)
  PROVE  /\ IsSeq(data') /\ Len(data) \in Nat /\ Len(data') = Len(data) + 1
         /\ DOMAIN data = 1 .. Len(data) /\ DOMAIN data' = 1 .. Len(data) + 1
         /\ \A i \in DOMAIN data : data'[i] = data[i]
         /\ data'[Len(data) + 1] = << >>
         /\ \A i \in DOMAIN data' : IsSeq(data'[i])
<1>1. IsSeq(<< >>)
  BY EmptySeq DEF IsSeq
<1>2. QED
  BY <1>1, AppendIsSeq DEF FilesInv

\* Something is written to the output.
LEMMA FileWritten ==
  ASSUME FilesInv, output # 0, NEW f, IsSeq(f), data' = [data EXCEPT ![output] = f]
  PROVE  /\ IsSeq(data') /\ Len(data) \in Nat /\ Len(data') = Len(data)
         /\ DOMAIN data = 1 .. Len(data) /\ DOMAIN data' = DOMAIN data
         /\ output \in DOMAIN data /\ data'[output] = f
         /\ \A i \in DOMAIN data : i # output => data'[i] = data[i]
         /\ \A i \in DOMAIN data' : IsSeq(data'[i])
<1>1. Len(data) \in Nat /\ DOMAIN data = 1 .. Len(data)
  BY LenProperties DEF FilesInv, IsSeq
<1>2. output \in 1 .. Len(data)
  BY <1>1 DEF FilesInv
<1>3. QED
  BY <1>1, <1>2, ExceptIsSeq DEF FilesInv

LEMMA FilesCreate == FilesInv /\ CreateFile => FilesInv'
<1> SUFFICES ASSUME FilesInv, CreateFile PROVE FilesInv'
  OBVIOUS
<1>1. data' = Append(data, << >>)
  BY DEF CreateFile
<1>2. CheckpointFirst'
  BY <1>1, FileAdded DEF FilesInv, CreateFile, CheckpointFirst, ToSet
<1>3. checkpoint' \in 0 .. Len(data)' /\ output' \in {0, checkpoint'} /\ Len(data)' # 0
  BY <1>1, FileAdded DEF FilesInv, CreateFile
<1>4. (proc = "close" => output # 0)' /\ (proc = "rename" => output = 0)'
  BY DEF CreateFile
<1>5. QED
  BY <1>1, <1>2, <1>3, <1>4, FileAdded DEF FilesInv, CreateFile, envVars

LEMMA FilesClose == FilesInv /\ CloseOutput => FilesInv'
<1> SUFFICES ASSUME FilesInv, CloseOutput PROVE FilesInv'
  OBVIOUS
<1> DEFINE a == Entry("switch", << >>, Len(data))
           b == Entry("abort", << >>, 0)
           f == data[output] \o << a, b >>
<1>1. output # 0 /\ SwitchTo(Len(data)) = << a, b >>
  BY DEF FilesInv, CloseOutput, SwitchTo
<1>2. Len(data) \in Nat /\ DOMAIN data = 1 .. Len(data) /\ output \in DOMAIN data
  BY <1>1, LenProperties DEF FilesInv, IsSeq
<1>3. IsSeq(f) /\ ToSet(f) = ToSet(data[output]) \cup {a, b} /\ IsSuffix(<< a, b >>, f)
  <2> HIDE DEF a, b
  <2> QED
    BY <1>2, ConcatTwo DEF FilesInv
<1>4. data' = [data EXCEPT ![output] = f]
  BY <1>1 DEF CloseOutput
<1> HIDE DEF f
<1>5. /\ IsSeq(data') /\ Len(data') = Len(data) /\ DOMAIN data' = DOMAIN data
      /\ data'[output] = f
      /\ \A i \in DOMAIN data : i # output => data'[i] = data[i]
      /\ \A i \in DOMAIN data' : IsSeq(data'[i])
  BY <1>1, <1>3, <1>4, FileWritten
<1>6. CheckpointFirst'
  <2> SUFFICES ASSUME NEW i \in DOMAIN data, data'[i] # << >>
               PROVE  /\ i <= checkpoint
                      /\ \A e \in ToSet(data'[i]) : e.kind = "switch" => e.to \in DOMAIN data
    BY <1>5 DEF CheckpointFirst, CloseOutput
  <2>1. CASE i # output
    BY <2>1, <1>5 DEF FilesInv, CheckpointFirst
  <2>2. CASE i = output
    <3>1. output = checkpoint
      BY <1>1 DEF FilesInv
    <3>2. \A e \in ToSet(data[output]) : e.kind = "switch" => e.to \in DOMAIN data
      <4>1. CASE data[output] = << >>
        BY <4>1 DEF ToSet
      <4>2. CASE data[output] # << >>
        BY <4>2, <1>2 DEF FilesInv, CheckpointFirst
      <4> QED
        BY <4>1, <4>2
    <3>3. a.to \in DOMAIN data /\ b.kind # "switch"
      BY <1>2 DEF Entry
    <3> QED
      BY <2>2, <3>1, <3>2, <3>3, <1>2, <1>3, <1>5
  <2> QED
    BY <2>1, <2>2
<1>7. IsSuffix(SwitchTo(Len(data')), data'[output])
  <2> HIDE DEF a, b
  <2> QED
    BY <1>1, <1>3, <1>5
<1>8. UNCHANGED << app, output, checkpoint >> /\ proc' = "rename" /\ Len(data') # 0
  BY <1>2, <1>5 DEF CloseOutput, envVars
<1>9. QED
  BY <1>5, <1>6, <1>7, <1>8 DEF FilesInv

LEMMA FilesRename == FilesInv /\ RenameCheckpoint => FilesInv'
<1> SUFFICES ASSUME FilesInv, RenameCheckpoint PROVE FilesInv'
  OBVIOUS
<1>1. Len(data) \in Nat /\ DOMAIN data = 1 .. Len(data)
  BY LenProperties DEF FilesInv, IsSeq
<1>2. CheckpointFirst'
  BY <1>1 DEF FilesInv, CheckpointFirst, RenameCheckpoint, ToSet
<1>3. QED
  BY <1>1, <1>2 DEF FilesInv, RenameCheckpoint, envVars

LEMMA FilesBody == FilesInv /\ ReadBody => FilesInv'
<1> SUFFICES ASSUME FilesInv, ReadBody PROVE FilesInv'
  OBVIOUS
<1>1. /\ proc = "up" /\ UNCHANGED << proc, output, checkpoint, app >>
  BY DEF ReadBody, ReadFrame, envVars
<1>2. CASE data' = data
  BY <1>1, <1>2 DEF FilesInv, CheckpointFirst, ToSet
<1>3. ASSUME NEW e, e.kind = "message", data' = [data EXCEPT ![output] = Append(@, e)],
             output # 0
      PROVE  FilesInv'
  <2> DEFINE f == Append(data[output], e)
  <2>1. Len(data) \in Nat /\ DOMAIN data = 1 .. Len(data) /\ output \in DOMAIN data
    BY <1>3, LenProperties DEF FilesInv, IsSeq
  <2>2. IsSeq(f) /\ ToSet(f) \subseteq ToSet(data[output]) \cup {e}
    BY <2>1, AppendIsSeq DEF FilesInv, ToSet
  <2>3. data' = [data EXCEPT ![output] = f]
    BY <1>3
  <2> HIDE DEF f
  <2>4. /\ IsSeq(data') /\ Len(data') = Len(data) /\ DOMAIN data' = DOMAIN data
        /\ data'[output] = f
        /\ \A i \in DOMAIN data : i # output => data'[i] = data[i]
        /\ \A i \in DOMAIN data' : IsSeq(data'[i])
    BY <1>3, <2>2, <2>3, FileWritten
  <2>5. CheckpointFirst'
    <3> SUFFICES ASSUME NEW i \in DOMAIN data, data'[i] # << >>
                 PROVE  /\ i <= checkpoint
                        /\ \A x \in ToSet(data'[i]) : x.kind = "switch" => x.to \in DOMAIN data
      BY <1>1, <2>4 DEF CheckpointFirst
    <3>1. CASE i # output
      BY <3>1, <2>4 DEF FilesInv, CheckpointFirst
    <3>2. CASE i = output
      <4>1. output = checkpoint
        BY <1>3 DEF FilesInv
      <4>2. \A x \in ToSet(data[output]) : x.kind = "switch" => x.to \in DOMAIN data
        <5>1. CASE data[output] = << >>
          BY <5>1 DEF ToSet
        <5>2. CASE data[output] # << >>
          BY <5>2, <2>1 DEF FilesInv, CheckpointFirst
        <5> QED
          BY <5>1, <5>2
      <4>3. e.kind # "switch"
        BY <1>3
      <4> QED
        BY <3>2, <4>1, <4>2, <4>3, <2>1, <2>2, <2>4
    <3> QED
      BY <3>1, <3>2
  <2> QED
    BY <1>1, <2>4, <2>5 DEF FilesInv
<1>4. \/ data' = data
      \/ \E e : e.kind = "message" /\ data' = [data EXCEPT ![output] = Append(@, e)]
  BY DEF ReadBody, Message, Entry
<1>5. ASSUME NEW e, data' = [data EXCEPT ![output] = Append(@, e)], output = 0
      PROVE  data' = data
  <2>1. DOMAIN data = 1 .. Len(data) /\ data = [i \in DOMAIN data |-> data[i]]
    BY LenProperties DEF FilesInv, IsSeq
  <2> QED
    BY <1>5, <2>1
<1>6. QED
  BY <1>2, <1>3, <1>4, <1>5

\* Every other action leaves the files alone, and the process at a step it can be at.
LEMMA FilesKept ==
  ASSUME FilesInv, UNCHANGED << app, data, checkpoint >>,
         proc' \in {proc, "down", "up", "create"} \/ UNCHANGED proc,
         output' \in {output, 0},
         proc' \in {"close", "rename"} => UNCHANGED << proc, output >>
  PROVE  FilesInv'
BY DEF FilesInv, CheckpointFirst, ToSet

LEMMA FilesInvariant == Spec => []FilesInv
<1>1. FilesInv /\ [Next]_vars => FilesInv'
  <2> SUFFICES ASSUME FilesInv, [Next]_vars PROVE FilesInv'
    OBVIOUS
  <2>1. CASE UNCHANGED vars
    BY <2>1, FilesKept DEF vars
  <2>2. CASE Start
    BY <2>2, FilesKept DEF Start
  <2>3. CASE Crash
    BY <2>3, FilesKept DEF Crash, envVars
  <2>4. CASE SwitchOutput
    BY <2>4, FilesKept DEF SwitchOutput, envVars
  <2>5. CASE TcpConnected \/ Reconnect \/ ReadMethod \/ ReadDeclareOk
             \/ ReadExchangeDeclareOk \/ ReadContent
    BY <2>5, FilesKept
       DEF TcpConnected, Reconnect, ReadMethod, ReadDeclareOk, ReadExchangeDeclareOk,
           ReadContent, envVars, diskVars
  <2>6. CASE LinkLoss \/ HangUp \/ TcpRefused
    BY <2>6, FilesKept DEF LinkLoss, HangUp, LinkDown, TcpRefused, envVars, diskVars
  <2>7. CASE BrokerReads \/ BrokerDelivers \/ BrokerCloses
    BY <2>7, FilesKept DEF BrokerReads, BrokerDelivers, BrokerCloses, envVars, diskVars
  <2>8. CASE \E m \in Msg : PublishMessage(m)
    BY <2>8, FilesKept DEF PublishMessage, diskVars
  <2> QED
    BY <2>1, <2>2, <2>3, <2>4, <2>5, <2>6, <2>7, <2>8, FilesCreate, FilesClose, FilesRename,
       FilesBody DEF Next, Daemon, Network
<1>2. QED
  BY <1>1, FilesInit, PTL DEF Spec

\* Wherever midasinput is killed, its checkpoint names the last file with data, and a
\* switch record leads to a file that exists.
THEOREM CheckpointCorrect == Spec => []CheckpointFirst
<1>1. FilesInv => CheckpointFirst
  BY DEF FilesInv
<1>2. QED
  BY <1>1, FilesInvariant, PTL

\* The checkpoint moves on from a file that is being written only once that file ends
\* with the records that send its reader on.
THEOREM SwitchCorrect == Spec => SwitchRecorded
<1>1. FilesInv /\ [Next]_vars =>
        [checkpoint' # checkpoint /\ output # 0 =>
            IsSuffix(SwitchTo(checkpoint'), data[output])]_vars
  <2> SUFFICES ASSUME FilesInv, Next, checkpoint' # checkpoint, output # 0
               PROVE  IsSuffix(SwitchTo(checkpoint'), data[output])
    OBVIOUS
  <2>1. RenameCheckpoint
    BY DEF Next, Daemon, Network, Start, Crash, SwitchOutput, CreateFile, CloseOutput,
           TcpConnected, Reconnect, ReadMethod, ReadDeclareOk, ReadExchangeDeclareOk,
           ReadContent, ReadBody, LinkLoss, HangUp, LinkDown, TcpRefused, BrokerReads,
           BrokerDelivers, BrokerCloses, PublishMessage, envVars, diskVars
  <2> QED
    BY <2>1 DEF FilesInv, RenameCheckpoint
<1>2. QED
  BY <1>1, FilesInvariant, PTL DEF Spec, SwitchRecorded

-----------------------------------------------------------------------------
(* The session: the invariant                                               *)

ClientFields == {"port", "connected", "sock", "auto", "connect", "lastPort", "timeOut",
                 "timers", "out", "opened", "delayedDeclare", "declared",
                 "delayedBindings", "consumerTag", "messages"}
BrokerFields == {"queue", "qDeclared", "eDeclared", "bound", "acked", "phase", "noAck",
                 "chans", "consumer", "prefetch", "closed", "unacked", "nextTag", "out"}

Kinds(s) == {s[i].kind : i \in DOMAIN s}
Once(s, kind) == \A i, j \in DOMAIN s : s[i].kind = kind /\ s[j].kind = kind => i = j

\* The kinds of frames each end writes, and the channels they are for.
OfQueue == {"QueueDeclare", "Qos", "Consume", "Bind", "Ack"}
Asked == {"Header", "StartOk", "TuneOk", "ConnectionOpen", "ChannelOpen", "ExchangeDeclare"}
             \cup OfQueue
Pieces == {"Deliver", "Content", "Body"}
Answered == ConnectionMethods \cup ChannelMethods \cup QueueMethods \cup Pieces
                \cup {"QueueDeclareOk", "ExchangeDeclareOk"}

\* The broker takes frames on the channel of the queue, or ignores them.
Closing == broker.phase = "closing"
QueueUp == Closing \/ "queue" \in broker.chans \cup broker.closed

Stored(m) == \E i \in DOMAIN data : Message(Parts(m)) \in ToSet(data[i])

AskOK(f) ==
  /\ f.kind \in Asked
  /\ f.ch = IF f.kind \in OfQueue THEN "queue"
            ELSE IF f.kind = "ExchangeDeclare" THEN "exchange"
            ELSE IF f.kind = "ChannelOpen" THEN f.ch ELSE "connection"
  /\ f.kind = "ChannelOpen" => f.ch \in Chan
  /\ f.kind = "Qos" => f.n = 1
  /\ f.kind = "Consume" => f.n = 0
  /\ f.kind \in OfQueue \ {"Bind"} => QueueUp
  /\ f.kind = "Ack" /\ app = "midas" =>
        \A d \in ToSet(broker.unacked) : d.tag = f.n => Stored(d.msg)

AnswerOK(f) ==
  /\ f.kind \in Answered
  /\ f.kind = "ChannelOpenOk" => f.ch \in Chan
  /\ f.kind \in Pieces \cup {"QueueDeclareOk"} => QueueUp
  /\ f.kind = "ChannelOpenOk" /\ f.ch = "queue" => QueueUp
  /\ f.kind = "ConnectionClose" => Closing

\* Nothing of a session is left when the socket is not connected.
NoSession ==
  /\ client.out = << >> /\ broker.out = << >> /\ broker.unacked = << >>
  /\ broker.phase = "none" /\ broker.chans = {} /\ broker.closed = {}
  /\ broker.consumer = 0 /\ broker.prefetch = 0

ClientTypes(c) ==
  /\ DOMAIN c = ClientFields
  /\ c.sock \in {"unconnected", "connecting", "connected"}
  /\ c.timeOut \in {0, 1000, 5000, 25000, 125000}
  /\ c.opened \in [Chan -> BOOLEAN] /\ c.declared \in [Chan -> BOOLEAN]
  /\ c.delayedDeclare \in [Chan -> BOOLEAN]
  /\ IsSeq(c.out) /\ c.timers \in Nat /\ c.delayedBindings \in {0, 1}

BrokerTypes(b) ==
  /\ DOMAIN b = BrokerFields
  /\ b.phase \in {"none", "start", "tune", "open", "closing"}
  /\ b.chans \subseteq Chan /\ b.closed \subseteq {"queue"}
  /\ b.noAck = FALSE /\ b.nextTag \in Nat
  /\ IsSeq(b.out) /\ IsSeq(b.unacked) /\ Len(b.unacked) <= 1 /\ IsSeq(b.queue)
  /\ ToSet(b.queue) \cup {d.msg : d \in ToSet(b.unacked)} \subseteq Msg
  /\ b.phase = "closing" =>
        b.chans = {} /\ b.closed = {} /\ b.consumer = 0 /\ b.unacked = << >>
  /\ b.consumer # 0 => "queue" \in b.chans

SocketInv ==
  /\ client.sock # "connected" => NoSession
  /\ proc = "down" =>
        /\ client.sock # "connected" /\ client.messages = << >>
        /\ ~client.delayedDeclare["queue"] /\ ~client.delayedDeclare["exchange"]
        /\ client.delayedBindings = 0 /\ client.timers = 0
  /\ app = "midas" /\ proc = "up" => output # 0

FramesInv ==
  /\ \A f \in ToSet(client.out) : AskOK(f)
  /\ \A f \in ToSet(broker.out) : AnswerOK(f)

\* The declaration of the queue is in one place at most: to be sent, under way, answered,
\* or mq_declared() has run.
DeclareInv ==
  /\ subscribed \in {0, 1} /\ listeners = subscribed
  /\ Once(client.out, "QueueDeclare") /\ Once(broker.out, "QueueDeclareOk")
  /\ client.delayedDeclare["queue"] =>
        subscribed = 0 /\ "QueueDeclare" \notin Kinds(client.out) /\ "QueueDeclareOk" \notin Kinds(broker.out)
  /\ "QueueDeclare" \in Kinds(client.out) =>
        subscribed = 0 /\ "QueueDeclareOk" \notin Kinds(broker.out)
  /\ "QueueDeclareOk" \in Kinds(broker.out) => subscribed = 0

\* What mq_declared() starts, one after the other: the declaration of the exchange, and
\* the binding of the queue, which alone the broker may refuse.
ToDeclare == subscribed = 0
ToSend == client.delayedDeclare["exchange"]
Sent == "ExchangeDeclare" \in Kinds(client.out)
Declared == "ExchangeDeclareOk" \in Kinds(broker.out)
ToBind == client.delayedBindings # 0
Bound == "Bind" \in Kinds(client.out)
BindPending == ToDeclare \/ ToSend \/ Sent \/ Declared \/ ToBind \/ Bound

BindInv ==
  /\ Once(client.out, "ExchangeDeclare") /\ Once(broker.out, "ExchangeDeclareOk")
  /\ Once(client.out, "Bind")
  /\ ToDeclare => ~ToSend /\ ~Sent /\ ~Declared /\ ~ToBind /\ ~Bound
  /\ ToSend => ~Sent /\ ~Declared /\ ~ToBind /\ ~Bound
  /\ Sent => ~Declared /\ ~ToBind /\ ~Bound
  /\ Declared => ~ToBind /\ ~Bound
  /\ ToBind => ~Bound

\* The timers of a life: one for each fault, two for each session the broker closes.
TimersInv ==
  /\ faults \in 0 .. MaxFaults
  /\ Once(broker.out, "ConnectionClose")
  /\ client.timers + (IF "ConnectionClose" \in Kinds(broker.out) THEN 1 ELSE 0)
                   + (IF Closing THEN 1 ELSE 0)
       <= 2 * faults + (IF BindPending THEN 0 ELSE 2)

NoPieces == Pieces \cap Kinds(broker.out) = {}
Idle == client.messages = << >> /\ NoPieces /\ "Ack" \notin Kinds(client.out)

ConsumeInv ==
  /\ Once(client.out, "Consume") /\ Once(client.out, "Ack")
  /\ "Consume" \in Kinds(client.out) => subscribed = 1
  /\ subscribed = 0 \/ "Consume" \in Kinds(client.out) =>
        Idle /\ broker.unacked = << >> /\ broker.consumer = 0
  /\ broker.consumer # 0 =>
        /\ broker.consumer = 1 /\ subscribed = 1 /\ broker.prefetch = 1
        /\ broker.unacked = << >> => Idle

QosInv ==
  \A i \in DOMAIN client.out : client.out[i].kind = "Consume" =>
     \/ broker.prefetch = 1
     \/ Closing \/ "queue" \in broker.closed
     \/ \E j \in DOMAIN client.out : j < i /\ client.out[j].kind = "Qos"

\* The frames of a delivery: the method, the content header, the body.
Bodies(m) == (Size[m] + FrameMax - 1) \div FrameMax
Length(m) == Bodies(m) + 2
BodySize(m, i) == IF i < Bodies(m) THEN FrameMax ELSE Size[m] - FrameMax * (Bodies(m) - 1)

PieceOf(f, m, tag, j) ==
  IF j = 1 THEN f.kind = "Deliver" /\ f.n = tag
  ELSE IF j = 2 THEN f.kind = "Content" /\ f.n = Size[m]
  ELSE f.kind = "Body" /\ f.n = BodySize(m, j - 2) /\ f.msg = m

\* The frames of m from the k-th on are in s, after o others.
Block(s, o, k, m, tag) ==
  /\ o \in Nat /\ k \in 0 .. Length(m) - 1 /\ o + Length(m) - k <= Len(s)
  /\ o # 0 => k = 0
  /\ \A i \in 1 .. Len(s) :
        IF o < i /\ i <= o + Length(m) - k THEN PieceOf(s[i], m, tag, k + i - o)
        ELSE s[i].kind \notin Pieces

\* What the queue holds of m once it has read k of its frames.
Left(m, k) == IF k = 1 THEN 0 ELSE Size[m] - FrameMax * (k - 2)
Held(messages, k, m, tag) ==
  /\ k # 0
  /\ messages = << [tag |-> tag, left |-> Left(m, k), payload |-> [i \in 1 .. k - 2 |-> m]] >>

Delivering ==
  \E m \in Msg, tag \in Nat, o \in 0 .. Len(broker.out) : \E k \in 0 .. Length(m) - 1 :
     /\ Block(broker.out, o, k, m, tag)
     /\ client.messages = << >> \/ Held(client.messages, k, m, tag)
     /\ ToSet(broker.unacked) \subseteq {[tag |-> tag, msg |-> m]}
     /\ "Ack" \notin Kinds(client.out)

\* At most one message is held, and while it is none is acknowledged.
DeliveryInv ==
  \/ Delivering
  \/ /\ NoPieces /\ IsSeq(client.messages) /\ Len(client.messages) <= 1
     /\ client.messages = << >> \/ "Ack" \notin Kinds(client.out)
     /\ \A i \in DOMAIN client.messages : client.messages[i].left \in Nat

SessionInv ==
  /\ ClientTypes(client) /\ BrokerTypes(broker) /\ SocketInv /\ FramesInv
  /\ DeclareInv /\ BindInv /\ TimersInv /\ ConsumeInv /\ QosInv /\ DeliveryInv
  /\ AckedIsStored /\ published \subseteq Msg

-----------------------------------------------------------------------------
(* Frames in a stream                                                       *)

\* No kind of K is new in t, or there twice if it was not.
Fewer(s, t, K) ==
  \A kind \in K : /\ kind \in Kinds(t) => kind \in Kinds(s)
                  /\ Once(s, kind) => Once(t, kind)

LEMMA EmptyStream ==
  ASSUME NEW s, s = << >>
  PROVE  IsSeq(s) /\ Len(s) = 0 /\ ToSet(s) = {} /\ Kinds(s) = {} /\ \A kind : Once(s, kind)
<1>1. IsSeq(s) /\ Len(s) = 0 /\ ToSet(s) = {}
  BY ElementsOfEmpty, EmptySeq
<1>2. DOMAIN s = 1 .. 0
  BY <1>1, LenProperties DEF IsSeq
<1>3. QED
  BY <1>1, <1>2 DEF Kinds, Once

\* A stream with one more frame.
LEMMA LongerStream ==
  ASSUME NEW s, IsSeq(s), NEW f, NEW t, t = Append(s, f)
  PROVE  /\ IsSeq(t) /\ Len(s) \in Nat /\ Len(t) = Len(s) + 1
         /\ DOMAIN s = 1 .. Len(s) /\ DOMAIN t = 1 .. Len(s) + 1
         /\ \A i \in 1 .. Len(s) : t[i] = s[i]
         /\ t[Len(s) + 1] = f
         /\ ToSet(t) = ToSet(s) \cup {f} /\ Kinds(t) = Kinds(s) \cup {f.kind}
         /\ \A kind : kind # f.kind /\ Once(s, kind) => Once(t, kind)
         /\ f.kind \notin Kinds(s) => Once(t, f.kind)
<1>1. /\ IsSeq(t) /\ Len(s) \in Nat /\ Len(t) = Len(s) + 1
      /\ DOMAIN s = 1 .. Len(s) /\ DOMAIN t = 1 .. Len(s) + 1
      /\ \A i \in 1 .. Len(s) : t[i] = s[i]
      /\ t[Len(s) + 1] = f
  BY AppendIsSeq, SMTT(60)
<1>2. PICK n \in Nat : n = Len(s)
  BY <1>1
<1>3. \A i \in 1 .. n + 1 : i \in 1 .. n \/ i = n + 1
  BY <1>2
<1>4. 1 .. n \subseteq 1 .. n + 1 /\ n + 1 \in 1 .. n + 1
  BY <1>2
<1>5. ToSet(t) = ToSet(s) \cup {f}
  BY ElementsOfAppend
<1>6. Kinds(t) = Kinds(s) \cup {f.kind}
  BY <1>1, <1>2, <1>3, <1>4 DEF Kinds
<1>7. ASSUME NEW kind, kind # f.kind, Once(s, kind)
      PROVE  Once(t, kind)
  BY <1>1, <1>2, <1>3, <1>7 DEF Once
<1>8. ASSUME f.kind \notin Kinds(s)
      PROVE  Once(t, f.kind)
  BY <1>1, <1>2, <1>3, <1>8 DEF Once, Kinds
<1>9. QED
  BY <1>1, <1>5, <1>6, <1>7, <1>8

\* A stream whose first frame is read.
LEMMA ShorterStream ==
  ASSUME NEW s, IsSeq(s), s # << >>, NEW t, t = Tail(s)
  PROVE  /\ IsSeq(t) /\ Len(s) \in Nat \ {0} /\ Len(t) = Len(s) - 1
         /\ DOMAIN s = 1 .. Len(s) /\ DOMAIN t = 1 .. Len(s) - 1
         /\ \A i \in 1 .. Len(s) - 1 : t[i] = s[i + 1]
         /\ Head(s) = s[1] /\ Head(s) \in ToSet(s)
         /\ ToSet(s) = ToSet(t) \cup {Head(s)} /\ Kinds(s) = Kinds(t) \cup {Head(s).kind}
         /\ \A kind : Once(s, kind) => Once(t, kind)
         /\ Once(s, Head(s).kind) => Head(s).kind \notin Kinds(t)
<1>1. s \in Seq(ToSet(s)) /\ Len(s) \in Nat \ {0}
  BY EmptySeq, LenProperties DEF IsSeq
<1>2. /\ Len(t) = Len(s) - 1 /\ Head(s) = s[1] /\ t \in Seq(ToSet(s))
      /\ \A i \in 1 .. Len(s) - 1 : t[i] = s[i + 1]
  BY <1>1, HeadTailProperties
<1>3. /\ IsSeq(t) /\ Head(s) \in ToSet(s) /\ ToSet(s) = ToSet(t) \cup {Head(s)}
      /\ DOMAIN s = 1 .. Len(s) /\ DOMAIN t = 1 .. Len(s) - 1
  BY <1>1, <1>2, ElementsOfTail, LenProperties
<1>4. PICK n \in Nat \ {0} : n = Len(s)
  BY <1>1
<1>5. \A i \in 1 .. n : i = 1 \/ (i - 1 \in 1 .. n - 1 /\ (i - 1) + 1 = i)
  BY <1>4
<1>6. 1 \in 1 .. n /\ \A i \in 1 .. n - 1 : i + 1 \in 1 .. n /\ i + 1 # 1
  BY <1>4
<1>7. Kinds(s) = Kinds(t) \cup {Head(s).kind}
  <2>1. ASSUME NEW i \in 1 .. n PROVE s[i].kind \in Kinds(t) \cup {Head(s).kind}
    <3>1. CASE i = 1
      BY <1>2, <3>1
    <3>2. CASE i # 1
      <4>1. s[i] = t[i - 1] /\ i - 1 \in DOMAIN t
        BY <1>2, <1>3, <1>4, <1>5, <3>2
      <4> QED
        BY <4>1 DEF Kinds
    <3> QED
      BY <3>1, <3>2
  <2>2. ASSUME NEW i \in 1 .. n - 1 PROVE t[i].kind \in Kinds(s)
    BY <1>2, <1>3, <1>4, <1>6 DEF Kinds
  <2>3. Kinds(s) = {s[i].kind : i \in 1 .. n} /\ Kinds(t) = {t[i].kind : i \in 1 .. n - 1}
    BY <1>3, <1>4 DEF Kinds
  <2>4. Head(s).kind \in Kinds(s)
    <3>1. s[1].kind = Head(s).kind /\ 1 \in 1 .. n
      BY <1>2, <1>6
    <3> QED
      BY <2>3, <3>1
  <2>5. Kinds(s) \subseteq Kinds(t) \cup {Head(s).kind}
    BY <2>1, <2>3
  <2>6. Kinds(t) \subseteq Kinds(s)
    BY <2>2, <2>3
  <2> QED
    BY <2>4, <2>5, <2>6
<1>8. ASSUME NEW kind, Once(s, kind)
      PROVE  Once(t, kind)
  <2> SUFFICES ASSUME NEW i \in 1 .. n - 1, NEW j \in 1 .. n - 1,
                      t[i].kind = kind, t[j].kind = kind
               PROVE  i = j
    BY <1>3, <1>4 DEF Once
  <2>1. s[i + 1].kind = kind /\ s[j + 1].kind = kind /\ i + 1 \in DOMAIN s /\ j + 1 \in DOMAIN s
    BY <1>2, <1>3, <1>4, <1>6
  <2>2. i + 1 = j + 1
    BY <1>8, <2>1 DEF Once
  <2> QED
    BY <2>2, <1>4
<1>9. ASSUME Once(s, Head(s).kind), Head(s).kind \in Kinds(t)
      PROVE  FALSE
  <2>1. PICK i \in DOMAIN t : t[i].kind = Head(s).kind
    BY <1>9 DEF Kinds
  <2>2. s[i + 1].kind = s[1].kind /\ i + 1 \in DOMAIN s /\ 1 \in DOMAIN s /\ i + 1 # 1
    BY <1>2, <1>3, <1>4, <1>6, <2>1
  <2> QED
    BY <1>2, <1>9, <2>2 DEF Once
<1>10. QED
  BY <1>1, <1>2, <1>3, <1>7, <1>8, <1>9

LEMMA OneFrame ==
  ASSUME NEW f, NEW t, t = << f >>
  PROVE  /\ IsSeq(t) /\ Len(t) = 1 /\ t[1] = f /\ DOMAIN t = 1 .. 1 /\ ToSet(t) = {f}
         /\ Kinds(t) = {f.kind} /\ \A kind : Once(t, kind)
<1>1. IsSeq(t) /\ ToSet(t) = {f}
  BY ElementsOfOne
<1>2. Len(t) = 1 /\ t[1] = f
  OBVIOUS
<1>3. DOMAIN t = {1}
  OBVIOUS
<1>4. QED
  BY <1>1, <1>2, <1>3 DEF Kinds, Once

\* What SendFrame adds.
LEMMA ConcatOne ==
  ASSUME NEW s, IsSeq(s), NEW f
  PROVE  s \o << f >> = Append(s, f)
<1> DEFINE S == ToSet(s) \cup {f}
<1>1. s \in Seq(S) /\ f \in S
  BY SeqMonotonic DEF IsSeq
<1> HIDE DEF S
<1>2. QED
  BY <1>1

LEMMA ConcatBinds ==
  ASSUME NEW s, IsSeq(s), NEW n \in {0, 1}, NEW f
  PROVE  s \o [i \in 1 .. n |-> f] = IF n = 0 THEN s ELSE Append(s, f)
<1> DEFINE S == ToSet(s) \cup {f}
<1>1. s \in Seq(S) /\ f \in S
  BY SeqMonotonic DEF IsSeq
<1> HIDE DEF S
<1>2. CASE n = 0
  <2>1. [i \in 1 .. n |-> f] = << >>
    BY <1>2
  <2>2. s \o << >> = s
    BY <1>1
  <2> QED
    BY <1>2, <2>1, <2>2
<1>3. CASE n = 1
  <2>1. [i \in 1 .. n |-> f] = << f >>
    BY <1>3
  <2> QED
    BY <1>3, <2>1, ConcatOne
<1>4. QED
  BY <1>2, <1>3

\* t is s with frames of the kinds K at its end.
Longer(s, t, K) ==
  /\ IsSeq(t) /\ DOMAIN s \subseteq DOMAIN t
  /\ \A i \in DOMAIN s : t[i] = s[i]
  /\ \A i \in DOMAIN t \ DOMAIN s : t[i].kind \in K

LEMMA LongerKinds ==
  ASSUME NEW s, NEW t, NEW K, Longer(s, t, K)
  PROVE  /\ Kinds(s) \subseteq Kinds(t) /\ Kinds(t) \subseteq Kinds(s) \cup K
         /\ \A kind : kind \notin K => /\ kind \in Kinds(t) <=> kind \in Kinds(s)
                                       /\ Once(s, kind) => Once(t, kind)
<1>1. Kinds(s) \subseteq Kinds(t) /\ Kinds(t) \subseteq Kinds(s) \cup K
  BY DEF Longer, Kinds
<1>2. ASSUME NEW kind, kind \notin K, Once(s, kind) PROVE Once(t, kind)
  BY <1>2 DEF Longer, Once
<1>3. QED
  BY <1>1, <1>2

LEMMA LongerSame ==
  ASSUME NEW s, IsSeq(s), NEW K
  PROVE  Longer(s, s, K)
BY DEF Longer

LEMMA LongerAppend ==
  ASSUME NEW s, IsSeq(s), NEW f, NEW K, f.kind \in K
  PROVE  Longer(s, Append(s, f), K)
<1> DEFINE t == Append(s, f)
<1>1. /\ IsSeq(t) /\ Len(s) \in Nat /\ DOMAIN s = 1 .. Len(s) /\ DOMAIN t = 1 .. Len(s) + 1
      /\ \A i \in 1 .. Len(s) : t[i] = s[i]
      /\ t[Len(s) + 1] = f
  BY AppendIsSeq
<1> HIDE DEF t
<1>2. \A i \in DOMAIN t \ DOMAIN s : i = Len(s) + 1
  BY <1>1
<1>3. QED
  BY <1>1, <1>2 DEF Longer, t

LEMMA LongerStill ==
  ASSUME NEW s, NEW t, NEW u, NEW K, Longer(s, t, K), Longer(t, u, K)
  PROVE  Longer(s, u, K)
BY DEF Longer

LEMMA FewerKinds ==
  ASSUME NEW s, NEW t, NEW K, NEW J, Longer(s, t, J), J \cap K = {}
  PROVE  Fewer(s, t, K)
BY LongerKinds DEF Fewer

LEMMA FewerTail ==
  ASSUME NEW s, IsSeq(s), s # << >>, NEW K
  PROVE  Fewer(s, Tail(s), K)
<1>1. PICK t : t = Tail(s)
  OBVIOUS
<1>2. Kinds(t) \subseteq Kinds(s)
  <2>1. Kinds(s) = Kinds(t) \cup {Head(s).kind}
    BY <1>1, ShorterStream
  <2> QED
    BY <2>1
<1>3. \A kind : Once(s, kind) => Once(t, kind)
  BY <1>1, ShorterStream
<1>4. QED
  BY <1>1, <1>2, <1>3 DEF Fewer

LEMMA FewerSame ==
  ASSUME NEW s, NEW K
  PROVE  Fewer(s, s, K)
BY DEF Fewer

LEMMA FewerEmpty ==
  ASSUME NEW s, NEW K
  PROVE  Fewer(s, << >>, K)
<1>1. PICK t : t = << >>
  OBVIOUS
<1>2. Kinds(t) = {} /\ \A kind : Once(t, kind)
  BY <1>1, EmptyStream
<1>3. QED
  BY <1>1, <1>2 DEF Fewer

\* A quotient rounded up.
LEMMA Ceiling ==
  ASSUME NEW a \in Nat, NEW b \in Nat \ {0}
  PROVE  /\ (a + b - 1) \div b \in Nat
         /\ b * ((a + b - 1) \div b) >= a
         /\ a # 0 => b * (((a + b - 1) \div b) - 1) < a
         /\ a # 0 => (a + b - 1) \div b # 0
         /\ a = 0 => (a + b - 1) \div b = 0
BY SMTT(60)

\* How many frames the body of a message takes.
LEMMA BodiesOf ==
  ASSUME NEW m \in Msg
  PROVE  /\ Size[m] \in Nat /\ FrameMax \in Nat \ {0}
         /\ Bodies(m) \in Nat /\ Length(m) \in Nat /\ Length(m) = Bodies(m) + 2
         /\ FrameMax * Bodies(m) >= Size[m]
         /\ Size[m] # 0 => Bodies(m) # 0 /\ FrameMax * (Bodies(m) - 1) < Size[m]
         /\ Size[m] = 0 => Bodies(m) = 0
<1>1. Size[m] \in Nat /\ FrameMax \in Nat \ {0}
  BY AmqpAssumption
<1>2. PICK a \in Nat : a = Size[m]
  BY <1>1
<1>3. PICK b \in Nat \ {0} : b = FrameMax
  BY <1>1
<1>4. PICK n : n = (a + b - 1) \div b
  OBVIOUS
<1>5. n \in Nat /\ b * n >= a /\ (a # 0 => n # 0 /\ b * (n - 1) < a) /\ (a = 0 => n = 0)
  BY <1>4, Ceiling
<1>6. Bodies(m) = n /\ Length(m) = n + 2
  BY <1>2, <1>3, <1>4 DEF Bodies, Length
<1>7. QED
  BY <1>1, <1>2, <1>3, <1>5, <1>6, SMTT(60)

-----------------------------------------------------------------------------
(* What leaves the parts of the invariant alone                             *)

LEMMA DeclareKept ==
  ASSUME DeclareInv, UNCHANGED << subscribed, listeners >>,
         client'.delayedDeclare["queue"] => client.delayedDeclare["queue"],
         Fewer(client.out, client'.out, {"QueueDeclare"}),
         Fewer(broker.out, broker'.out, {"QueueDeclareOk"})
  PROVE  DeclareInv'
BY DEF DeclareInv, Fewer

LEMMA BindKept ==
  ASSUME BindInv, UNCHANGED subscribed,
         client'.delayedDeclare["exchange"] => client.delayedDeclare["exchange"],
         client'.delayedBindings # 0 => client.delayedBindings # 0,
         Fewer(client.out, client'.out, {"ExchangeDeclare", "Bind"}),
         Fewer(broker.out, broker'.out, {"ExchangeDeclareOk"})
  PROVE  BindInv' /\ (BindPending' => BindPending)
<1>1. /\ ToDeclare' => ToDeclare
      /\ ToSend' => ToSend
      /\ Sent' => Sent
      /\ Declared' => Declared
      /\ ToBind' => ToBind
      /\ Bound' => Bound
  BY DEF ToDeclare, ToSend, Sent, Declared, ToBind, Bound, Fewer
<1>2. /\ Once(client'.out, "ExchangeDeclare") /\ Once(broker'.out, "ExchangeDeclareOk")
      /\ Once(client'.out, "Bind")
  BY DEF BindInv, Fewer
<1>3. BindPending' => BindPending
  BY <1>1 DEF BindPending
<1>4. ToDeclare => ToDeclare'
  BY DEF ToDeclare
<1>5. BindInv'
  BY <1>1, <1>2, <1>4 DEF BindInv
<1>6. QED
  BY <1>3, <1>5

\* The budget of the timers, with no new close of the connection.
LEMMA TimersKept ==
  ASSUME TimersInv, BindPending' => BindPending, client.timers \in Nat,
         client'.timers \in Nat, client'.timers <= client.timers, faults' \in faults .. MaxFaults,
         Closing' => Closing, Fewer(broker.out, broker'.out, {"ConnectionClose"})
  PROVE  TimersInv'
<1>1. /\ Once(broker'.out, "ConnectionClose")
      /\ "ConnectionClose" \in Kinds(broker'.out) => "ConnectionClose" \in Kinds(broker.out)
  BY DEF TimersInv, Fewer
<1>2. MaxFaults \in Nat
  BY MidasAssumption
<1>3. QED
  BY <1>1, <1>2 DEF TimersInv

LEMMA ConsumeKept ==
  ASSUME ConsumeInv, UNCHANGED subscribed,
         broker'.consumer \in {broker.consumer, 0}, broker'.prefetch = broker.prefetch,
         broker.unacked = << >> => broker'.unacked = << >>,
         broker'.consumer # 0 => broker'.unacked = broker.unacked,
         client.messages = << >> => client'.messages = << >>,
         Fewer(client.out, client'.out, {"Consume", "Ack"}),
         Fewer(broker.out, broker'.out, Pieces)
  PROVE  ConsumeInv'
<1>1. /\ Once(client'.out, "Consume") /\ Once(client'.out, "Ack")
      /\ "Consume" \in Kinds(client'.out) => "Consume" \in Kinds(client.out)
  BY DEF ConsumeInv, Fewer
<1>2. Idle => Idle'
  BY DEF Idle, NoPieces, Fewer, Pieces
<1>3. QED
  BY <1>1, <1>2 DEF ConsumeInv

LEMMA QosKept ==
  ASSUME QosInv, broker'.prefetch = broker.prefetch \/ Closing',
         Closing => Closing', broker.closed \subseteq broker'.closed \/ Closing',
         NEW K, Longer(client.out, client'.out, K), "Consume" \notin K
  PROVE  QosInv'
BY DEF QosInv, Closing, Longer

LEMMA DeliveryKept ==
  ASSUME DeliveryInv, client'.messages = client.messages,
         ToSet(broker'.unacked) \subseteq ToSet(broker.unacked),
         "Ack" \in Kinds(client'.out) => "Ack" \in Kinds(client.out),
         NoPieces => NoPieces',
         \A m, tag, o, k : m \in Msg /\ Block(broker.out, o, k, m, tag) =>
            \E p : Block(broker'.out, p, k, m, tag),
         IsSeq(broker'.out)
  PROVE  DeliveryInv'
<1>1. CASE Delivering
  <2>1. PICK m \in Msg, tag \in Nat, o \in 0 .. Len(broker.out) : \E k \in 0 .. Length(m) - 1 :
           /\ Block(broker.out, o, k, m, tag)
           /\ client.messages = << >> \/ Held(client.messages, k, m, tag)
           /\ ToSet(broker.unacked) \subseteq {[tag |-> tag, msg |-> m]}
           /\ "Ack" \notin Kinds(client.out)
    BY <1>1 DEF Delivering
  <2>2. PICK k \in 0 .. Length(m) - 1 :
           /\ Block(broker.out, o, k, m, tag)
           /\ client.messages = << >> \/ Held(client.messages, k, m, tag)
           /\ ToSet(broker.unacked) \subseteq {[tag |-> tag, msg |-> m]}
           /\ "Ack" \notin Kinds(client.out)
    BY <2>1
  <2>3. PICK p : Block(broker'.out, p, k, m, tag)
    BY <2>2
  <2>4. p \in 0 .. Len(broker'.out)
    <3>1. p \in Nat /\ p + Length(m) - k <= Len(broker'.out) /\ Len(broker'.out) \in Nat
      BY <2>3, LenProperties DEF Block, IsSeq
    <3>2. Length(m) \in Int
      BY BodiesOf
    <3> QED
      BY <2>2, <3>1, <3>2, SMTT(60)
  <2> HIDE DEF Block, Held
  <2>5. Delivering'
    BY <2>2, <2>3, <2>4 DEF Delivering
  <2> QED
    BY <2>5 DEF DeliveryInv
<1>2. CASE ~Delivering
  BY <1>2 DEF DeliveryInv
<1>3. QED
  BY <1>1, <1>2

LEMMA FramesKept ==
  ASSUME NEW f, QueueUp => QueueUp', Closing => Closing', UNCHANGED app,
         ToSet(broker'.unacked) \subseteq ToSet(broker.unacked),
         \A m : Stored(m) => Stored(m)'
  PROVE  (AskOK(f) => AskOK(f)') /\ (AnswerOK(f) => AnswerOK(f)')
BY DEF AskOK, AnswerOK

-----------------------------------------------------------------------------
(* What the library does                                                    *)

SameClient(c, d, S) == \A x \in ClientFields \ S : d[x] = c[x]
SameBroker(b, d, S) == \A x \in BrokerFields \ S : d[x] = b[x]

LEMMA TypesOfSame ==
  ASSUME NEW c, ClientTypes(c), NEW d, NEW S, SameClient(c, d, S), DOMAIN d = ClientFields,
         "sock" \in S => d.sock \in {"unconnected", "connecting", "connected"},
         "timeOut" \in S => d.timeOut \in {0, 1000, 5000, 25000, 125000},
         "opened" \in S => d.opened \in [Chan -> BOOLEAN],
         "declared" \in S => d.declared \in [Chan -> BOOLEAN],
         "delayedDeclare" \in S => d.delayedDeclare \in [Chan -> BOOLEAN],
         "out" \in S => IsSeq(d.out),
         "timers" \in S => d.timers \in Nat,
         "delayedBindings" \in S => d.delayedBindings \in {0, 1}
  PROVE  ClientTypes(d)
<1>1. /\ d.sock \in {"unconnected", "connecting", "connected"}
      /\ d.timeOut \in {0, 1000, 5000, 25000, 125000}
      /\ IsSeq(d.out) /\ d.timers \in Nat /\ d.delayedBindings \in {0, 1}
  BY DEF ClientTypes, SameClient, ClientFields
<1>2. d.opened \in [Chan -> BOOLEAN]
  BY DEF ClientTypes, SameClient, ClientFields
<1>3. d.declared \in [Chan -> BOOLEAN]
  BY DEF ClientTypes, SameClient, ClientFields
<1>4. d.delayedDeclare \in [Chan -> BOOLEAN]
  BY DEF ClientTypes, SameClient, ClientFields
<1>5. QED
  BY <1>1, <1>2, <1>3, <1>4 DEF ClientTypes

LEMMA SendIs ==
  ASSUME NEW c, ClientTypes(c), c.sock = "connected", NEW f, NEW d, d = SendFrame(c, f)
  PROVE  /\ ClientTypes(d) /\ d.sock = "connected" /\ SameClient(c, d, {"out"})
         /\ d.out = Append(c.out, f)
<1>1. d = [c EXCEPT !.out = @ \o << f >>]
  BY DEF SendFrame, SendFrames
<1>2. DOMAIN d = ClientFields /\ SameClient(c, d, {"out"}) /\ d.out = c.out \o << f >>
  BY <1>1 DEF ClientTypes, ClientFields, SameClient
<1>3. IsSeq(c.out)
  BY DEF ClientTypes
<1>4. d.out = Append(c.out, f)
  BY <1>2, <1>3, ConcatOne
<1>5. IsSeq(d.out)
  BY <1>3, <1>4, AppendIsSeq
<1>6. d.sock = "connected"
  BY <1>2 DEF SameClient, ClientFields
<1>7. ClientTypes(d)
  BY <1>2, <1>5 DEF ClientTypes, SameClient, ClientFields
<1>8. QED
  BY <1>2, <1>4, <1>6, <1>7

LEMMA TuneIs ==
  ASSUME NEW c, ClientTypes(c), c.sock = "connected", NEW d, d = ConnectionTune(c)
  PROVE  /\ ClientTypes(d) /\ SameClient(c, d, {"out"})
         /\ d.out = Append(Append(c.out, Method("connection", "TuneOk")),
                           Method("connection", "ConnectionOpen"))
<1> DEFINE f == Method("connection", "TuneOk")
           g == Method("connection", "ConnectionOpen")
<1> HIDE DEF f, g
<1>1. PICK e : e = SendFrame(c, f)
  OBVIOUS
<1>2. d = SendFrame(e, g)
  BY <1>1 DEF ConnectionTune, f, g
<1>3. /\ ClientTypes(e) /\ e.sock = "connected" /\ SameClient(c, e, {"out"})
      /\ e.out = Append(c.out, f)
  BY <1>1, SendIs
<1>4. ClientTypes(d) /\ SameClient(e, d, {"out"}) /\ d.out = Append(e.out, g)
  BY <1>2, <1>3, SendIs
<1>5. QED
  BY <1>3, <1>4 DEF SameClient, f, g

LEMMA ChannelOpenIs ==
  ASSUME NEW c, ClientTypes(c), c.sock = "connected", NEW ch \in Chan,
         NEW d, d = ChannelOpen(c, ch)
  PROVE  /\ ClientTypes(d) /\ d.sock = "connected" /\ SameClient(c, d, {"out"})
         /\ d.out \in {c.out, Append(c.out, Method(ch, "ChannelOpen"))}
BY SendIs DEF ChannelOpen, SameClient

LEMMA OpenOkIs ==
  ASSUME NEW c, ClientTypes(c), c.sock = "connected", NEW d, d = ConnectionOpenOk(c)
  PROVE  /\ ClientTypes(d) /\ SameClient(c, d, {"out", "connected"})
         /\ \E s : /\ s \in {c.out, Append(c.out, Method("queue", "ChannelOpen"))}
                   /\ d.out \in {s, Append(s, Method("exchange", "ChannelOpen"))}
<1>1. PICK e : e = [c EXCEPT !.connected = TRUE]
  OBVIOUS
<1>2. ClientTypes(e) /\ e.sock = "connected" /\ SameClient(c, e, {"connected"})
  BY <1>1 DEF ClientTypes, SameClient, ClientFields
<1>3. PICK g : g = ChannelOpen(e, "queue")
  OBVIOUS
<1>4. /\ ClientTypes(g) /\ g.sock = "connected" /\ SameClient(e, g, {"out"})
      /\ g.out \in {e.out, Append(e.out, Method("queue", "ChannelOpen"))}
  BY <1>2, <1>3, ChannelOpenIs DEF Chan
<1>5. d = ChannelOpen(g, "exchange")
  BY <1>1, <1>3 DEF ConnectionOpenOk, OpenChannels
<1>6. /\ ClientTypes(d) /\ SameClient(g, d, {"out"})
      /\ d.out \in {g.out, Append(g.out, Method("exchange", "ChannelOpen"))}
  BY <1>4, <1>5, ChannelOpenIs DEF Chan
<1>7. SameClient(c, d, {"out", "connected"})
  BY <1>2, <1>4, <1>6 DEF SameClient
<1>8. e.out = c.out
  BY <1>2 DEF SameClient, ClientFields
<1>9. QED
  BY <1>4, <1>6, <1>7, <1>8

LEMMA NetworkErrorIs ==
  ASSUME NEW c, ClientTypes(c), NEW d, d = NetworkError(c)
  PROVE  /\ ClientTypes(d) /\ SameClient(c, d, {"timeOut", "timers"})
         /\ d.timers \in {c.timers, c.timers + 1}
<1> DEFINE later == IF c.timeOut = 0 THEN 1000
                    ELSE IF c.timeOut < 120000 THEN 5 * c.timeOut ELSE c.timeOut
           timers == IF c.auto /\ c.connect THEN c.timers + 1 ELSE c.timers
<1>1. d = [c EXCEPT !.timeOut = later, !.timers = timers]
  BY DEF NetworkError
<1> HIDE DEF later, timers
<1>2. /\ DOMAIN d = ClientFields /\ SameClient(c, d, {"timeOut", "timers"})
      /\ d.timeOut = later /\ d.timers = timers
  <2>1. DOMAIN c = ClientFields
    BY DEF ClientTypes
  <2> QED
    BY <1>1, <2>1 DEF SameClient, ClientFields
<1>3. later \in {0, 1000, 5000, 25000, 125000}
  BY DEF ClientTypes, later
<1>4. timers \in {c.timers, c.timers + 1} /\ timers \in Nat
  BY DEF ClientTypes, timers
<1>5. ClientTypes(d)
  BY <1>2, <1>3, <1>4, TypesOfSame
<1>6. QED
  BY <1>2, <1>4, <1>5

LEMMA CloseIs ==
  ASSUME NEW c, ClientTypes(c), NEW d, d = ConnectionClose(c)
  PROVE  /\ ClientTypes(d)
         /\ SameClient(c, d, {"timeOut", "timers", "connected", "opened", "delayedDeclare", "declared"})
         /\ d.timers \in {c.timers, c.timers + 1}
         /\ d.delayedDeclare["queue"] = c.delayedDeclare["queue"] /\ ~d.delayedDeclare["exchange"]
<1>1. PICK e : e = NetworkError([c EXCEPT !.connected = FALSE])
  OBVIOUS
<1>2. PICK g : g = [c EXCEPT !.connected = FALSE]
  OBVIOUS
<1>3. ClientTypes(g) /\ SameClient(c, g, {"connected"})
  BY <1>2 DEF ClientTypes, SameClient, ClientFields
<1>4. /\ ClientTypes(e) /\ SameClient(g, e, {"timeOut", "timers"})
      /\ e.timers \in {g.timers, g.timers + 1}
  BY <1>1, <1>2, <1>3, NetworkErrorIs
<1>5. SameClient(c, e, {"timeOut", "timers", "connected"}) /\ e.timers \in {c.timers, c.timers + 1}
  BY <1>3, <1>4 DEF SameClient, ClientFields
<1>6. PICK h : h = [[e EXCEPT !.opened["queue"] = FALSE] EXCEPT !.opened["exchange"] = FALSE]
  OBVIOUS
<1>7. /\ DOMAIN h = ClientFields /\ SameClient(e, h, {"opened"})
      /\ h.opened \in [Chan -> BOOLEAN]
  <2>1. PICK g1 : g1 = [e EXCEPT !.opened["queue"] = FALSE]
    OBVIOUS
  <2>2. /\ DOMAIN g1 = ClientFields /\ SameClient(e, g1, {"opened"})
        /\ g1.opened = [e.opened EXCEPT !["queue"] = FALSE]
    BY <1>4, <2>1 DEF ClientTypes, SameClient, ClientFields
  <2>3. h = [g1 EXCEPT !.opened["exchange"] = FALSE]
    BY <1>6, <2>1
  <2>4. /\ DOMAIN h = ClientFields /\ SameClient(g1, h, {"opened"})
        /\ h.opened = [g1.opened EXCEPT !["exchange"] = FALSE]
    BY <2>2, <2>3 DEF SameClient, ClientFields
  <2>5. e.opened \in [Chan -> BOOLEAN]
    BY <1>4 DEF ClientTypes
  <2>6. g1.opened \in [Chan -> BOOLEAN]
    BY <2>2, <2>5 DEF Chan
  <2>7. h.opened \in [Chan -> BOOLEAN]
    BY <2>4, <2>6 DEF Chan
  <2> QED
    BY <2>2, <2>4, <2>7 DEF SameClient
<1>8. d = [h EXCEPT !.delayedDeclare["exchange"] = FALSE, !.declared["exchange"] = FALSE]
  BY <1>1, <1>6 DEF ConnectionClose, ExchangeDisconnected, ChannelDisconnected
<1>9. /\ DOMAIN d = ClientFields /\ SameClient(h, d, {"delayedDeclare", "declared"})
      /\ d.delayedDeclare = [h.delayedDeclare EXCEPT !["exchange"] = FALSE]
      /\ d.declared = [h.declared EXCEPT !["exchange"] = FALSE]
  BY <1>7, <1>8 DEF SameClient, ClientFields
<1>10. ClientTypes(h)
  BY <1>4, <1>7, TypesOfSame
<1>11. /\ d.declared \in [Chan -> BOOLEAN] /\ d.delayedDeclare \in [Chan -> BOOLEAN]
       /\ d.delayedDeclare["queue"] = h.delayedDeclare["queue"] /\ ~d.delayedDeclare["exchange"]
  BY <1>9, <1>10 DEF ClientTypes, Chan
<1>12. ClientTypes(d)
  <2>1. /\ SameClient(h, d, {"delayedDeclare", "declared"}) /\ DOMAIN d = ClientFields
        /\ d.declared \in [Chan -> BOOLEAN] /\ d.delayedDeclare \in [Chan -> BOOLEAN]
    BY <1>9, <1>11
  <2> QED
    BY <1>10, <2>1, TypesOfSame
<1>13. QED
  BY <1>5, <1>7, <1>9, <1>11, <1>12 DEF SameClient, ClientFields

LEMMA DeclareIs ==
  ASSUME NEW c, ClientTypes(c), c.sock = "connected", c.opened["queue"],
         NEW d, d = QueueDeclare(c)
  PROVE  /\ ClientTypes(d) /\ d.sock = "connected" /\ SameClient(c, d, {"out", "delayedDeclare"})
         /\ d.out = Append(c.out, Method("queue", "QueueDeclare"))
         /\ ~d.delayedDeclare["queue"] /\ d.delayedDeclare["exchange"] = c.delayedDeclare["exchange"]
<1>1. PICK e : e = SendFrame(c, Method("queue", "QueueDeclare"))
  OBVIOUS
<1>2. /\ ClientTypes(e) /\ e.sock = "connected" /\ SameClient(c, e, {"out"})
      /\ e.out = Append(c.out, Method("queue", "QueueDeclare"))
  BY <1>1, SendIs
<1>3. d = [e EXCEPT !.delayedDeclare["queue"] = FALSE]
  BY <1>1 DEF QueueDeclare
<1>4. /\ DOMAIN d = ClientFields /\ SameClient(e, d, {"delayedDeclare"})
      /\ d.delayedDeclare = [e.delayedDeclare EXCEPT !["queue"] = FALSE]
  BY <1>2, <1>3 DEF ClientTypes, SameClient, ClientFields
<1>5. /\ d.delayedDeclare \in [Chan -> BOOLEAN]
      /\ ~d.delayedDeclare["queue"] /\ d.delayedDeclare["exchange"] = e.delayedDeclare["exchange"]
  BY <1>2, <1>4 DEF ClientTypes, Chan
<1>6. ClientTypes(d)
  <2>1. /\ SameClient(e, d, {"delayedDeclare"}) /\ DOMAIN d = ClientFields
        /\ d.delayedDeclare \in [Chan -> BOOLEAN]
    BY <1>4, <1>5
  <2> QED
    BY <1>2, <2>1, TypesOfSame
<1>7. QED
  BY <1>2, <1>4, <1>5, <1>6 DEF SameClient, ClientFields

LEMMA ExchangeDeclareIs ==
  ASSUME NEW c, ClientTypes(c), c.sock = "connected", NEW d, d = ExchangeDeclare(c)
  PROVE  /\ ClientTypes(d) /\ d.sock = "connected" /\ SameClient(c, d, {"out", "delayedDeclare"})
         /\ d.delayedDeclare["queue"] = c.delayedDeclare["queue"]
         /\ c.opened["exchange"] =>
               /\ d.out = Append(c.out, Method("exchange", "ExchangeDeclare"))
               /\ ~d.delayedDeclare["exchange"]
         /\ ~c.opened["exchange"] => d.out = c.out /\ d.delayedDeclare["exchange"]
<1>1. CASE ~c.opened["exchange"]
  <2>1. d = [c EXCEPT !.delayedDeclare["exchange"] = TRUE]
    BY <1>1 DEF ExchangeDeclare
  <2>2. /\ DOMAIN d = ClientFields /\ SameClient(c, d, {"delayedDeclare"})
        /\ d.delayedDeclare = [c.delayedDeclare EXCEPT !["exchange"] = TRUE]
    BY <2>1 DEF ClientTypes, SameClient, ClientFields
  <2>3. /\ d.delayedDeclare \in [Chan -> BOOLEAN]
        /\ d.delayedDeclare["exchange"] /\ d.delayedDeclare["queue"] = c.delayedDeclare["queue"]
    BY <2>2 DEF ClientTypes, Chan
  <2>4. ClientTypes(d)
    BY <2>2, <2>3 DEF ClientTypes, SameClient, ClientFields
  <2> QED
    BY <1>1, <2>2, <2>3, <2>4 DEF SameClient, ClientFields
<1>2. CASE c.opened["exchange"]
  <2>1. PICK e : e = SendFrame(c, Method("exchange", "ExchangeDeclare"))
    OBVIOUS
  <2>2. /\ ClientTypes(e) /\ e.sock = "connected" /\ SameClient(c, e, {"out"})
        /\ e.out = Append(c.out, Method("exchange", "ExchangeDeclare"))
    BY <2>1, SendIs
  <2>3. d = [e EXCEPT !.delayedDeclare["exchange"] = FALSE]
    BY <1>2, <2>1 DEF ExchangeDeclare
  <2>4. /\ DOMAIN d = ClientFields /\ SameClient(e, d, {"delayedDeclare"})
        /\ d.delayedDeclare = [e.delayedDeclare EXCEPT !["exchange"] = FALSE]
    BY <2>2, <2>3 DEF ClientTypes, SameClient, ClientFields
  <2>5. /\ d.delayedDeclare \in [Chan -> BOOLEAN]
        /\ ~d.delayedDeclare["exchange"] /\ d.delayedDeclare["queue"] = e.delayedDeclare["queue"]
    BY <2>2, <2>4 DEF ClientTypes, Chan
  <2>6. ClientTypes(d)
    <3>1. /\ SameClient(e, d, {"delayedDeclare"}) /\ DOMAIN d = ClientFields
          /\ d.delayedDeclare \in [Chan -> BOOLEAN]
      BY <2>4, <2>5
    <3> QED
      BY <2>2, <3>1, TypesOfSame
  <2> QED
    BY <1>2, <2>2, <2>4, <2>5, <2>6 DEF SameClient, ClientFields
<1>3. QED
  BY <1>1, <1>2

\* A stream with n bindings more, of which there is one at most.
WithBinds(s, n) == IF n = 0 THEN s ELSE Append(s, Method("queue", "Bind"))

LEMMA BindIs ==
  ASSUME NEW c, ClientTypes(c), c.sock = "connected", NEW n \in {0, 1},
         c.opened["queue"] \/ c.delayedBindings + n \in {0, 1}, NEW d, d = QueueBind(c, n)
  PROVE  /\ ClientTypes(d) /\ d.sock = "connected" /\ SameClient(c, d, {"out", "delayedBindings"})
         /\ c.opened["queue"] =>
               /\ d.out = WithBinds(c.out, n)
               /\ d.delayedBindings = c.delayedBindings
         /\ ~c.opened["queue"] => d.out = c.out /\ d.delayedBindings = c.delayedBindings + n
<1>1. CASE ~c.opened["queue"]
  <2>1. d = [c EXCEPT !.delayedBindings = @ + n]
    BY <1>1 DEF QueueBind
  <2>2. /\ DOMAIN d = ClientFields /\ SameClient(c, d, {"delayedBindings"})
        /\ d.delayedBindings = c.delayedBindings + n
    BY <2>1 DEF ClientTypes, SameClient, ClientFields
  <2>3. ClientTypes(d)
    BY <1>1, <2>2 DEF ClientTypes, SameClient, ClientFields
  <2> QED
    BY <1>1, <2>2, <2>3 DEF SameClient, ClientFields
<1>2. CASE c.opened["queue"]
  <2> DEFINE f == Method("queue", "Bind")
  <2>1. d = [c EXCEPT !.out = @ \o [i \in 1 .. n |-> f]]
    BY <1>2 DEF QueueBind, SendFrames
  <2> HIDE DEF f
  <2>2. /\ DOMAIN d = ClientFields /\ SameClient(c, d, {"out"})
        /\ d.out = c.out \o [i \in 1 .. n |-> f]
    BY <2>1 DEF ClientTypes, SameClient, ClientFields
  <2>3. IsSeq(c.out)
    BY DEF ClientTypes
  <2>4. d.out = IF n = 0 THEN c.out ELSE Append(c.out, f)
    BY <2>2, <2>3, ConcatBinds, ZenonT(60)
  <2>5. IsSeq(d.out)
    BY <2>3, <2>4, AppendIsSeq
  <2>6. ClientTypes(d)
    BY <2>2, <2>5 DEF ClientTypes, SameClient, ClientFields
  <2> QED
    BY <1>2, <2>2, <2>4, <2>6 DEF SameClient, ClientFields, f, WithBinds
<1>3. QED
  BY <1>1, <1>2

-----------------------------------------------------------------------------
(* Deliveries                                                               *)

LEMMA PieceKind ==
  ASSUME NEW f, NEW m, NEW tag, NEW j, PieceOf(f, m, tag, j)
  PROVE  f.kind \in Pieces
BY DEF PieceOf, Pieces

\* The first frame is not of the delivery: it is one step nearer.
LEMMA BlockTail ==
  ASSUME NEW s, IsSeq(s), s # << >>, Head(s).kind \notin Pieces, NEW t, t = Tail(s),
         NEW m \in Msg, NEW tag, NEW o, NEW k, Block(s, o, k, m, tag)
  PROVE  Block(t, o - 1, k, m, tag)
<1>1. /\ Len(s) \in Nat \ {0} /\ Len(t) = Len(s) - 1 /\ s[1].kind \notin Pieces
      /\ \A i \in 1 .. Len(s) - 1 : t[i] = s[i + 1]
  BY ShorterStream
<1>2. PICK n \in Nat \ {0} : n = Len(s)
  BY <1>1
<1>3. PICK l \in Nat : l = Length(m)
  BY BodiesOf
<1>4. /\ o \in Nat /\ k \in 0 .. l - 1 /\ o + l - k <= n
      /\ o # 0 => k = 0
      /\ \A i \in 1 .. n :
            IF o < i /\ i <= o + l - k THEN PieceOf(s[i], m, tag, k + i - o)
            ELSE s[i].kind \notin Pieces
  BY <1>2, <1>3 DEF Block
<1>5. o # 0
  <2> SUFFICES ASSUME o = 0 PROVE FALSE
    OBVIOUS
  <2>1. 1 \in 1 .. n /\ o < 1 /\ 1 <= o + l - k
    BY <1>4
  <2>2. PieceOf(s[1], m, tag, k + 1 - o)
    BY <1>4, <2>1
  <2> QED
    BY <1>1, <2>2, PieceKind
<1>6. ASSUME NEW i \in 1 .. n - 1
      PROVE  IF o - 1 < i /\ i <= o - 1 + l - k THEN PieceOf(t[i], m, tag, k + i - (o - 1))
             ELSE t[i].kind \notin Pieces
  <2>1. /\ i + 1 \in 1 .. n /\ t[i] = s[i + 1] /\ k + i - (o - 1) = k + (i + 1) - o
        /\ (o - 1 < i /\ i <= o - 1 + l - k) <=> (o < i + 1 /\ i + 1 <= o + l - k)
    BY <1>1, <1>2, <1>4
  <2>2. IF o < i + 1 /\ i + 1 <= o + l - k THEN PieceOf(s[i + 1], m, tag, k + (i + 1) - o)
        ELSE s[i + 1].kind \notin Pieces
    BY <1>4, <2>1
  <2> QED
    BY <2>1, <2>2
<1>7. o - 1 \in Nat /\ o - 1 + l - k <= n - 1 /\ k = 0
  BY <1>4, <1>5
<1>8. Len(t) = n - 1
  BY <1>1, <1>2
<1>9. QED
  BY <1>3, <1>4, <1>6, <1>7, <1>8, SMTT(60) DEF Block

LEMMA BlockAppend ==
  ASSUME NEW s, IsSeq(s), NEW f, f.kind \notin Pieces, NEW t, t = Append(s, f),
         NEW m \in Msg, NEW tag, NEW o, NEW k, Block(s, o, k, m, tag)
  PROVE  Block(t, o, k, m, tag)
<1>1. /\ Len(s) \in Nat /\ Len(t) = Len(s) + 1 /\ t[Len(s) + 1] = f
      /\ \A i \in 1 .. Len(s) : t[i] = s[i]
  BY LongerStream
<1>2. PICK n \in Nat : n = Len(s)
  BY <1>1
<1>3. PICK l \in Nat : l = Length(m)
  BY BodiesOf
<1>4. /\ o \in Nat /\ k \in 0 .. l - 1 /\ o + l - k <= n
      /\ o # 0 => k = 0
      /\ \A i \in 1 .. n :
            IF o < i /\ i <= o + l - k THEN PieceOf(s[i], m, tag, k + i - o)
            ELSE s[i].kind \notin Pieces
  BY <1>2, <1>3 DEF Block
<1>5. ASSUME NEW i \in 1 .. n + 1
      PROVE  IF o < i /\ i <= o + l - k THEN PieceOf(t[i], m, tag, k + i - o)
             ELSE t[i].kind \notin Pieces
  <2>1. CASE i \in 1 .. n
    BY <1>1, <1>2, <1>4, <2>1
  <2>3. i \in 1 .. n \/ i = n + 1
    OBVIOUS
  <2>2. CASE i = n + 1
    <3>1. ~(i <= o + l - k) /\ t[i] = f
      BY <1>1, <1>2, <1>4, <2>2
    <3> QED
      BY <3>1
  <2> QED
    BY <2>1, <2>2, <2>3
<1>6. Len(t) = n + 1 /\ o + l - k <= n + 1
  BY <1>1, <1>2, <1>4
<1>7. QED
  BY <1>3, <1>4, <1>5, <1>6 DEF Block

-----------------------------------------------------------------------------
(* The daemon reads a frame                                                 *)

LEMMA ReadIs ==
  ASSUME SessionInv, NEW kinds, ReadFrame(kinds), NEW f, f = Head(broker.out)
  PROVE  /\ proc = "up" /\ client.sock = "connected" /\ f.kind \in kinds
         /\ AnswerOK(f)
         /\ SameBroker(broker, broker', {"out"}) /\ BrokerTypes(broker')
         /\ IsSeq(broker.out) /\ broker.out # << >> /\ broker'.out = Tail(broker.out)
         /\ ToSet(broker'.out) \subseteq ToSet(broker.out)
         /\ \A K : Fewer(broker.out, broker'.out, K)
         /\ \A kind : Once(broker.out, kind) /\ f.kind = kind => kind \notin Kinds(broker'.out)
         /\ f.kind \in Kinds(broker.out)
<1>1. /\ proc = "up" /\ client.sock = "connected" /\ f.kind \in kinds
      /\ broker.out # << >> /\ broker' = [broker EXCEPT !.out = Tail(broker.out)]
  BY DEF ReadFrame
<1>2. IsSeq(broker.out) /\ DOMAIN broker = BrokerFields
  BY DEF SessionInv, BrokerTypes
<1>3. /\ SameBroker(broker, broker', {"out"}) /\ broker'.out = Tail(broker.out)
      /\ DOMAIN broker' = BrokerFields
  BY <1>1, <1>2 DEF SameBroker, BrokerFields
<1>4. PICK t : t = Tail(broker.out)
  OBVIOUS
<1>5. IsSeq(t) /\ f \in ToSet(broker.out) /\ ToSet(broker.out) = ToSet(t) \cup {f}
  BY <1>1, <1>2, <1>4, ShorterStream
<1>6. /\ Kinds(broker.out) = Kinds(t) \cup {f.kind}
      /\ Once(broker.out, f.kind) => f.kind \notin Kinds(t)
  BY <1>1, <1>2, <1>4, ShorterStream
<1>7. \A K : Fewer(broker.out, t, K)
  BY <1>1, <1>2, <1>4, FewerTail
<1>8. AnswerOK(f)
  BY <1>5 DEF SessionInv, FramesInv
<1>9. BrokerTypes(broker')
  BY <1>3, <1>4, <1>5 DEF SessionInv, BrokerTypes, SameBroker, BrokerFields
<1>10. QED
  BY <1>1, <1>2, <1>3, <1>4, <1>5, <1>6, <1>7, <1>8, <1>9

\* Reading any frame leaves these parts right, whatever the library sends.
LEMMA ReadRest ==
  ASSUME SessionInv, NEW kinds, ReadFrame(kinds), client'.sock = client.sock,
         UNCHANGED << proc, output, app >>, \A m : Stored(m) => Stored(m)',
         \A f \in ToSet(client'.out) : f \in ToSet(client.out) \/ AskOK(f)'
  PROVE  SocketInv' /\ FramesInv' /\ AckedIsStored' /\ BrokerTypes(broker)'
<1>1. PICK f : f = Head(broker.out)
  OBVIOUS
<1>2. /\ proc = "up" /\ client.sock = "connected"
      /\ SameBroker(broker, broker', {"out"}) /\ BrokerTypes(broker')
      /\ ToSet(broker'.out) \subseteq ToSet(broker.out)
  BY <1>1, ReadIs
<1>3. SocketInv'
  BY <1>2 DEF SessionInv, SocketInv
<1>4. /\ broker'.phase = broker.phase /\ broker'.chans = broker.chans
      /\ broker'.closed = broker.closed /\ broker'.unacked = broker.unacked
      /\ broker'.acked = broker.acked
  BY <1>2 DEF SameBroker, BrokerFields
<1>5. (QueueUp => QueueUp') /\ (Closing => Closing')
  BY <1>4 DEF QueueUp, Closing
<1>6. \A x : (AskOK(x) => AskOK(x)') /\ (AnswerOK(x) => AnswerOK(x)')
  BY <1>4, <1>5, FramesKept
<1>7. FramesInv'
  BY <1>2, <1>6 DEF SessionInv, FramesInv
<1>8. AckedIsStored'
  BY <1>4 DEF SessionInv, AckedIsStored, Stored
<1>9. QED
  BY <1>2, <1>3, <1>7, <1>8

\* The frame read is not of a delivery.
LEMMA ReadDelivery ==
  ASSUME SessionInv, NEW kinds, ReadFrame(kinds), kinds \cap Pieces = {},
         client'.messages = client.messages,
         "Ack" \in Kinds(client'.out) => "Ack" \in Kinds(client.out)
  PROVE  DeliveryInv'
<1>1. PICK f : f = Head(broker.out)
  OBVIOUS
<1>2. /\ f.kind \in kinds /\ broker.out # << >> /\ IsSeq(broker.out)
      /\ broker'.out = Tail(broker.out) /\ SameBroker(broker, broker', {"out"})
      /\ BrokerTypes(broker') /\ Fewer(broker.out, broker'.out, Pieces)
  BY <1>1, ReadIs
<1>3. broker'.unacked = broker.unacked /\ IsSeq(broker'.out)
  BY <1>2 DEF SameBroker, BrokerFields, BrokerTypes
<1>4. NoPieces => NoPieces'
  BY <1>2 DEF NoPieces, Fewer
<1>5. ASSUME NEW m, NEW tag, NEW o, NEW k, m \in Msg, Block(broker.out, o, k, m, tag)
      PROVE  \E p : Block(broker'.out, p, k, m, tag)
  BY <1>1, <1>2, <1>5, BlockTail, ZenonT(60)
<1>6. DeliveryInv
  BY DEF SessionInv
<1>7. QED
  BY <1>3, <1>4, <1>5, <1>6, DeliveryKept

LEMMA ReadOne ==
  ASSUME NEW kinds, ReadFrame(kinds)
  PROVE  ReadFrame({Head(broker.out).kind})
BY DEF ReadFrame

\* A read takes nothing from the broker but the frame.
LEMMA ReadBroker ==
  ASSUME SessionInv, NEW kinds, ReadFrame(kinds)
  PROVE  /\ broker'.phase = broker.phase /\ broker'.chans = broker.chans
         /\ broker'.closed = broker.closed /\ broker'.unacked = broker.unacked
         /\ broker'.consumer = broker.consumer /\ broker'.prefetch = broker.prefetch
         /\ (QueueUp => QueueUp') /\ Closing' = Closing
         /\ \A K : Fewer(broker.out, broker'.out, K)
<1>1. PICK f : f = Head(broker.out)
  OBVIOUS
<1>2. /\ SameBroker(broker, broker', {"out"})
      /\ \A L : Fewer(broker.out, broker'.out, L)
  BY <1>1, ReadIs
<1>3. /\ broker'.phase = broker.phase /\ broker'.chans = broker.chans
      /\ broker'.closed = broker.closed /\ broker'.unacked = broker.unacked
      /\ broker'.consumer = broker.consumer /\ broker'.prefetch = broker.prefetch
  BY <1>2 DEF SameBroker, BrokerFields
<1>4. (QueueUp => QueueUp') /\ Closing' = Closing
  BY <1>3 DEF QueueUp, Closing
<1>5. QED
  BY <1>2, <1>3, <1>4

\* The rest of the state, when the daemon reads something but a body.
Unread == << app, proc, output, data, faults, published >>
Counted == << subscribed, listeners >>

LEMMA ReadMore ==
  ASSUME SessionInv, NEW kinds, ReadFrame(kinds), kinds \cap Pieces = {}, UNCHANGED Unread,
         ClientTypes(client'), client'.sock = client.sock, client'.messages = client.messages,
         "Ack" \in Kinds(client'.out) => "Ack" \in Kinds(client.out),
         \A f \in ToSet(client'.out) : f \in ToSet(client.out) \/ AskOK(f)',
         DeclareInv', BindInv', TimersInv', ConsumeInv', QosInv'
  PROVE  SessionInv'
<1>1. SocketInv' /\ FramesInv' /\ AckedIsStored' /\ BrokerTypes(broker)'
  <2>1. UNCHANGED << proc, output, app >> /\ \A m : Stored(m) => Stored(m)'
    BY DEF Unread, Stored
  <2> QED
    BY <2>1, ReadRest
<1>2. DeliveryInv'
  BY ReadDelivery
<1>3. (published \subseteq Msg)'
  BY DEF SessionInv, Unread
<1>4. QED
  BY <1>1, <1>2, <1>3 DEF SessionInv

LEMMA ReadTimers ==
  ASSUME SessionInv, NEW kinds, ReadFrame(kinds), UNCHANGED faults,
         client'.timers = client.timers, BindPending' => BindPending
  PROVE  TimersInv'
<1>1. Closing' = Closing /\ Fewer(broker.out, broker'.out, {"ConnectionClose"})
  BY ReadBroker
<1>2. faults' \in faults .. MaxFaults
  BY MidasAssumption DEF SessionInv, TimersInv
<1>3. client.timers \in Nat /\ client'.timers <= client.timers /\ TimersInv
  BY DEF SessionInv, ClientTypes
<1>4. QED
  BY <1>1, <1>2, <1>3, TimersKept

LEMMA ReadQuiet ==
  ASSUME SessionInv, NEW kinds, ReadFrame(kinds), kinds \cap Pieces = {},
         UNCHANGED Unread, UNCHANGED Counted, ClientTypes(client'),
         SameClient(client, client', {"out", "connected", "opened", "declared", "consumerTag"}),
         NEW K, Longer(client.out, client'.out, K),
         K \cap {"QueueDeclare", "ExchangeDeclare", "Bind", "Consume", "Ack"} = {},
         \A f \in ToSet(client'.out) : f \in ToSet(client.out) \/ AskOK(f)'
  PROVE  SessionInv'
<1>1. /\ client'.sock = client.sock /\ client'.messages = client.messages
      /\ client'.delayedDeclare = client.delayedDeclare
      /\ client'.delayedBindings = client.delayedBindings /\ client'.timers = client.timers
  BY DEF SameClient, ClientFields
<1>2. /\ broker'.closed = broker.closed /\ broker'.unacked = broker.unacked
      /\ broker'.consumer = broker.consumer /\ broker'.prefetch = broker.prefetch
      /\ Closing' = Closing
      /\ \A L : Fewer(broker.out, broker'.out, L)
  BY ReadBroker
<1>3. /\ Fewer(client.out, client'.out, {"QueueDeclare"})
      /\ Fewer(client.out, client'.out, {"ExchangeDeclare", "Bind"})
      /\ Fewer(client.out, client'.out, {"Consume", "Ack"})
      /\ "Ack" \in Kinds(client'.out) => "Ack" \in Kinds(client.out)
  BY FewerKinds, LongerKinds
<1>4. DeclareInv'
  BY <1>1, <1>2, <1>3, DeclareKept DEF SessionInv, Counted
<1>5. BindInv' /\ (BindPending' => BindPending)
  BY <1>1, <1>2, <1>3, BindKept DEF SessionInv, Counted
<1>6. TimersInv'
  BY <1>1, <1>5, ReadTimers DEF Unread
<1>7. ConsumeInv'
  BY <1>1, <1>2, <1>3, ConsumeKept DEF SessionInv, Counted
<1>8. QosInv'
  BY <1>2, QosKept DEF SessionInv
<1>9. QED
  BY <1>1, <1>3, <1>4, <1>5, <1>6, <1>7, <1>8, ReadMore

\* Frames that are sent in the handshake.
LEMMA Shakes ==
  ASSUME NEW f, \/ f.kind \in {"StartOk", "TuneOk", "ConnectionOpen"} /\ f.ch = "connection"
                \/ f.kind = "ChannelOpen" /\ f.ch \in Chan
  PROVE  AskOK(f)'
BY DEF AskOK, Asked, OfQueue

\* What the library may send is sent.
LEMMA Sends ==
  ASSUME NEW s, IsSeq(s), NEW f, AskOK(f)', NEW K, f.kind \in K
  PROVE  /\ Longer(s, Append(s, f), K) /\ IsSeq(Append(s, f))
         /\ \A g \in ToSet(Append(s, f)) : g \in ToSet(s) \/ AskOK(g)'
<1>1. IsSeq(Append(s, f)) /\ ToSet(Append(s, f)) = ToSet(s) \cup {f}
  BY ElementsOfAppend
<1>2. Longer(s, Append(s, f), K)
  BY LongerAppend
<1>3. ASSUME NEW g \in ToSet(Append(s, f)), g \notin ToSet(s)
      PROVE  AskOK(g)'
  <2>1. g = f
    BY <1>1, <1>3
  <2> QED
    BY <2>1
<1>4. QED
  BY <1>1, <1>2, <1>3

LEMMA MethodIs ==
  ASSUME NEW ch, NEW kind
  PROVE  /\ Method(ch, kind).ch = ch /\ Method(ch, kind).kind = kind
         /\ Method(ch, kind).n = 0 /\ Method(ch, kind).tag = 0
BY DEF Method, Frame

LEMMA StartRead ==
  ASSUME SessionInv, ReadFrame({"Start"}), client' = ConnectionStart(client),
         UNCHANGED Unread, UNCHANGED Counted
  PROVE  SessionInv'
<1>1. PICK f : f = Method("connection", "StartOk")
  OBVIOUS
<1>2. PICK s : s = client.out
  OBVIOUS
<1>3. client' = SendFrame(client, f) /\ ClientTypes(client) /\ client.sock = "connected"
  BY <1>1 DEF ConnectionStart, SessionInv, ReadFrame
<1>4. /\ ClientTypes(client') /\ SameClient(client, client', {"out"})
      /\ client'.out = Append(s, f) /\ IsSeq(s)
  BY <1>2, <1>3, SendIs, SMTT(60) DEF ClientTypes
<1>5. f.kind = "StartOk" /\ f.ch = "connection"
  BY <1>1, MethodIs
<1>10. AskOK(f)'
  BY <1>5, Shakes
<1>6. /\ Longer(s, Append(s, f), {"StartOk"})
      /\ \A g \in ToSet(Append(s, f)) : g \in ToSet(s) \/ AskOK(g)'
  BY <1>4, <1>5, <1>10, Sends
<1>7. SameClient(client, client', {"out", "connected", "opened", "declared", "consumerTag"})
  BY <1>4 DEF SameClient
<1>8. {"Start"} \cap Pieces = {}
  BY DEF Pieces
<1>9. QED
  BY <1>2, <1>4, <1>6, <1>7, <1>8, ReadQuiet

LEMMA TuneRead ==
  ASSUME SessionInv, ReadFrame({"Tune"}), client' = ConnectionTune(client),
         UNCHANGED Unread, UNCHANGED Counted
  PROVE  SessionInv'
<1>1. PICK f, g : f = Method("connection", "TuneOk") /\ g = Method("connection", "ConnectionOpen")
  OBVIOUS
<1>2. PICK s, t : s = client.out /\ t = Append(s, f)
  OBVIOUS
<1>3. ClientTypes(client) /\ client.sock = "connected"
  BY DEF SessionInv, ReadFrame
<1>4. /\ ClientTypes(client') /\ SameClient(client, client', {"out"})
      /\ client'.out = Append(t, g) /\ IsSeq(s)
  BY <1>1, <1>2, <1>3, TuneIs, SMTT(60) DEF ClientTypes
<1>5. /\ f.kind = "TuneOk" /\ f.ch = "connection"
      /\ g.kind = "ConnectionOpen" /\ g.ch = "connection"
  BY <1>1, MethodIs
<1> DEFINE K == {"TuneOk", "ConnectionOpen"}
<1>12. AskOK(f)' /\ AskOK(g)' /\ f.kind \in K /\ g.kind \in K
  BY <1>5, Shakes
<1>13. K \cap {"QueueDeclare", "ExchangeDeclare", "Bind", "Consume", "Ack"} = {}
  OBVIOUS
<1> HIDE DEF K
<1>6. Longer(s, t, K) /\ IsSeq(t) /\ \A x \in ToSet(t) : x \in ToSet(s) \/ AskOK(x)'
  BY <1>2, <1>4, <1>12, Sends
<1>7. /\ Longer(t, Append(t, g), K)
      /\ \A x \in ToSet(Append(t, g)) : x \in ToSet(t) \/ AskOK(x)'
  BY <1>6, <1>12, Sends
<1>8. Longer(s, Append(t, g), K)
  BY <1>6, <1>7, LongerStill
<1>9. SameClient(client, client', {"out", "connected", "opened", "declared", "consumerTag"})
  BY <1>4 DEF SameClient
<1>10. {"Tune"} \cap Pieces = {}
  BY DEF Pieces
<1>11. QED
  BY <1>2, <1>4, <1>6, <1>7, <1>8, <1>9, <1>10, <1>13, ReadQuiet

LEMMA OpenOkRead ==
  ASSUME SessionInv, ReadFrame({"ConnectionOpenOk"}), client' = ConnectionOpenOk(client),
         UNCHANGED Unread, UNCHANGED Counted
  PROVE  SessionInv'
<1>1. PICK f, g : f = Method("queue", "ChannelOpen") /\ g = Method("exchange", "ChannelOpen")
  OBVIOUS
<1>2. PICK s : s = client.out
  OBVIOUS
<1>3. ClientTypes(client) /\ client.sock = "connected"
  BY DEF SessionInv, ReadFrame
<1>4. /\ ClientTypes(client') /\ SameClient(client, client', {"out", "connected"})
      /\ IsSeq(s)
  <2>1. ClientTypes(client') /\ SameClient(client, client', {"out", "connected"})
    BY <1>3, OpenOkIs
  <2> QED
    BY <1>2, <1>3, <2>1 DEF ClientTypes
<1>5. PICK t : t \in {s, Append(s, f)} /\ client'.out \in {t, Append(t, g)}
  <2>1. \E t : /\ t \in {client.out, Append(client.out, Method("queue", "ChannelOpen"))}
               /\ client'.out \in {t, Append(t, Method("exchange", "ChannelOpen"))}
    BY <1>3, OpenOkIs
  <2> QED
    BY <1>1, <1>2, <2>1
<1>6. AskOK(f)' /\ AskOK(g)' /\ f.kind = "ChannelOpen" /\ g.kind = "ChannelOpen"
  BY <1>1, MethodIs, Shakes DEF Chan
<1>7. /\ Longer(s, t, {"ChannelOpen"}) /\ IsSeq(t)
      /\ \A x \in ToSet(t) : x \in ToSet(s) \/ AskOK(x)'
  BY <1>4, <1>5, <1>6, Sends, LongerSame
<1>8. /\ Longer(t, client'.out, {"ChannelOpen"})
      /\ \A x \in ToSet(client'.out) : x \in ToSet(t) \/ AskOK(x)'
  BY <1>5, <1>6, <1>7, Sends, LongerSame
<1>9. Longer(s, client'.out, {"ChannelOpen"})
  BY <1>7, <1>8, LongerStill
<1>10. SameClient(client, client', {"out", "connected", "opened", "declared", "consumerTag"})
  BY <1>4 DEF SameClient
<1>11. {"ConnectionOpenOk"} \cap Pieces = {}
  BY DEF Pieces
<1>12. QED
  BY <1>2, <1>4, <1>7, <1>8, <1>9, <1>10, <1>11, ReadQuiet

\* What the library notes without an answer: nothing, or who consumes.
LEMMA NotedRead ==
  ASSUME SessionInv, NEW kinds, ReadFrame(kinds), kinds \cap Pieces = {},
         UNCHANGED Unread, UNCHANGED Counted,
         client' = client \/ \E tag : client' = QueueConsumeOk(client, tag)
  PROVE  SessionInv'
<1>1. ClientTypes(client)
  BY DEF SessionInv
<1>2. ASSUME NEW tag, client' = QueueConsumeOk(client, tag)
      PROVE  /\ SameClient(client, client', {"declared", "consumerTag"})
             /\ ClientTypes(client')
  <2>1. PICK c, d : c = client /\ d = client'
    OBVIOUS
  <2>2. d = [c EXCEPT !.declared = [c.declared EXCEPT !["queue"] = FALSE], !.consumerTag = tag]
    BY <1>2, <2>1 DEF QueueConsumeOk
  <2>3. PICK e : e = [c.declared EXCEPT !["queue"] = FALSE]
    OBVIOUS
  <2>4. d = [c EXCEPT !.declared = e, !.consumerTag = tag] /\ DOMAIN c = ClientFields
    BY <1>1, <2>1, <2>2, <2>3 DEF ClientTypes
  <2>5. DOMAIN d = ClientFields /\ SameClient(c, d, {"declared", "consumerTag"}) /\ d.declared = e
    BY <2>4 DEF SameClient, ClientFields
  <2>6. c.declared \in [Chan -> BOOLEAN]
    BY <1>1, <2>1 DEF ClientTypes
  <2>7. e \in [Chan -> BOOLEAN]
    BY <2>3, <2>6 DEF Chan
  <2>8. d.declared \in [Chan -> BOOLEAN]
    BY <2>5, <2>7
  <2>9. /\ ClientTypes(c) /\ DOMAIN d = ClientFields
        /\ SameClient(c, d, {"declared", "consumerTag"})
    BY <1>1, <2>1, <2>5
  <2>10. ClientTypes(d)
    BY <2>8, <2>9, TypesOfSame
  <2> QED
    BY <2>1, <2>9, <2>10
<1>3. ClientTypes(client') /\ SameClient(client, client', {"declared", "consumerTag"})
  BY <1>1, <1>2 DEF SameClient
<1>4. /\ client'.out = client.out
      /\ SameClient(client, client', {"out", "connected", "opened", "declared", "consumerTag"})
  BY <1>3 DEF SameClient, ClientFields
<1>5. Longer(client.out, client'.out, {})
  BY <1>1, <1>4, LongerSame DEF ClientTypes
<1>6. QED
  BY <1>3, <1>4, <1>5, ReadQuiet

-----------------------------------------------------------------------------
(* The connection is closed, the channels are opened                        *)

LEMMA CloseRead ==
  ASSUME SessionInv, ReadFrame({"ConnectionClose"}), client' = ConnectionClose(client),
         UNCHANGED Unread, UNCHANGED Counted
  PROVE  SessionInv'
<1> DEFINE K == {"ConnectionClose"}
<1>1. K \cap Pieces = {}
  BY DEF Pieces
<1>2. PICK f : f = Head(broker.out)
  OBVIOUS
<1>3. /\ f.kind = "ConnectionClose" /\ AnswerOK(f) /\ f.kind \in Kinds(broker.out)
      /\ \A kind : Once(broker.out, kind) /\ f.kind = kind => kind \notin Kinds(broker'.out)
      /\ \A L : Fewer(broker.out, broker'.out, L)
  <2>1. f.kind \in K
    BY <1>2, ReadIs
  <2> QED
    BY <1>2, <2>1, ReadIs
<1>4. ReadFrame(K)
  OBVIOUS
<1> HIDE DEF K
<1>5. PICK c, d : c = client /\ d = client'
  OBVIOUS
<1>6. ClientTypes(c) /\ d = ConnectionClose(c)
  BY <1>5 DEF SessionInv
<1>7. /\ ClientTypes(d)
      /\ SameClient(c, d, {"timeOut", "timers", "connected", "opened", "delayedDeclare", "declared"})
      /\ d.timers \in {c.timers, c.timers + 1}
      /\ d.delayedDeclare["queue"] = c.delayedDeclare["queue"] /\ ~d.delayedDeclare["exchange"]
  BY <1>6, CloseIs
<1>8. /\ client'.sock = client.sock /\ client'.messages = client.messages
      /\ client'.delayedBindings = client.delayedBindings /\ client'.out = client.out
      /\ client'.timers \in {client.timers, client.timers + 1}
  BY <1>5, <1>7 DEF SameClient, ClientFields
<1>9. /\ client'.delayedDeclare["queue"] = client.delayedDeclare["queue"]
      /\ ~client'.delayedDeclare["exchange"]
  BY <1>5, <1>7
<1>10. /\ broker'.closed = broker.closed /\ broker'.unacked = broker.unacked
       /\ broker'.consumer = broker.consumer /\ broker'.prefetch = broker.prefetch
       /\ Closing' = Closing
  BY <1>4, ReadBroker
<1>11. \A L : Fewer(client.out, client'.out, L) /\ Longer(client.out, client'.out, {})
  BY <1>6, <1>5, <1>8, FewerSame, LongerSame DEF ClientTypes
<1>12. DeclareInv'
  BY <1>3, <1>9, <1>11, DeclareKept DEF SessionInv, Counted
<1>13. BindInv' /\ (BindPending' => BindPending)
  BY <1>3, <1>8, <1>9, <1>11, BindKept DEF SessionInv, Counted
<1>14. TimersInv'
  <2>1. /\ "ConnectionClose" \in Kinds(broker.out) /\ "ConnectionClose" \notin Kinds(broker'.out)
        /\ Once(broker'.out, "ConnectionClose")
    BY <1>3 DEF SessionInv, TimersInv, Fewer
  <2>2. client.timers \in Nat /\ client'.timers \in Nat /\ faults' = faults
    BY <1>5, <1>6, <1>7 DEF ClientTypes, Unread
  <2>3. TimersInv /\ MaxFaults \in Nat
    BY MidasAssumption DEF SessionInv
  <2> QED
    BY <1>8, <1>10, <1>13, <2>1, <2>2, <2>3 DEF TimersInv
<1>15. ConsumeInv'
  BY <1>3, <1>8, <1>10, <1>11, ConsumeKept DEF SessionInv, Counted
<1>16. QosInv'
  BY <1>10, <1>11, QosKept DEF SessionInv
<1>17. ClientTypes(client') /\ \A g \in ToSet(client'.out) : g \in ToSet(client.out)
  BY <1>5, <1>7, <1>8
<1>18. QED
  BY <1>1, <1>4, <1>8, <1>12, <1>13, <1>14, <1>15, <1>16, <1>17, ReadMore

\* A channel is noted as open.
LEMMA OpenedIs ==
  ASSUME NEW c, ClientTypes(c), NEW ch \in Chan, NEW d, d = [c EXCEPT !.opened[ch] = TRUE]
  PROVE  ClientTypes(d) /\ SameClient(c, d, {"opened"}) /\ d.opened[ch]
<1>1. PICK e : e = [c.opened EXCEPT ![ch] = TRUE]
  OBVIOUS
<1>2. d = [c EXCEPT !.opened = e] /\ DOMAIN c = ClientFields
  BY <1>1 DEF ClientTypes
<1>3. DOMAIN d = ClientFields /\ SameClient(c, d, {"opened"}) /\ d.opened = e
  BY <1>2 DEF SameClient, ClientFields
<1>4. c.opened \in [Chan -> BOOLEAN]
  BY DEF ClientTypes
<1>5. e \in [Chan -> BOOLEAN] /\ e[ch]
  BY <1>1, <1>4
<1>6. d.opened[ch]
  BY <1>3, <1>5
<1>7. /\ DOMAIN d = ClientFields /\ SameClient(c, d, {"opened"})
      /\ d.opened \in [Chan -> BOOLEAN]
  BY <1>3, <1>5
<1>8. ASSUME NEW x, NEW y, ClientTypes(x), DOMAIN y = ClientFields,
             SameClient(x, y, {"opened"}), y.opened \in [Chan -> BOOLEAN]
      PROVE  ClientTypes(y)
  BY <1>8, TypesOfSame
<1>10. ClientTypes(d)
  BY <1>7, <1>8
<1>9. QED
  BY <1>6, <1>7, <1>10

\* What was put off is sent when the channel of the queue opens.
LEMMA QueueOnOpenIs ==
  ASSUME NEW c, ClientTypes(c), c.sock = "connected", c.opened["queue"],
         c.delayedDeclare["queue"] => c.delayedBindings = 0, NEW d, d = QueueOnOpen(c)
  PROVE  /\ ClientTypes(d) /\ SameClient(c, d, {"out", "delayedDeclare", "delayedBindings"})
         /\ ~d.delayedDeclare["queue"] /\ d.delayedDeclare["exchange"] = c.delayedDeclare["exchange"]
         /\ d.delayedBindings = 0
         /\ d.out = IF c.delayedDeclare["queue"] THEN Append(c.out, Method("queue", "QueueDeclare"))
                    ELSE IF c.delayedBindings = 0 THEN c.out
                    ELSE Append(c.out, Method("queue", "Bind"))
<1>1. PICK e : e = IF c.delayedDeclare["queue"] THEN QueueDeclare(c) ELSE c
  OBVIOUS
<1>2. /\ ClientTypes(e) /\ e.sock = "connected" /\ SameClient(c, e, {"out", "delayedDeclare"})
      /\ ~e.delayedDeclare["queue"] /\ e.delayedDeclare["exchange"] = c.delayedDeclare["exchange"]
      /\ e.out = IF c.delayedDeclare["queue"] THEN Append(c.out, Method("queue", "QueueDeclare"))
                 ELSE c.out
  <2>1. CASE c.delayedDeclare["queue"]
    <3>1. e = QueueDeclare(c)
      BY <1>1, <2>1
    <3> QED
      BY <2>1, <3>1, DeclareIs
  <2>2. CASE ~c.delayedDeclare["queue"]
    <3>1. e = c
      BY <1>1, <2>2
    <3> QED
      BY <2>2, <3>1 DEF SameClient
  <2> QED
    BY <2>1, <2>2
<1>3. e.opened["queue"] /\ e.delayedBindings = c.delayedBindings
  BY <1>2 DEF SameClient, ClientFields
<1>4. PICK n \in {0, 1} : n = e.delayedBindings
  BY <1>2 DEF ClientTypes
<1>5. PICK g : g = QueueBind(e, n)
  OBVIOUS
<1>6. /\ ClientTypes(g) /\ SameClient(e, g, {"out", "delayedBindings"})
      /\ g.out = WithBinds(e.out, n)
  <2>1. ClientTypes(e) /\ e.sock = "connected" /\ n \in {0, 1}
    BY <1>2
  <2>2. e.opened["queue"] \/ e.delayedBindings + n \in {0, 1}
    BY <1>3
  <2>3. /\ ClientTypes(g) /\ g.sock = "connected" /\ SameClient(e, g, {"out", "delayedBindings"})
        /\ e.opened["queue"] =>
              /\ g.out = WithBinds(e.out, n)
              /\ g.delayedBindings = e.delayedBindings
        /\ ~e.opened["queue"] => g.out = e.out /\ g.delayedBindings = e.delayedBindings + n
    BY <1>5, <2>1, <2>2, BindIs
  <2> QED
    BY <1>3, <2>3
<1>7. d = [g EXCEPT !.delayedBindings = 0]
  BY <1>1, <1>4, <1>5 DEF QueueOnOpen
<1>8. /\ DOMAIN d = ClientFields /\ SameClient(g, d, {"delayedBindings"}) /\ d.delayedBindings = 0
  <2>1. DOMAIN g = ClientFields
    BY <1>6 DEF ClientTypes
  <2> QED
    BY <1>7, <2>1 DEF SameClient, ClientFields
<1>9. ClientTypes(d)
  BY <1>6, <1>8, TypesOfSame
<1>10. /\ SameClient(c, d, {"out", "delayedDeclare", "delayedBindings"})
       /\ d.delayedDeclare = e.delayedDeclare /\ d.out = g.out
  <2>1. SameClient(c, d, {"out", "delayedDeclare", "delayedBindings"})
    BY <1>2, <1>6, <1>8 DEF SameClient
  <2>2. d.delayedDeclare = e.delayedDeclare /\ d.out = g.out
    BY <1>6, <1>8 DEF SameClient, ClientFields
  <2> QED
    BY <2>1, <2>2
<1>11. d.out = IF c.delayedDeclare["queue"] THEN Append(c.out, Method("queue", "QueueDeclare"))
               ELSE IF c.delayedBindings = 0 THEN c.out
               ELSE Append(c.out, Method("queue", "Bind"))
  BY <1>2, <1>3, <1>4, <1>6, <1>10 DEF WithBinds
<1>12. QED
  BY <1>2, <1>8, <1>9, <1>10, <1>11

LEMMA AppendKinds ==
  ASSUME NEW s, IsSeq(s), NEW f
  PROVE  /\ Kinds(Append(s, f)) = Kinds(s) \cup {f.kind}
         /\ \A kind : kind # f.kind /\ Once(s, kind) => Once(Append(s, f), kind)
         /\ f.kind \notin Kinds(s) => Once(Append(s, f), f.kind)
<1>1. ASSUME NEW t, t = Append(s, f)
      PROVE  /\ Kinds(t) = Kinds(s) \cup {f.kind}
             /\ \A kind : kind # f.kind /\ Once(s, kind) => Once(t, kind)
             /\ f.kind \notin Kinds(s) => Once(t, f.kind)
  <2>1. Kinds(t) = Kinds(s) \cup {f.kind}
    <3>1. /\ Len(s) \in Nat /\ DOMAIN s = 1 .. Len(s) /\ DOMAIN t = 1 .. Len(s) + 1
          /\ \A i \in 1 .. Len(s) : t[i] = s[i]
          /\ t[Len(s) + 1] = f
      BY <1>1, AppendIsSeq, SMTT(60)
    <3>2. PICK n \in Nat : n = Len(s)
      BY <3>1
    <3>3. \A i \in 1 .. n + 1 : i \in 1 .. n \/ i = n + 1
      BY <3>2
    <3>4. 1 .. n \subseteq 1 .. n + 1 /\ n + 1 \in 1 .. n + 1
      BY <3>2
    <3> QED
      BY <3>1, <3>2, <3>3, <3>4 DEF Kinds
  <2>2. \A kind : kind # f.kind /\ Once(s, kind) => Once(t, kind)
    BY <1>1, LongerStream, ZenonT(60)
  <2>3. f.kind \notin Kinds(s) => Once(t, f.kind)
    BY <1>1, LongerStream
  <2> QED
    BY <2>1, <2>2, <2>3
<1>2. QED
  BY <1>1

LEMMA QueueAsks ==
  ASSUME NEW f, f.ch = "queue", f.kind \in OfQueue \ {"Ack"}, f.kind # "Bind" => QueueUp',
         f.kind = "Qos" => f.n = 1, f.kind = "Consume" => f.n = 0
  PROVE  AskOK(f)'
BY DEF AskOK, Asked, OfQueue

LEMMA ExchangeAsks ==
  ASSUME NEW f, f.ch = "exchange", f.kind = "ExchangeDeclare"
  PROVE  AskOK(f)'
BY DEF AskOK, Asked, OfQueue

LEMMA QueueOpenRead ==
  ASSUME SessionInv, ReadFrame({"ChannelOpenOk"}), Head(broker.out).ch = "queue",
         client' = ChannelOpenOk(client, "queue"), UNCHANGED Unread, UNCHANGED Counted
  PROVE  SessionInv'
<1> DEFINE R == {"ChannelOpenOk"}
           K == {"QueueDeclare", "Bind"}
<1>1. R \cap Pieces = {} /\ ReadFrame(R)
  BY DEF Pieces
<1>2. QueueUp' /\ client.sock = "connected"
  <2>1. PICK f : f = Head(broker.out)
    OBVIOUS
  <2>2. f.kind \in R /\ AnswerOK(f)
    BY <2>1, ReadIs
  <2>3. QueueUp
    BY <2>1, <2>2 DEF AnswerOK
  <2> QED
    BY <1>1, <2>3, ReadBroker DEF ReadFrame
<1>3. /\ broker'.closed = broker.closed /\ broker'.unacked = broker.unacked
      /\ broker'.consumer = broker.consumer /\ broker'.prefetch = broker.prefetch
      /\ Closing' = Closing
      /\ \A L : Fewer(broker.out, broker'.out, L)
  BY <1>1, ReadBroker
<1> HIDE DEF R
<1>4. PICK c, d, s : c = client /\ d = client' /\ s = client.out
  OBVIOUS
<1>5. PICK f, g : f = Method("queue", "QueueDeclare") /\ g = Method("queue", "Bind")
  OBVIOUS
<1>6. f.kind = "QueueDeclare" /\ g.kind = "Bind" /\ f.ch = "queue" /\ g.ch = "queue"
  BY <1>5, MethodIs
<1>7. AskOK(f)' /\ AskOK(g)'
  BY <1>2, <1>6, QueueAsks DEF OfQueue
<1>8. ClientTypes(c) /\ IsSeq(s) /\ c.out = s /\ c.sock = "connected"
  BY <1>2, <1>4 DEF SessionInv, ClientTypes
<1>9. c.delayedDeclare["queue"] => c.delayedBindings = 0
  BY <1>4 DEF SessionInv, DeclareInv, BindInv, ToDeclare, ToBind
<1>10. /\ ClientTypes(d)
       /\ SameClient(c, d, {"opened", "out", "delayedDeclare", "delayedBindings"})
       /\ ~d.delayedDeclare["queue"] /\ d.delayedDeclare["exchange"] = c.delayedDeclare["exchange"]
       /\ d.delayedBindings = 0
       /\ d.out = IF c.delayedDeclare["queue"] THEN Append(s, f)
                  ELSE IF c.delayedBindings = 0 THEN s ELSE Append(s, g)
  <2>1. PICK e : e = [c EXCEPT !.opened["queue"] = TRUE]
    OBVIOUS
  <2>2. ClientTypes(e) /\ SameClient(c, e, {"opened"}) /\ e.opened["queue"]
    BY <1>8, <2>1, OpenedIs DEF Chan
  <2>3. /\ e.delayedDeclare = c.delayedDeclare /\ e.delayedBindings = c.delayedBindings
        /\ e.out = s /\ e.sock = "connected"
    BY <1>8, <2>2 DEF SameClient, ClientFields
  <2>4. d = QueueOnOpen(e)
    BY <1>4, <2>1 DEF ChannelOpenOk
  <2>5. /\ ClientTypes(d) /\ SameClient(e, d, {"out", "delayedDeclare", "delayedBindings"})
        /\ ~d.delayedDeclare["queue"] /\ d.delayedDeclare["exchange"] = e.delayedDeclare["exchange"]
        /\ d.delayedBindings = 0
        /\ d.out = IF e.delayedDeclare["queue"] THEN Append(e.out, Method("queue", "QueueDeclare"))
                   ELSE IF e.delayedBindings = 0 THEN e.out
                   ELSE Append(e.out, Method("queue", "Bind"))
    BY <1>9, <2>2, <2>3, <2>4, QueueOnOpenIs
  <2>6. SameClient(c, d, {"opened", "out", "delayedDeclare", "delayedBindings"})
    BY <2>2, <2>5 DEF SameClient
  <2> QED
    BY <1>5, <2>3, <2>5, <2>6
<1>11. d.sock = c.sock /\ d.messages = c.messages /\ d.timers = c.timers
  BY <1>10 DEF SameClient, ClientFields
<1>12. f.kind \in K /\ g.kind \in K
  BY <1>6
<1>13. Longer(s, d.out, K) /\ \A x \in ToSet(d.out) : x \in ToSet(s) \/ AskOK(x)'
  BY <1>7, <1>8, <1>10, <1>12, Sends, LongerSame
<1>14. Fewer(s, d.out, {"Consume", "Ack"}) /\ ("Ack" \in Kinds(d.out) => "Ack" \in Kinds(s))
  BY <1>13, FewerKinds, LongerKinds
<1>15. "Consume" \notin K
  OBVIOUS
<1> HIDE DEF K
<1>16. DeclareInv'
  <2>1. CASE c.delayedDeclare["queue"]
    <3>1. d.out = Append(s, f)
      BY <1>10, <2>1
    <3>2. subscribed = 0 /\ "QueueDeclare" \notin Kinds(s) /\ "QueueDeclareOk" \notin Kinds(broker.out)
      BY <1>4, <2>1 DEF SessionInv, DeclareInv
    <3>3. Once(d.out, "QueueDeclare")
      BY <1>6, <1>8, <3>1, <3>2, AppendKinds
    <3>4. "QueueDeclareOk" \notin Kinds(broker'.out) /\ Once(broker'.out, "QueueDeclareOk")
      BY <1>3, <3>2 DEF Fewer, SessionInv, DeclareInv
    <3>5. ~client'.delayedDeclare["queue"] /\ Once(client'.out, "QueueDeclare")
      BY <1>4, <1>10, <3>3
    <3>6. subscribed' = 0 /\ listeners' = 0
      BY <3>2 DEF Counted, SessionInv, DeclareInv
    <3> QED
      BY <3>4, <3>5, <3>6 DEF DeclareInv
  <2>2. CASE ~c.delayedDeclare["queue"]
    <3>1. Fewer(s, d.out, {"QueueDeclare"})
      <4>1. Longer(s, d.out, {"Bind"})
        BY <1>6, <1>7, <1>8, <1>10, <2>2, Sends, LongerSame
      <4> QED
        BY <4>1, FewerKinds
    <3> QED
      BY <1>3, <1>4, <1>10, <3>1, DeclareKept DEF SessionInv, Counted
  <2> QED
    BY <2>1, <2>2
<1>17. BindInv' /\ (BindPending' => BindPending)
  <2>1. CASE ~c.delayedDeclare["queue"] /\ c.delayedBindings # 0
    <3>1. d.out = Append(s, g)
      BY <1>10, <2>1
    <3>2. ToBind /\ BindInv /\ subscribed' = subscribed
      BY <1>4, <2>1 DEF ToBind, SessionInv, Counted
    <3>3. ~ToDeclare /\ ~ToSend /\ ~Sent /\ ~Declared /\ ~Bound
      BY <3>2 DEF BindInv
    <3>4. /\ Once(d.out, "Bind") /\ "ExchangeDeclare" \notin Kinds(d.out)
          /\ Once(d.out, "ExchangeDeclare")
      <4>1. "Bind" \notin Kinds(s) /\ "ExchangeDeclare" \notin Kinds(s) /\ Once(s, "ExchangeDeclare")
        BY <1>4, <3>2, <3>3 DEF Bound, Sent, BindInv
      <4>2. Kinds(d.out) = Kinds(s) \cup {g.kind}
        BY <1>8, <3>1, AppendKinds
      <4>3. /\ g.kind \notin Kinds(s) => Once(d.out, g.kind)
            /\ \A kind : kind # g.kind /\ Once(s, kind) => Once(d.out, kind)
        BY <1>8, <3>1, AppendKinds
      <4> QED
        BY <1>6, <4>1, <4>2, <4>3
    <3>5. "ExchangeDeclareOk" \notin Kinds(broker'.out) /\ Once(broker'.out, "ExchangeDeclareOk")
      BY <1>3, <3>2, <3>3 DEF Fewer, BindInv, Declared
    <3>6. ~ToDeclare' /\ ~ToSend' /\ ~Sent' /\ ~Declared' /\ ~ToBind'
      BY <1>4, <1>10, <3>2, <3>3, <3>4, <3>5 DEF ToDeclare, ToSend, Sent, Declared, ToBind
    <3>7. BindInv'
      BY <1>4, <3>4, <3>5, <3>6 DEF BindInv
    <3> QED
      BY <3>2, <3>7 DEF BindPending
  <2>2. CASE c.delayedDeclare["queue"] \/ c.delayedBindings = 0
    <3>1. Fewer(s, d.out, {"ExchangeDeclare", "Bind"})
      <4>1. Longer(s, d.out, {"QueueDeclare"})
        BY <1>6, <1>7, <1>8, <1>10, <2>2, Sends, LongerSame
      <4> QED
        BY <4>1, FewerKinds
    <3> QED
      BY <1>3, <1>4, <1>10, <3>1, BindKept DEF SessionInv, Counted
  <2> QED
    BY <2>1, <2>2
<1>18. TimersInv'
  BY <1>1, <1>4, <1>11, <1>17, ReadTimers DEF Unread
<1>19. ConsumeInv'
  BY <1>3, <1>4, <1>11, <1>14, ConsumeKept DEF SessionInv, Counted
<1>20. QosInv'
  BY <1>3, <1>4, <1>13, <1>15, QosKept DEF SessionInv
<1>21. QED
  BY <1>1, <1>4, <1>10, <1>11, <1>13, <1>14, <1>16, <1>17, <1>18, <1>19, <1>20, ReadMore

LEMMA ExchangeOpenRead ==
  ASSUME SessionInv, ReadFrame({"ChannelOpenOk"}), client' = ChannelOpenOk(client, "exchange"),
         UNCHANGED Unread, UNCHANGED Counted
  PROVE  SessionInv'
<1> DEFINE R == {"ChannelOpenOk"}
           K == {"ExchangeDeclare"}
<1>1. R \cap Pieces = {} /\ ReadFrame(R)
  BY DEF Pieces
<1>2. client.sock = "connected"
  BY DEF ReadFrame
<1>3. /\ broker'.closed = broker.closed /\ broker'.unacked = broker.unacked
      /\ broker'.consumer = broker.consumer /\ broker'.prefetch = broker.prefetch
      /\ Closing' = Closing
      /\ \A L : Fewer(broker.out, broker'.out, L)
  BY <1>1, ReadBroker
<1> HIDE DEF R
<1>4. PICK c, d, s : c = client /\ d = client' /\ s = client.out
  OBVIOUS
<1>5. PICK f : f = Method("exchange", "ExchangeDeclare")
  OBVIOUS
<1>6. f.kind = "ExchangeDeclare" /\ f.ch = "exchange"
  BY <1>5, MethodIs
<1>7. AskOK(f)'
  BY <1>6, ExchangeAsks
<1>8. ClientTypes(c) /\ IsSeq(s) /\ c.out = s /\ c.sock = "connected"
  BY <1>2, <1>4 DEF SessionInv, ClientTypes
<1>9. /\ ClientTypes(d)
      /\ SameClient(c, d, {"opened", "out", "delayedDeclare"})
      /\ d.delayedDeclare["queue"] = c.delayedDeclare["queue"] /\ ~d.delayedDeclare["exchange"]
      /\ d.out = IF c.delayedDeclare["exchange"] THEN Append(s, f) ELSE s
  <2>1. PICK e : e = [c EXCEPT !.opened["exchange"] = TRUE]
    OBVIOUS
  <2>2. ClientTypes(e) /\ SameClient(c, e, {"opened"}) /\ e.opened["exchange"]
    BY <1>8, <2>1, OpenedIs DEF Chan
  <2>3. e.delayedDeclare = c.delayedDeclare /\ e.out = s /\ e.sock = "connected"
    BY <1>8, <2>2 DEF SameClient, ClientFields
  <2>4. d = ExchangeOnOpen(e)
    BY <1>4, <2>1 DEF ChannelOpenOk
  <2>5. CASE c.delayedDeclare["exchange"]
    <3>1. d = ExchangeDeclare(e)
      BY <2>3, <2>4, <2>5 DEF ExchangeOnOpen
    <3>2. /\ ClientTypes(d) /\ SameClient(e, d, {"out", "delayedDeclare"})
          /\ d.delayedDeclare["queue"] = e.delayedDeclare["queue"]
          /\ d.out = Append(e.out, Method("exchange", "ExchangeDeclare"))
          /\ ~d.delayedDeclare["exchange"]
      BY <2>2, <2>3, <3>1, ExchangeDeclareIs
    <3>3. SameClient(c, d, {"opened", "out", "delayedDeclare"})
      BY <2>2, <3>2 DEF SameClient
    <3> QED
      BY <1>5, <2>3, <2>5, <3>2, <3>3
  <2>6. CASE ~c.delayedDeclare["exchange"]
    <3>1. d = e
      BY <2>3, <2>4, <2>6 DEF ExchangeOnOpen
    <3>2. SameClient(c, d, {"opened", "out", "delayedDeclare"})
      BY <2>2, <3>1 DEF SameClient
    <3> QED
      BY <2>2, <2>3, <2>6, <3>1, <3>2
  <2> QED
    BY <2>5, <2>6
<1>10. /\ d.sock = c.sock /\ d.messages = c.messages /\ d.timers = c.timers
       /\ d.delayedBindings = c.delayedBindings
  BY <1>9 DEF SameClient, ClientFields
<1>11. f.kind \in K
  BY <1>6
<1>12. Longer(s, d.out, K) /\ \A x \in ToSet(d.out) : x \in ToSet(s) \/ AskOK(x)'
  BY <1>7, <1>8, <1>9, <1>11, Sends, LongerSame
<1>13. /\ Fewer(s, d.out, {"Consume", "Ack"}) /\ Fewer(s, d.out, {"QueueDeclare"})
       /\ "Ack" \in Kinds(d.out) => "Ack" \in Kinds(s)
  BY <1>12, FewerKinds, LongerKinds
<1>14. "Consume" \notin K
  OBVIOUS
<1> HIDE DEF K
<1>15. DeclareInv'
  BY <1>3, <1>4, <1>9, <1>13, DeclareKept DEF SessionInv, Counted
<1>16. BindInv' /\ (BindPending' => BindPending)
  <2>1. CASE c.delayedDeclare["exchange"]
    <3>1. d.out = Append(s, f)
      BY <1>9, <2>1
    <3>2. ToSend /\ BindInv /\ subscribed' = subscribed
      BY <1>4, <2>1 DEF ToSend, SessionInv, Counted
    <3>3. ~ToDeclare /\ ~Sent /\ ~Declared /\ ~ToBind /\ ~Bound
      BY <3>2 DEF BindInv
    <3>4. /\ Once(d.out, "ExchangeDeclare") /\ "Bind" \notin Kinds(d.out)
          /\ Once(d.out, "Bind")
      <4>1. "Bind" \notin Kinds(s) /\ "ExchangeDeclare" \notin Kinds(s) /\ Once(s, "Bind")
        BY <1>4, <3>2, <3>3 DEF Bound, Sent, BindInv
      <4>2. Kinds(d.out) = Kinds(s) \cup {f.kind}
        BY <1>8, <3>1, AppendKinds
      <4>3. /\ f.kind \notin Kinds(s) => Once(d.out, f.kind)
            /\ \A kind : kind # f.kind /\ Once(s, kind) => Once(d.out, kind)
        BY <1>8, <3>1, AppendKinds
      <4> QED
        BY <1>6, <4>1, <4>2, <4>3
    <3>5. "ExchangeDeclareOk" \notin Kinds(broker'.out) /\ Once(broker'.out, "ExchangeDeclareOk")
      BY <1>3, <3>2, <3>3 DEF Fewer, BindInv, Declared
    <3>6. ~ToDeclare' /\ ~ToSend' /\ ~Declared' /\ ~ToBind' /\ ~Bound'
      BY <1>4, <1>9, <1>10, <3>2, <3>3, <3>4, <3>5 DEF ToDeclare, ToSend, Bound, Declared, ToBind
    <3>7. BindInv'
      BY <1>4, <3>4, <3>5, <3>6 DEF BindInv
    <3> QED
      BY <3>2, <3>7 DEF BindPending
  <2>2. CASE ~c.delayedDeclare["exchange"]
    <3>1. Fewer(s, d.out, {"ExchangeDeclare", "Bind"})
      BY <1>9, <2>2, FewerSame
    <3> QED
      BY <1>3, <1>4, <1>9, <1>10, <3>1, BindKept DEF SessionInv, Counted
  <2> QED
    BY <2>1, <2>2
<1>17. TimersInv'
  BY <1>1, <1>4, <1>10, <1>16, ReadTimers DEF Unread
<1>18. ConsumeInv'
  BY <1>3, <1>4, <1>10, <1>13, ConsumeKept DEF SessionInv, Counted
<1>19. QosInv'
  BY <1>3, <1>4, <1>12, <1>14, QosKept DEF SessionInv
<1>20. QED
  BY <1>1, <1>4, <1>9, <1>10, <1>12, <1>13, <1>15, <1>16, <1>17, <1>18, <1>19, ReadMore

-----------------------------------------------------------------------------
(* The declarations are answered                                            *)

\* A declaration is noted.
LEMMA DeclaredIs ==
  ASSUME NEW c, ClientTypes(c), NEW ch \in Chan, NEW d, d = [c EXCEPT !.declared[ch] = TRUE]
  PROVE  ClientTypes(d) /\ SameClient(c, d, {"declared"})
<1>1. PICK e : e = [c.declared EXCEPT ![ch] = TRUE]
  OBVIOUS
<1>2. d = [c EXCEPT !.declared = e] /\ DOMAIN c = ClientFields
  BY <1>1 DEF ClientTypes
<1>3. DOMAIN d = ClientFields /\ SameClient(c, d, {"declared"}) /\ d.declared = e
  BY <1>2 DEF SameClient, ClientFields
<1>4. c.declared \in [Chan -> BOOLEAN]
  BY DEF ClientTypes
<1>5. e \in [Chan -> BOOLEAN]
  BY <1>1, <1>4
<1>6. /\ DOMAIN d = ClientFields /\ SameClient(c, d, {"declared"})
      /\ d.declared \in [Chan -> BOOLEAN]
  BY <1>3, <1>5
<1>7. ASSUME NEW x, NEW y, ClientTypes(x), DOMAIN y = ClientFields,
             SameClient(x, y, {"declared"}), y.declared \in [Chan -> BOOLEAN]
      PROVE  ClientTypes(y)
  BY <1>7, TypesOfSame
<1>8. QED
  BY <1>6, <1>7

LEMMA ExchangeDeclareOkRead ==
  ASSUME SessionInv, ReadFrame({"ExchangeDeclareOk"}),
         client' = MqEDeclared(ExchangeDeclareOk(client)), UNCHANGED Unread, UNCHANGED Counted
  PROVE  SessionInv'
<1> DEFINE R == {"ExchangeDeclareOk"}
           K == {"Bind"}
<1>1. R \cap Pieces = {} /\ ReadFrame(R)
  BY DEF Pieces
<1>2. client.sock = "connected"
  BY DEF ReadFrame
<1>3. /\ broker'.closed = broker.closed /\ broker'.unacked = broker.unacked
      /\ broker'.consumer = broker.consumer /\ broker'.prefetch = broker.prefetch
      /\ Closing' = Closing
      /\ \A L : Fewer(broker.out, broker'.out, L)
  BY <1>1, ReadBroker
<1>4. /\ Declared /\ "ExchangeDeclareOk" \notin Kinds(broker'.out)
      /\ Once(broker'.out, "ExchangeDeclareOk")
  <2>1. PICK f : f = Head(broker.out)
    OBVIOUS
  <2>2. /\ f.kind \in R /\ f.kind \in Kinds(broker.out)
        /\ \A kind : Once(broker.out, kind) /\ f.kind = kind => kind \notin Kinds(broker'.out)
    BY <2>1, ReadIs
  <2>3. Once(broker.out, "ExchangeDeclareOk") /\ f.kind = "ExchangeDeclareOk"
    BY <2>2 DEF SessionInv, BindInv
  <2> QED
    BY <1>3, <2>2, <2>3 DEF Declared, Fewer
<1> HIDE DEF R
<1>5. /\ ~ToDeclare /\ ~ToSend /\ ~Sent /\ ~ToBind /\ ~Bound
      /\ Once(client.out, "ExchangeDeclare")
  BY <1>4 DEF SessionInv, BindInv
<1>6. subscribed = 1 /\ listeners = 1 /\ client.delayedBindings = 0
  BY <1>5 DEF SessionInv, DeclareInv, ToDeclare, ToBind
<1>7. PICK c, d, s : c = client /\ d = client' /\ s = client.out
  OBVIOUS
<1>8. PICK g : g = Method("queue", "Bind")
  OBVIOUS
<1>9. g.kind = "Bind" /\ g.ch = "queue"
  BY <1>8, MethodIs
<1>10. AskOK(g)'
  BY <1>9, QueueAsks DEF OfQueue
<1>11. ClientTypes(c) /\ IsSeq(s) /\ c.out = s /\ c.sock = "connected" /\ c.delayedBindings = 0
  BY <1>2, <1>6, <1>7 DEF SessionInv, ClientTypes
<1>12. /\ ClientTypes(d) /\ SameClient(c, d, {"declared", "out", "delayedBindings"})
       /\ \/ d.out = Append(s, g) /\ d.delayedBindings = 0
          \/ d.out = s /\ d.delayedBindings = 1
  <2>1. PICK e : e = [c EXCEPT !.declared["exchange"] = TRUE]
    OBVIOUS
  <2>2. ClientTypes(e) /\ SameClient(c, e, {"declared"})
    BY <1>11, <2>1, DeclaredIs DEF Chan
  <2>3. e.delayedBindings = 0 /\ e.out = s /\ e.sock = "connected"
    BY <1>11, <2>2 DEF SameClient, ClientFields
  <2>4. d = QueueBind(e, 1)
    BY <1>6, <1>7, <2>1 DEF MqEDeclared, ExchangeDeclareOk
  <2>5. 1 \in {0, 1} /\ e.delayedBindings + 1 \in {0, 1}
    BY <2>3
  <2>6. /\ ClientTypes(d) /\ SameClient(e, d, {"out", "delayedBindings"})
        /\ e.opened["queue"] =>
              /\ d.out = WithBinds(e.out, 1)
              /\ d.delayedBindings = e.delayedBindings
        /\ ~e.opened["queue"] => d.out = e.out /\ d.delayedBindings = e.delayedBindings + 1
    BY <2>2, <2>3, <2>4, <2>5, BindIs
  <2>7. SameClient(c, d, {"declared", "out", "delayedBindings"})
    BY <2>2, <2>6 DEF SameClient
  <2> QED
    BY <1>8, <2>3, <2>6, <2>7 DEF WithBinds
<1>13. /\ d.sock = c.sock /\ d.messages = c.messages /\ d.timers = c.timers
       /\ d.delayedDeclare = c.delayedDeclare
  BY <1>12 DEF SameClient, ClientFields
<1>14. g.kind \in K
  BY <1>9
<1>15. Longer(s, d.out, K) /\ \A x \in ToSet(d.out) : x \in ToSet(s) \/ AskOK(x)'
  BY <1>10, <1>11, <1>12, <1>14, Sends, LongerSame
<1>16. /\ Fewer(s, d.out, {"Consume", "Ack"}) /\ Fewer(s, d.out, {"QueueDeclare"})
       /\ Fewer(s, d.out, {"ExchangeDeclare"})
       /\ "Ack" \in Kinds(d.out) => "Ack" \in Kinds(s)
  BY <1>15, FewerKinds, LongerKinds
<1>17. "Consume" \notin K
  OBVIOUS
<1> HIDE DEF K
<1>18. DeclareInv'
  BY <1>3, <1>7, <1>13, <1>16, DeclareKept DEF SessionInv, Counted
<1>19. BindInv' /\ (BindPending' => BindPending)
  <2>1. Once(d.out, "ExchangeDeclare") /\ "ExchangeDeclare" \notin Kinds(d.out)
    BY <1>5, <1>7, <1>16 DEF Fewer, Sent
  <2>2. /\ Once(d.out, "Bind")
        /\ d.delayedBindings # 0 => "Bind" \notin Kinds(d.out)
    <3>1. "Bind" \notin Kinds(s) /\ Once(s, "Bind")
      BY <1>5, <1>7 DEF Bound, SessionInv, BindInv
    <3>2. CASE d.out = s
      BY <3>1, <3>2
    <3>3. CASE d.out = Append(s, g) /\ d.delayedBindings = 0
      BY <1>9, <1>11, <3>1, <3>3, AppendKinds
    <3> QED
      BY <1>12, <3>2, <3>3
  <2>3. ~ToDeclare' /\ ~ToSend' /\ ~Sent' /\ ~Declared' /\ (ToBind' => ~Bound')
    BY <1>4, <1>5, <1>7, <1>13, <2>1, <2>2
       DEF ToDeclare, ToSend, Sent, Declared, ToBind, Bound, Counted
  <2>4. BindInv'
    BY <1>4, <1>7, <2>1, <2>2, <2>3 DEF BindInv
  <2> QED
    BY <1>4, <2>4 DEF BindPending
<1>20. TimersInv'
  BY <1>1, <1>7, <1>13, <1>19, ReadTimers DEF Unread
<1>21. ConsumeInv'
  BY <1>3, <1>7, <1>13, <1>16, ConsumeKept DEF SessionInv, Counted
<1>22. QosInv'
  BY <1>3, <1>7, <1>15, <1>17, QosKept DEF SessionInv
<1>23. QED
  BY <1>1, <1>7, <1>12, <1>13, <1>15, <1>16, <1>18, <1>19, <1>20, <1>21, <1>22, ReadMore

\* mq_declared(): the prefetch, then the consumer, then the declaration of the exchange.
LEMMA MqDeclaredIs ==
  ASSUME NEW c, ClientTypes(c), c.sock = "connected", NEW d, d = MqDeclared(QueueDeclareOk(c)),
         NEW q, q = Frame("queue", "Qos", 1, 0, NoMsg),
         NEW g, g = Frame("queue", "Consume", 0, c.consumerTag, NoMsg),
         NEW f, f = Method("exchange", "ExchangeDeclare"),
         NEW u, u = Append(c.out, q)
  PROVE  /\ ClientTypes(d) /\ SameClient(c, d, {"declared", "out", "delayedDeclare"})
         /\ d.delayedDeclare["queue"] = c.delayedDeclare["queue"]
         /\ \E v \in {u, Append(u, g)} :
               \/ /\ d.out = v
                  /\ d.delayedDeclare["exchange"] \/ d.delayedDeclare = c.delayedDeclare
               \/ d.out = Append(v, f) /\ ~d.delayedDeclare["exchange"]
<1>1. PICK e1 : e1 = [c EXCEPT !.declared["queue"] = TRUE]
  OBVIOUS
<1>2. ClientTypes(e1) /\ SameClient(c, e1, {"declared"})
  BY <1>1, DeclaredIs DEF Chan
<1>3. e1.out = c.out /\ e1.sock = "connected"
  BY <1>2 DEF SameClient, ClientFields
<1>4. PICK e2 : e2 = SendFrame(e1, q)
  OBVIOUS
<1>5. ClientTypes(e2) /\ e2.sock = "connected" /\ SameClient(e1, e2, {"out"}) /\ e2.out = u
  BY <1>2, <1>3, <1>4, SendIs, SMTT(60)
<1>6. e2.consumerTag = c.consumerTag /\ e2.delayedDeclare = c.delayedDeclare
  BY <1>2, <1>5 DEF SameClient, ClientFields
<1>7. PICK e3 : e3 = QueueConsume(e2)
  OBVIOUS
<1>8. /\ ClientTypes(e3) /\ e3.sock = "connected" /\ SameClient(e2, e3, {"out"})
      /\ e3.out \in {u, Append(u, g)}
  <2>1. CASE ~e2.opened["queue"]
    <3>1. e3 = e2
      BY <1>7, <2>1 DEF QueueConsume
    <3> QED
      BY <1>5, <3>1 DEF SameClient
  <2>2. CASE e2.opened["queue"]
    <3>1. e3 = SendFrame(e2, g)
      BY <1>6, <1>7, <2>2 DEF QueueConsume
    <3> QED
      BY <1>5, <3>1, SendIs, SMTT(60)
  <2> QED
    BY <2>1, <2>2
<1>9. d = IF app = "midas" THEN ExchangeDeclare(e3) ELSE e3
  BY <1>1, <1>4, <1>7 DEF MqDeclared, QueueDeclareOk, SetQOS
<1>10. e3.delayedDeclare = c.delayedDeclare
  BY <1>6, <1>8 DEF SameClient, ClientFields
<1>11. CASE app # "midas"
  <2>1. d = e3
    BY <1>9, <1>11
  <2>2. SameClient(c, d, {"declared", "out", "delayedDeclare"})
    BY <1>2, <1>5, <1>8, <2>1 DEF SameClient
  <2> QED
    BY <1>8, <1>10, <2>1, <2>2
<1>12. CASE app = "midas"
  <2>1. d = ExchangeDeclare(e3)
    BY <1>9, <1>12
  <2>2. ClientTypes(d) /\ SameClient(e3, d, {"out", "delayedDeclare"})
    BY <1>8, <2>1, ExchangeDeclareIs
  <2>3. d.delayedDeclare["queue"] = e3.delayedDeclare["queue"]
    BY <1>8, <2>1, ExchangeDeclareIs
  <2>4. \/ d.out = Append(e3.out, f) /\ ~d.delayedDeclare["exchange"]
        \/ d.out = e3.out /\ d.delayedDeclare["exchange"]
    BY <1>8, <2>1, ExchangeDeclareIs
  <2>5. SameClient(c, d, {"declared", "out", "delayedDeclare"})
    BY <1>2, <1>5, <1>8, <2>2 DEF SameClient
  <2> QED
    BY <1>8, <1>10, <2>2, <2>3, <2>4, <2>5
<1>13. QED
  BY <1>11, <1>12

LEMMA DeclareOkRead ==
  ASSUME SessionInv, ReadFrame({"QueueDeclareOk"}), client' = MqDeclared(QueueDeclareOk(client)),
         subscribed' = subscribed + 1, listeners' = listeners + 1, UNCHANGED Unread
  PROVE  SessionInv'
<1> DEFINE R == {"QueueDeclareOk"}
<1>1. R \cap Pieces = {} /\ ReadFrame(R)
  BY DEF Pieces
<1>2. client.sock = "connected"
  BY DEF ReadFrame
<1>3. /\ broker'.closed = broker.closed /\ broker'.unacked = broker.unacked
      /\ broker'.consumer = broker.consumer /\ broker'.prefetch = broker.prefetch
      /\ Closing' = Closing
      /\ \A L : Fewer(broker.out, broker'.out, L)
  BY <1>1, ReadBroker
<1>4. /\ "QueueDeclareOk" \in Kinds(broker.out) /\ "QueueDeclareOk" \notin Kinds(broker'.out)
      /\ Once(broker'.out, "QueueDeclareOk") /\ QueueUp'
  <2>1. PICK f : f = Head(broker.out)
    OBVIOUS
  <2>2. /\ f.kind \in R /\ f.kind \in Kinds(broker.out) /\ AnswerOK(f)
        /\ \A kind : Once(broker.out, kind) /\ f.kind = kind => kind \notin Kinds(broker'.out)
    BY <2>1, ReadIs
  <2>3. Once(broker.out, "QueueDeclareOk") /\ f.kind = "QueueDeclareOk"
    BY <2>2 DEF SessionInv, DeclareInv
  <2>4. QueueUp
    BY <2>2, <2>3 DEF AnswerOK
  <2>5. QueueUp'
    BY <1>1, <2>4, ReadBroker
  <2> QED
    BY <1>3, <2>2, <2>3, <2>5 DEF Fewer
<1> HIDE DEF R
<1>5. PICK c, d, s : c = client /\ d = client' /\ s = client.out
  OBVIOUS
<1>6. /\ subscribed = 0 /\ listeners = 0 /\ subscribed' = 1 /\ listeners' = 1
      /\ ~c.delayedDeclare["queue"] /\ "QueueDeclare" \notin Kinds(s)
  BY <1>4, <1>5 DEF SessionInv, DeclareInv
<1>7. ToDeclare /\ ~ToSend /\ ~Sent /\ ~Declared /\ ~ToBind /\ ~Bound
  BY <1>6 DEF SessionInv, BindInv, ToDeclare
<1>8. /\ Idle /\ broker.unacked = << >> /\ broker.consumer = 0
      /\ "Consume" \notin Kinds(s) /\ "Ack" \notin Kinds(s)
  BY <1>5, <1>6 DEF SessionInv, ConsumeInv, Idle
<1>9. PICK q, g, f, u : /\ q = Frame("queue", "Qos", 1, 0, NoMsg)
                        /\ g = Frame("queue", "Consume", 0, c.consumerTag, NoMsg)
                        /\ f = Method("exchange", "ExchangeDeclare")
                        /\ u = Append(s, q)
  OBVIOUS
<1>10. /\ q.kind = "Qos" /\ q.ch = "queue" /\ q.n = 1
       /\ g.kind = "Consume" /\ g.ch = "queue" /\ g.n = 0
       /\ f.kind = "ExchangeDeclare" /\ f.ch = "exchange"
  BY <1>9 DEF Method, Frame
<1>11. AskOK(q)' /\ AskOK(g)' /\ AskOK(f)'
  <2>1. AskOK(q)'
    BY <1>4, <1>10, QueueAsks DEF OfQueue
  <2>2. AskOK(g)'
    BY <1>4, <1>10, QueueAsks DEF OfQueue
  <2>3. AskOK(f)'
    BY <1>10, ExchangeAsks
  <2> QED
    BY <2>1, <2>2, <2>3
<1>12. ClientTypes(c) /\ IsSeq(s) /\ c.out = s /\ c.sock = "connected"
  BY <1>2, <1>5 DEF SessionInv, ClientTypes
<1>13. /\ ClientTypes(d) /\ SameClient(c, d, {"declared", "out", "delayedDeclare"})
       /\ d.delayedDeclare["queue"] = c.delayedDeclare["queue"]
  BY <1>5, <1>9, <1>12, MqDeclaredIs
<1>14. PICK v \in {u, Append(u, g)} :
         \/ /\ d.out = v
            /\ d.delayedDeclare["exchange"] \/ d.delayedDeclare = c.delayedDeclare
         \/ d.out = Append(v, f) /\ ~d.delayedDeclare["exchange"]
  <2>1. d = MqDeclared(QueueDeclareOk(c)) /\ u = Append(c.out, q)
    BY <1>5, <1>9, <1>12
  <2>2. \E v \in {u, Append(u, g)} :
           \/ /\ d.out = v
              /\ d.delayedDeclare["exchange"] \/ d.delayedDeclare = c.delayedDeclare
           \/ d.out = Append(v, f) /\ ~d.delayedDeclare["exchange"]
    BY <1>9, <1>12, <2>1, MqDeclaredIs, SMTT(60)
  <2> QED
    BY <2>2
<1>15. /\ d.sock = c.sock /\ d.messages = c.messages /\ d.timers = c.timers
       /\ d.delayedBindings = c.delayedBindings
  BY <1>13 DEF SameClient, ClientFields
<1>16. /\ Longer(s, u, {"Qos"}) /\ IsSeq(u)
       /\ \A x \in ToSet(u) : x \in ToSet(s) \/ AskOK(x)'
  <2>1. q.kind \in {"Qos"}
    BY <1>10
  <2> QED
    BY <1>9, <1>11, <1>12, <2>1, Sends
<1>17. /\ Longer(u, v, {"Consume"}) /\ IsSeq(v)
       /\ \A x \in ToSet(v) : x \in ToSet(u) \/ AskOK(x)'
  <2>1. g.kind \in {"Consume"}
    BY <1>10
  <2> QED
    BY <1>11, <1>14, <1>16, <2>1, Sends, LongerSame
<1>18. /\ Longer(v, d.out, {"ExchangeDeclare"})
       /\ \A x \in ToSet(d.out) : x \in ToSet(v) \/ AskOK(x)'
  <2>1. f.kind \in {"ExchangeDeclare"}
    BY <1>10
  <2> QED
    BY <1>11, <1>14, <1>17, <2>1, Sends, LongerSame
<1>19. \A x \in ToSet(client'.out) : x \in ToSet(client.out) \/ AskOK(x)'
  BY <1>5, <1>16, <1>17, <1>18
<1>20. \A kind : kind \notin {"Qos", "Consume", "ExchangeDeclare"} =>
          /\ kind \in Kinds(d.out) <=> kind \in Kinds(s)
          /\ Once(s, kind) => Once(d.out, kind)
  BY <1>16, <1>17, <1>18, LongerKinds
<1>21. Once(d.out, "Consume")
  <2>1. "Consume" \notin Kinds(u) /\ Once(s, "Consume")
    BY <1>5, <1>8, <1>16, LongerKinds DEF SessionInv, ConsumeInv
  <2>2. Once(u, "Consume")
    BY <1>16, <2>1, LongerKinds
  <2>3. Once(v, "Consume")
    <3>1. IsSeq(u) /\ g.kind = "Consume"
      BY <1>10, <1>16
    <3>2. Once(Append(u, g), "Consume")
      BY <2>1, <3>1, AppendKinds
    <3> QED
      BY <1>14, <2>2, <3>2
  <2> QED
    BY <1>18, <2>3, LongerKinds
<1>22. /\ Once(d.out, "ExchangeDeclare")
       /\ d.delayedDeclare["exchange"] => "ExchangeDeclare" \notin Kinds(d.out)
  <2>1. "ExchangeDeclare" \notin Kinds(v) /\ Once(v, "ExchangeDeclare")
    BY <1>5, <1>7, <1>16, <1>17, LongerKinds DEF Sent, SessionInv, BindInv
  <2>2. CASE d.out = v
    BY <2>1, <2>2
  <2>3. CASE d.out = Append(v, f) /\ ~d.delayedDeclare["exchange"]
    BY <1>10, <1>17, <2>1, <2>3, AppendKinds
  <2> QED
    BY <1>14, <2>2, <2>3
<1>23. DeclareInv'
  <2>1. "QueueDeclare" \notin Kinds(client'.out) /\ Once(client'.out, "QueueDeclare")
    BY <1>5, <1>6, <1>20 DEF SessionInv, DeclareInv
  <2>2. ~client'.delayedDeclare["queue"]
    BY <1>5, <1>6, <1>13
  <2> QED
    BY <1>4, <1>6, <2>1, <2>2 DEF DeclareInv
<1>24. BindInv'
  <2>1. "Bind" \notin Kinds(client'.out) /\ Once(client'.out, "Bind")
    BY <1>5, <1>7, <1>20 DEF SessionInv, BindInv, Bound
  <2>2. "ExchangeDeclareOk" \notin Kinds(broker'.out) /\ Once(broker'.out, "ExchangeDeclareOk")
    BY <1>3, <1>7 DEF Fewer, SessionInv, BindInv, Declared
  <2>3. ~ToDeclare' /\ ~Declared' /\ ~ToBind' /\ ~Bound' /\ (ToSend' => ~Sent')
    BY <1>5, <1>6, <1>7, <1>15, <1>22, <2>1, <2>2
       DEF ToDeclare, ToSend, Sent, Declared, ToBind, Bound
  <2> QED
    BY <1>5, <1>22, <2>1, <2>2, <2>3 DEF BindInv
<1>25. TimersInv'
  BY <1>1, <1>5, <1>7, <1>15, ReadTimers DEF Unread, BindPending
<1>26. Idle' /\ broker'.unacked = << >> /\ broker'.consumer = 0
  BY <1>3, <1>5, <1>8, <1>15, <1>20 DEF Idle, NoPieces, Fewer
<1>27. ConsumeInv'
  <2>1. Once(client'.out, "Ack")
    BY <1>5, <1>20 DEF SessionInv, ConsumeInv
  <2> QED
    BY <1>5, <1>6, <1>21, <1>26, <2>1 DEF ConsumeInv
<1>28. QosInv'
  <2>1. PICK n \in Nat : n = Len(s) /\ DOMAIN s = 1 .. n /\ DOMAIN u = 1 .. n + 1 /\ u[n + 1] = q
    BY <1>9, <1>12, AppendIsSeq
  <2>2. Longer(u, d.out, {"Consume", "ExchangeDeclare"})
    BY <1>17, <1>18 DEF Longer
  <2>3. PICK l \in Nat : DOMAIN d.out = 1 .. l
    BY <2>2, LenProperties DEF Longer, IsSeq
  <2>4. ASSUME NEW i \in DOMAIN d.out, d.out[i].kind = "Consume"
        PROVE  \E j \in DOMAIN d.out : j < i /\ d.out[j].kind = "Qos"
    <3>1. i \notin 1 .. n
      BY <1>8, <1>16, <2>1, <2>2, <2>4 DEF Longer, Kinds
    <3>2. n + 1 \in DOMAIN d.out /\ d.out[n + 1] = q
      BY <2>1, <2>2 DEF Longer
    <3>3. i # n + 1
      BY <1>10, <2>4, <3>2
    <3>4. n + 1 < i
      BY <2>3, <3>1, <3>3
    <3> QED
      BY <1>10, <3>2, <3>4
  <2> QED
    BY <1>5, <2>4 DEF QosInv
<1>29. "Ack" \notin Kinds(client'.out)
  BY <1>26 DEF Idle
<1>30. QED
  BY <1>1, <1>5, <1>13, <1>15, <1>19, <1>23, <1>24, <1>25, <1>27, <1>28, <1>29, ReadMore

-----------------------------------------------------------------------------
(* The daemon reads a delivery                                              *)

\* The first frame is of the delivery: it is read and the others are left.
LEMMA BlockRead ==
  ASSUME NEW s, IsSeq(s), s # << >>, Head(s).kind \in Pieces, NEW t, t = Tail(s),
         NEW m \in Msg, NEW tag, NEW o, NEW k, Block(s, o, k, m, tag)
  PROVE  /\ PieceOf(Head(s), m, tag, k + 1)
         /\ k + 1 < Length(m) => Block(t, 0, k + 1, m, tag)
         /\ k + 1 = Length(m) => \A i \in DOMAIN t : t[i].kind \notin Pieces
<1>1. /\ Len(s) \in Nat \ {0} /\ Len(t) = Len(s) - 1 /\ Head(s) = s[1]
      /\ DOMAIN t = 1 .. Len(s) - 1
      /\ \A i \in 1 .. Len(s) - 1 : t[i] = s[i + 1]
  BY ShorterStream, SMTT(60)
<1>2. PICK n \in Nat \ {0} : n = Len(s)
  BY <1>1
<1>3. PICK l \in Nat : l = Length(m)
  BY BodiesOf
<1>4. /\ o \in Nat /\ k \in 0 .. l - 1 /\ o + l - k <= n
      /\ o # 0 => k = 0
      /\ \A i \in 1 .. n :
            IF o < i /\ i <= o + l - k THEN PieceOf(s[i], m, tag, k + i - o)
            ELSE s[i].kind \notin Pieces
  BY <1>2, <1>3 DEF Block
<1>5. o = 0
  <2> SUFFICES ASSUME o # 0 PROVE FALSE
    OBVIOUS
  <2>1. 1 \in 1 .. n /\ ~(o < 1)
    BY <1>4
  <2>2. s[1].kind \notin Pieces
    BY <1>4, <2>1
  <2> QED
    BY <1>1, <2>2
<1>6. PieceOf(s[1], m, tag, k + 1)
  <2>1. 1 \in 1 .. n /\ o < 1 /\ 1 <= o + l - k /\ k + 1 - o = k + 1
    BY <1>4, <1>5
  <2> QED
    BY <1>4, <2>1
<1>7. ASSUME NEW i \in 1 .. n - 1
      PROVE  IF 0 < i /\ i <= 0 + l - (k + 1) THEN PieceOf(t[i], m, tag, k + 1 + i - 0)
             ELSE t[i].kind \notin Pieces
  <2>1. /\ i + 1 \in 1 .. n /\ t[i] = s[i + 1] /\ k + 1 + i - 0 = k + (i + 1) - o
        /\ (0 < i /\ i <= 0 + l - (k + 1)) <=> (o < i + 1 /\ i + 1 <= o + l - k)
    BY <1>1, <1>2, <1>4, <1>5
  <2>2. IF o < i + 1 /\ i + 1 <= o + l - k THEN PieceOf(s[i + 1], m, tag, k + (i + 1) - o)
        ELSE s[i + 1].kind \notin Pieces
    BY <1>4, <2>1
  <2> QED
    BY <2>1, <2>2
<1>8. ASSUME k + 1 < l PROVE Block(t, 0, k + 1, m, tag)
  <2>1. 0 \in Nat /\ k + 1 \in 0 .. l - 1 /\ 0 + l - (k + 1) <= n - 1
    BY <1>4, <1>5, <1>8
  <2>2. Len(t) = n - 1
    BY <1>1, <1>2
  <2> QED
    BY <1>3, <1>7, <2>1, <2>2 DEF Block
<1>9. ASSUME k + 1 = l, NEW i \in 1 .. n - 1 PROVE t[i].kind \notin Pieces
  <2>1. ~(0 < i /\ i <= 0 + l - (k + 1))
    BY <1>9
  <2> QED
    BY <1>7, <2>1
<1>10. QED
  BY <1>1, <1>2, <1>3, <1>6, <1>8, <1>9

\* What is read of a delivery, and what is left.
LEMMA PieceFirst ==
  ASSUME SessionInv, NEW kinds, ReadFrame(kinds), kinds \subseteq Pieces,
         NEW f, f = Head(broker.out)
  PROVE  /\ f.kind \in kinds /\ QueueUp /\ "Ack" \notin Kinds(client.out)
         /\ \E m \in Msg, tag \in Nat : \E k \in 0 .. Length(m) - 1 :
               /\ PieceOf(f, m, tag, k + 1)
               /\ client.messages = << >> \/ Held(client.messages, k, m, tag)
               /\ ToSet(broker.unacked) \subseteq {[tag |-> tag, msg |-> m]}
               /\ k + 1 < Length(m) => Block(broker'.out, 0, k + 1, m, tag)
               /\ k + 1 = Length(m) => NoPieces'
<1>1. /\ f.kind \in kinds /\ AnswerOK(f) /\ IsSeq(broker.out) /\ broker.out # << >>
      /\ broker'.out = Tail(broker.out) /\ f.kind \in Kinds(broker.out)
  BY ReadIs
<1>2. f.kind \in Pieces /\ ~NoPieces
  BY <1>1 DEF NoPieces
<1>3. QueueUp
  BY <1>1, <1>2 DEF AnswerOK
<1>4. Delivering
  BY <1>2 DEF SessionInv, DeliveryInv
<1>5. PICK m \in Msg, tag \in Nat, o \in 0 .. Len(broker.out) : \E k \in 0 .. Length(m) - 1 :
         /\ Block(broker.out, o, k, m, tag)
         /\ client.messages = << >> \/ Held(client.messages, k, m, tag)
         /\ ToSet(broker.unacked) \subseteq {[tag |-> tag, msg |-> m]}
         /\ "Ack" \notin Kinds(client.out)
  BY <1>4 DEF Delivering
<1>6. PICK k \in 0 .. Length(m) - 1 :
         /\ Block(broker.out, o, k, m, tag)
         /\ client.messages = << >> \/ Held(client.messages, k, m, tag)
         /\ ToSet(broker.unacked) \subseteq {[tag |-> tag, msg |-> m]}
         /\ "Ack" \notin Kinds(client.out)
  BY <1>5
<1> HIDE DEF Block, Held, PieceOf
<1>7. PICK t : t = broker'.out
  OBVIOUS
<1>8. /\ PieceOf(f, m, tag, k + 1)
      /\ k + 1 < Length(m) => Block(t, 0, k + 1, m, tag)
      /\ k + 1 = Length(m) => \A i \in DOMAIN t : t[i].kind \notin Pieces
  <2>1. Head(broker.out).kind \in Pieces /\ t = Tail(broker.out) /\ Block(broker.out, o, k, m, tag)
    BY <1>1, <1>2, <1>6, <1>7
  <2> QED
    BY <1>1, <2>1, BlockRead
<1>9. k + 1 = Length(m) => NoPieces'
  BY <1>7, <1>8 DEF NoPieces, Kinds
<1>10. QED
  BY <1>1, <1>3, <1>6, <1>7, <1>8, <1>9

\* A delivery of which a frame was read, and more are to come.
LEMMA StillDelivering ==
  ASSUME NEW m \in Msg, NEW tag \in Nat, NEW k \in 0 .. Length(m) - 1, IsSeq(broker'.out),
         Block(broker'.out, 0, k, m, tag),
         client'.messages = << >> \/ Held(client'.messages, k, m, tag),
         ToSet(broker'.unacked) \subseteq {[tag |-> tag, msg |-> m]},
         "Ack" \notin Kinds(client'.out)
  PROVE  DeliveryInv'
<1>1. 0 \in 0 .. Len(broker'.out)
  BY LenProperties DEF IsSeq
<1> HIDE DEF Block, Held
<1>2. Delivering'
  BY <1>1 DEF Delivering
<1>3. QED
  BY <1>2 DEF DeliveryInv

LEMMA PieceRead ==
  ASSUME SessionInv, NEW kinds, ReadFrame(kinds), kinds \subseteq Pieces,
         UNCHANGED << app, proc, output, faults, published >>, UNCHANGED Counted,
         ClientTypes(client'), SameClient(client, client', {"messages", "out"}),
         Longer(client.out, client'.out, {"Ack"}), Once(client'.out, "Ack"),
         \A f \in ToSet(client'.out) : f \in ToSet(client.out) \/ AskOK(f)',
         \A m : Stored(m) => Stored(m)', DeliveryInv'
  PROVE  SessionInv'
<1>1. /\ client'.sock = client.sock /\ client'.delayedDeclare = client.delayedDeclare
      /\ client'.delayedBindings = client.delayedBindings /\ client'.timers = client.timers
  BY DEF SameClient, ClientFields
<1>2. /\ broker'.closed = broker.closed /\ broker'.unacked = broker.unacked
      /\ broker'.consumer = broker.consumer /\ broker'.prefetch = broker.prefetch
      /\ Closing' = Closing
      /\ \A L : Fewer(broker.out, broker'.out, L)
  BY ReadBroker
<1>3. ~Idle
  <2>1. PICK f : f = Head(broker.out)
    OBVIOUS
  <2>2. f.kind \in kinds /\ f.kind \in Kinds(broker.out)
    BY <2>1, ReadIs
  <2> QED
    BY <2>2 DEF Idle, NoPieces
<1>4. /\ Fewer(client.out, client'.out, {"QueueDeclare"})
      /\ Fewer(client.out, client'.out, {"ExchangeDeclare", "Bind"})
      /\ Fewer(client.out, client'.out, {"Consume"})
  BY FewerKinds
<1>5. SocketInv' /\ FramesInv' /\ AckedIsStored' /\ BrokerTypes(broker)'
  BY <1>1, ReadRest
<1>6. DeclareInv'
  BY <1>1, <1>2, <1>4, DeclareKept DEF SessionInv, Counted
<1>7. BindInv' /\ (BindPending' => BindPending)
  BY <1>1, <1>2, <1>4, BindKept DEF SessionInv, Counted
<1>8. TimersInv'
  BY <1>1, <1>7, ReadTimers
<1>9. ConsumeInv'
  <2>1. subscribed # 0 /\ "Consume" \notin Kinds(client.out)
    BY <1>3 DEF SessionInv, ConsumeInv
  <2>2. subscribed' = subscribed /\ "Consume" \notin Kinds(client'.out) /\ Once(client'.out, "Consume")
    BY <1>4, <2>1 DEF Fewer, SessionInv, ConsumeInv, Counted
  <2>3. broker.consumer # 0 =>
           broker.consumer = 1 /\ subscribed = 1 /\ broker.prefetch = 1 /\ broker.unacked # << >>
    BY <1>3 DEF SessionInv, ConsumeInv
  <2> QED
    BY <1>2, <2>1, <2>2, <2>3 DEF ConsumeInv
<1>10. QosInv'
  BY <1>2, QosKept DEF SessionInv
<1>11. (published \subseteq Msg)'
  BY DEF SessionInv
<1>12. QED
  BY <1>5, <1>6, <1>7, <1>8, <1>9, <1>10, <1>11 DEF SessionInv

LEMMA HeldOne ==
  ASSUME NEW messages, NEW k, NEW m, NEW tag, Held(messages, k, m, tag)
  PROVE  /\ k # 0 /\ messages # << >> /\ IsSeq(messages) /\ Len(messages) = 1
         /\ messages[1] = [tag |-> tag, left |-> Left(m, k), payload |-> [i \in 1 .. k - 2 |-> m]]
<1>1. PICK x : x = [tag |-> tag, left |-> Left(m, k), payload |-> [i \in 1 .. k - 2 |-> m]]
  OBVIOUS
<1>2. messages = << x >> /\ k # 0
  BY <1>1 DEF Held
<1>3. << x >> # << >> /\ IsSeq(<< x >>) /\ Len(<< x >>) = 1 /\ << x >>[1] = x
  BY ElementsOfOne
<1>4. QED
  BY <1>1, <1>2, <1>3

LEMMA DeliverIs ==
  ASSUME NEW c, ClientTypes(c), c.messages = << >>, NEW f, NEW d, d = QueueDeliver(c, f)
  PROVE  /\ ClientTypes(d) /\ SameClient(c, d, {"messages"})
         /\ d.messages \in {<< >>, << [tag |-> f.n, left |-> 0, payload |-> << >>] >>}
<1>1. PICK x : x = [tag |-> f.n, left |-> 0, payload |-> << >>]
  OBVIOUS
<1>2. CASE f.tag # c.consumerTag
  <2>1. d = c
    BY <1>2 DEF QueueDeliver
  <2> QED
    BY <2>1 DEF SameClient
<1>3. CASE f.tag = c.consumerTag
  <2>1. d = [c EXCEPT !.messages = Append(@, x)] /\ DOMAIN c = ClientFields
    BY <1>1, <1>3 DEF QueueDeliver, ClientTypes
  <2>2. /\ DOMAIN d = ClientFields /\ SameClient(c, d, {"messages"})
        /\ d.messages = Append(c.messages, x)
    BY <2>1 DEF SameClient, ClientFields
  <2>3. Append(<< >>, x) = << x >>
    OBVIOUS
  <2>4. ClientTypes(d)
    BY <2>2, TypesOfSame
  <2> QED
    BY <1>1, <2>2, <2>3, <2>4
<1>4. QED
  BY <1>2, <1>3

LEMMA ContentIs ==
  ASSUME NEW c, ClientTypes(c), NEW tag, NEW left, NEW payload,
         c.messages = << [tag |-> tag, left |-> left, payload |-> payload] >>,
         NEW f, NEW d, d = QueueContent(c, f)
  PROVE  /\ ClientTypes(d) /\ SameClient(c, d, {"messages"})
         /\ d.messages = << [tag |-> tag, left |-> f.n, payload |-> payload] >>
<1>1. PICK x, y : /\ x = [tag |-> tag, left |-> left, payload |-> payload]
                  /\ y = [tag |-> tag, left |-> f.n, payload |-> payload]
  OBVIOUS
<1>2. y = [x EXCEPT !.left = f.n]
  BY <1>1
<1>3. c.messages = << x >> /\ Len(<< x >>) = 1 /\ << x >> # << >>
  BY <1>1, ElementsOfOne
<1>4. d = [c EXCEPT !.messages[1].left = f.n] /\ DOMAIN c = ClientFields
  BY <1>3 DEF QueueContent, ClientTypes
<1>5. /\ DOMAIN d = ClientFields /\ SameClient(c, d, {"messages"})
      /\ d.messages = [c.messages EXCEPT ![1].left = f.n]
  BY <1>4 DEF SameClient, ClientFields
<1>6. d.messages = << y >>
  BY <1>2, <1>3, <1>5
<1>7. ClientTypes(d)
  BY <1>5, TypesOfSame
<1>8. QED
  BY <1>1, <1>5, <1>6, <1>7

LEMMA TakeBodyIs ==
  ASSUME NEW tag, NEW left, NEW payload, NEW f
  PROVE  TakeBody([tag |-> tag, left |-> left, payload |-> payload], f) =
            [tag |-> tag, left |-> left - f.n, payload |-> Append(payload, f.msg)]
<1>1. PICK x, l, p : /\ x = [tag |-> tag, left |-> left, payload |-> payload]
                     /\ l = left - f.n /\ p = Append(payload, f.msg)
  OBVIOUS
<1>2. PICK z : z = [x EXCEPT !.left = l]
  OBVIOUS
<1>3. z = [tag |-> tag, left |-> l, payload |-> payload]
  BY <1>1, <1>2
<1>4. [z EXCEPT !.payload = p] = [tag |-> tag, left |-> l, payload |-> p]
  BY <1>3
<1>5. x.left - f.n = l /\ Append(x.payload, f.msg) = p
  BY <1>1
<1>6. TakeBody(x, f) = [z EXCEPT !.payload = p]
  BY <1>2, <1>5 DEF TakeBody
<1>7. QED
  BY <1>1, <1>4, <1>6

LEMMA BodyIs ==
  ASSUME NEW c, ClientTypes(c), NEW tag, NEW left, NEW payload,
         c.messages = << [tag |-> tag, left |-> left, payload |-> payload] >>,
         NEW f, NEW d, d = QueueBody(c, f)
  PROVE  /\ ClientTypes(d) /\ SameClient(c, d, {"messages"})
         /\ d.messages = << [tag |-> tag, left |-> left - f.n, payload |-> Append(payload, f.msg)] >>
<1>1. PICK x, y : /\ x = [tag |-> tag, left |-> left, payload |-> payload]
                  /\ y = [tag |-> tag, left |-> left - f.n, payload |-> Append(payload, f.msg)]
  OBVIOUS
<1>2. y = TakeBody(x, f)
  BY <1>1, TakeBodyIs
<1>3. c.messages = << x >> /\ Len(<< x >>) = 1 /\ << x >> # << >>
  BY <1>1, ElementsOfOne
<1>4. d = [c EXCEPT !.messages[1] = TakeBody(@, f)] /\ DOMAIN c = ClientFields
  BY <1>3 DEF QueueBody, ClientTypes
<1>5. /\ DOMAIN d = ClientFields /\ SameClient(c, d, {"messages"})
      /\ d.messages = [c.messages EXCEPT ![1] = TakeBody(@, f)]
  BY <1>4 DEF SameClient, ClientFields
<1>6. d.messages = << y >>
  BY <1>2, <1>3, <1>5
<1>7. ClientTypes(d)
  BY <1>5, TypesOfSame
<1>8. QED
  BY <1>1, <1>5, <1>6, <1>7

LEMMA AppendSame ==
  ASSUME NEW n \in Nat, NEW m
  PROVE  Append([i \in 1 .. n |-> m], m) = [i \in 1 .. n + 1 |-> m]
<1>1. PICK s : s = [i \in 1 .. n |-> m]
  OBVIOUS
<1>2. s \in [1 .. n -> {m}] /\ m \in {m}
  BY <1>1
<1>3. s \in Seq({m}) /\ Len(s) = n
  BY <1>2, FunctionIsSeq
<1>4. PICK t : t = Append(s, m)
  OBVIOUS
<1>5. t \in Seq({m}) /\ Len(t) = n + 1
  BY <1>3, <1>4
<1>6. t \in [1 .. n + 1 -> {m}]
  BY <1>5, LenProperties
<1>7. QED
  BY <1>1, <1>4, <1>6

\* Nothing is written: what is stored stays so.
LEMMA StoredSame == data' = data => \A m : Stored(m) => Stored(m)'
BY DEF Stored

LEMMA DeliverRead ==
  ASSUME SessionInv, ReadFrame({"Deliver"}), client' = QueueDeliver(client, Head(broker.out)),
         UNCHANGED Unread, UNCHANGED Counted
  PROVE  SessionInv'
<1> DEFINE R == {"Deliver"}
<1>1. R \subseteq Pieces /\ ReadFrame(R)
  BY DEF Pieces
<1>2. PICK f, c, d : f = Head(broker.out) /\ c = client /\ d = client'
  OBVIOUS
<1>3. f.kind \in R /\ "Ack" \notin Kinds(client.out)
  BY <1>1, <1>2, PieceFirst
<1>4. PICK m \in Msg, tag \in Nat : \E k \in 0 .. Length(m) - 1 :
         /\ PieceOf(f, m, tag, k + 1)
         /\ client.messages = << >> \/ Held(client.messages, k, m, tag)
         /\ ToSet(broker.unacked) \subseteq {[tag |-> tag, msg |-> m]}
         /\ k + 1 < Length(m) => Block(broker'.out, 0, k + 1, m, tag)
         /\ k + 1 = Length(m) => NoPieces'
  BY <1>1, <1>2, PieceFirst
<1>5. PICK k \in 0 .. Length(m) - 1 :
         /\ PieceOf(f, m, tag, k + 1)
         /\ client.messages = << >> \/ Held(client.messages, k, m, tag)
         /\ ToSet(broker.unacked) \subseteq {[tag |-> tag, msg |-> m]}
         /\ k + 1 < Length(m) => Block(broker'.out, 0, k + 1, m, tag)
         /\ k + 1 = Length(m) => NoPieces'
  BY <1>4
<1>6. k = 0 /\ f.n = tag /\ Length(m) \in Nat /\ Length(m) >= 2
  <2>1. Length(m) \in Nat /\ Length(m) >= 2
    BY BodiesOf
  <2> QED
    BY <1>3, <1>5, <2>1 DEF PieceOf
<1>7. c.messages = << >> /\ ClientTypes(c) /\ d = QueueDeliver(c, f)
  BY <1>2, <1>5, <1>6 DEF Held, SessionInv
<1>8. /\ ClientTypes(d) /\ SameClient(c, d, {"messages"})
      /\ d.messages \in {<< >>, << [tag |-> tag, left |-> 0, payload |-> << >>] >>}
  BY <1>6, <1>7, DeliverIs
<1>9. d.messages = << >> \/ Held(d.messages, 1, m, tag)
  <2>1. [i \in 1 .. 1 - 2 |-> m] = << >>
    OBVIOUS
  <2> QED
    BY <1>8, <2>1 DEF Held, Left
<1>10. /\ SameClient(client, client', {"messages", "out"}) /\ client'.out = client.out
       /\ ClientTypes(client')
  BY <1>2, <1>8 DEF SameClient, ClientFields
<1>11. IsSeq(client.out) /\ broker'.unacked = broker.unacked /\ IsSeq(broker'.out)
  <2>1. broker'.unacked = broker.unacked
    BY <1>1, ReadBroker
  <2>2. BrokerTypes(broker')
    BY <1>1, <1>2, ReadIs
  <2> QED
    BY <2>1, <2>2 DEF SessionInv, ClientTypes, BrokerTypes
<1>12. DeliveryInv'
  <2>1. 1 \in 0 .. Length(m) - 1 /\ Block(broker'.out, 0, 1, m, tag)
    BY <1>5, <1>6
  <2> QED
    BY <1>2, <1>3, <1>5, <1>9, <1>10, <1>11, <2>1, StillDelivering
<1>13. Longer(client.out, client'.out, {"Ack"}) /\ Once(client'.out, "Ack")
  BY <1>10, <1>11, LongerSame DEF SessionInv, ConsumeInv
<1>14. \A x \in ToSet(client'.out) : x \in ToSet(client.out)
  BY <1>10
<1>15. \A x : Stored(x) => Stored(x)'
  BY StoredSame DEF Unread
<1>16. QED
  BY <1>1, <1>10, <1>12, <1>13, <1>14, <1>15, PieceRead DEF Unread

\* A delivery of which the last frame was read.
LEMMA DeliveryEnd ==
  ASSUME NEW m, NEW tag, NEW k, NoPieces',
         client'.messages = << >> \/ Held(client'.messages, k, m, tag), Left(m, k) \in Nat,
         "Ack" \notin Kinds(client'.out) \/ client'.messages = << >>
  PROVE  DeliveryInv'
<1>1. PICK s : s = client'.messages
  OBVIOUS
<1>2. CASE s = << >>
  <2>1. IsSeq(s) /\ Len(s) = 0
    BY <1>2, EmptyStream
  <2>2. DOMAIN s = 1 .. 0
    BY <2>1, LenProperties DEF IsSeq
  <2> QED
    BY <1>1, <1>2, <2>1, <2>2 DEF DeliveryInv
<1>3. CASE s # << >>
  <2>1. IsSeq(s) /\ Len(s) = 1 /\ s[1].left = Left(m, k)
    <3>1. Held(s, k, m, tag)
      BY <1>1, <1>3
    <3>2. s[1] = [tag |-> tag, left |-> Left(m, k), payload |-> [i \in 1 .. k - 2 |-> m]]
      BY <3>1, HeldOne
    <3> QED
      BY <3>1, <3>2, HeldOne
  <2>2. DOMAIN s = 1 .. 1
    BY <2>1, LenProperties DEF IsSeq
  <2>3. \A i \in DOMAIN s : s[i].left \in Nat
    BY <2>1, <2>2
  <2> QED
    BY <1>1, <1>3, <2>1, <2>3 DEF DeliveryInv
<1>4. QED
  BY <1>2, <1>3

LEMMA ContentRead ==
  ASSUME SessionInv, ReadFrame({"Content"}), client' = QueueContent(client, Head(broker.out)),
         UNCHANGED Unread, UNCHANGED Counted
  PROVE  SessionInv'
<1> DEFINE R == {"Content"}
<1>1. R \subseteq Pieces /\ ReadFrame(R)
  BY DEF Pieces
<1>2. PICK f, c, d : f = Head(broker.out) /\ c = client /\ d = client'
  OBVIOUS
<1>3. f.kind \in R /\ "Ack" \notin Kinds(client.out)
  BY <1>1, <1>2, PieceFirst
<1>4. PICK m \in Msg, tag \in Nat : \E k \in 0 .. Length(m) - 1 :
         /\ PieceOf(f, m, tag, k + 1)
         /\ client.messages = << >> \/ Held(client.messages, k, m, tag)
         /\ ToSet(broker.unacked) \subseteq {[tag |-> tag, msg |-> m]}
         /\ k + 1 < Length(m) => Block(broker'.out, 0, k + 1, m, tag)
         /\ k + 1 = Length(m) => NoPieces'
  BY <1>1, <1>2, PieceFirst
<1>5. PICK k \in 0 .. Length(m) - 1 :
         /\ PieceOf(f, m, tag, k + 1)
         /\ client.messages = << >> \/ Held(client.messages, k, m, tag)
         /\ ToSet(broker.unacked) \subseteq {[tag |-> tag, msg |-> m]}
         /\ k + 1 < Length(m) => Block(broker'.out, 0, k + 1, m, tag)
         /\ k + 1 = Length(m) => NoPieces'
  BY <1>4
<1>6. k = 1 /\ f.n = Size[m] /\ Length(m) \in Nat /\ Length(m) >= 2 /\ Size[m] \in Nat
  <2>1. Length(m) \in Nat /\ Length(m) >= 2 /\ Size[m] \in Nat
    BY BodiesOf
  <2> QED
    BY <1>3, <1>5, <2>1 DEF PieceOf
<1>7. ClientTypes(c) /\ d = QueueContent(c, f)
  BY <1>2 DEF SessionInv
<1>8. /\ ClientTypes(d) /\ SameClient(c, d, {"messages"})
      /\ d.messages = << >> \/ Held(d.messages, 2, m, tag)
  <2>1. CASE c.messages = << >>
    <3>1. d = c
      BY <1>7, <2>1 DEF QueueContent
    <3> QED
      BY <1>7, <2>1, <3>1 DEF SameClient
  <2>2. CASE c.messages # << >>
    <3>1. Held(c.messages, 1, m, tag)
      BY <1>2, <1>5, <1>6, <2>2
    <3>2. PICK p : p = [i \in 1 .. 1 - 2 |-> m]
      OBVIOUS
    <3>3. c.messages = << [tag |-> tag, left |-> Left(m, 1), payload |-> p] >>
      BY <3>1, <3>2 DEF Held
    <3>4. /\ ClientTypes(d) /\ SameClient(c, d, {"messages"})
          /\ d.messages = << [tag |-> tag, left |-> f.n, payload |-> p] >>
      BY <1>7, <3>3, ContentIs
    <3>5. p = [i \in 1 .. 2 - 2 |-> m]
      BY <3>2
    <3>6. f.n = Left(m, 2)
      <4>1. PICK a \in Nat, b \in Nat : a = Size[m] /\ b = FrameMax
        BY <1>6, BodiesOf
      <4>2. a - b * (2 - 2) = a
        OBVIOUS
      <4> QED
        BY <1>6, <4>1, <4>2 DEF Left
    <3> QED
      BY <3>4, <3>5, <3>6 DEF Held
  <2> QED
    BY <2>1, <2>2
<1>9. /\ SameClient(client, client', {"messages", "out"}) /\ client'.out = client.out
      /\ ClientTypes(client')
  BY <1>2, <1>8 DEF SameClient, ClientFields
<1>10. IsSeq(client.out) /\ broker'.unacked = broker.unacked /\ IsSeq(broker'.out)
  <2>1. broker'.unacked = broker.unacked
    BY <1>1, ReadBroker
  <2>2. BrokerTypes(broker')
    BY <1>1, <1>2, ReadIs
  <2> QED
    BY <2>1, <2>2 DEF SessionInv, ClientTypes, BrokerTypes
<1>11. "Ack" \notin Kinds(client'.out)
  BY <1>3, <1>9
<1>12. DeliveryInv'
  <2>1. CASE Length(m) > 2
    <3>1. 2 \in 0 .. Length(m) - 1 /\ Block(broker'.out, 0, 2, m, tag)
      BY <1>5, <1>6, <2>1
    <3> QED
      BY <1>2, <1>5, <1>8, <1>10, <1>11, <3>1, StillDelivering
  <2>2. CASE Length(m) = 2
    <3>1. NoPieces'
      BY <1>5, <1>6, <2>2
    <3>2. Left(m, 2) \in Nat
      <4>1. PICK a \in Nat, b \in Nat : a = Size[m] /\ b = FrameMax
        BY <1>6, BodiesOf
      <4>2. a - b * (2 - 2) = a
        OBVIOUS
      <4> QED
        BY <4>1, <4>2 DEF Left
    <3>3. client'.messages = << >> \/ Held(client'.messages, 2, m, tag)
      BY <1>2, <1>8
    <3> QED
      BY <1>11, <3>1, <3>2, <3>3, DeliveryEnd
  <2> QED
    BY <1>6, <2>1, <2>2
<1>13. Longer(client.out, client'.out, {"Ack"}) /\ Once(client'.out, "Ack")
  BY <1>9, <1>10, LongerSame DEF SessionInv, ConsumeInv
<1>14. \A x \in ToSet(client'.out) : x \in ToSet(client.out)
  BY <1>9
<1>15. \A x : Stored(x) => Stored(x)'
  BY StoredSame DEF Unread
<1>16. QED
  BY <1>1, <1>9, <1>12, <1>13, <1>14, <1>15, PieceRead DEF Unread

\* How much is left of a message when its next body frame is taken.
LEMMA BodyLeft ==
  ASSUME NEW m \in Msg, NEW k \in 2 .. Length(m) - 1
  PROVE  /\ k + 1 < Length(m) =>
               /\ Left(m, k) - BodySize(m, k - 1) = Left(m, k + 1)
               /\ Left(m, k + 1) \in Nat \ {0}
         /\ k + 1 = Length(m) => Left(m, k) - BodySize(m, k - 1) = 0
<1>1. PICK a \in Nat, b \in Nat \ {0}, n \in Nat : a = Size[m] /\ b = FrameMax /\ n = Bodies(m)
  BY BodiesOf
<1>2. Length(m) = n + 2 /\ k \in 2 .. n + 1 /\ k \in Int
  BY <1>1, BodiesOf
<1>3. n # 0 /\ b * (n - 1) < a
  BY <1>1, <1>2, BodiesOf
<1>4. Left(m, k) = a - b * (k - 2) /\ Left(m, k + 1) = a - b * (k - 1)
  BY <1>1, <1>2 DEF Left
<1>5. BodySize(m, k - 1) = IF k - 1 < n THEN b ELSE a - b * (n - 1)
  BY <1>1 DEF BodySize
<1>6. b * (k - 2) + b = b * (k - 1) /\ b * (k - 2) \in Int /\ b * (k - 1) \in Int
  BY <1>2
<1>7. ASSUME k - 1 < n
      PROVE  a - b * (k - 2) - b = a - b * (k - 1) /\ a - b * (k - 1) \in Nat \ {0}
  <2>1. b * (k - 1) <= b * (n - 1) /\ b * (n - 1) \in Int
    BY <1>2, <1>7
  <2> QED
    BY <1>3, <1>6, <2>1
<1>8. ASSUME k - 1 = n
      PROVE  a - b * (k - 2) - (a - b * (n - 1)) = 0
  <2>1. k - 2 = n - 1
    BY <1>2, <1>8
  <2>2. b * (n - 1) \in Int
    OBVIOUS
  <2> QED
    BY <2>1, <2>2
<1>9. QED
  BY <1>2, <1>4, <1>5, <1>7, <1>8

\* The frames a message is published with.
LEMMA PublishIs ==
  ASSUME NEW m \in Msg
  PROVE  /\ Len(Publish(m)) = Length(m)
         /\ Publish(m)[2] = Frame("exchange", "Content", Size[m], 0, m)
         /\ \A i \in 1 .. Bodies(m) :
               Publish(m)[i + 2] = Frame("exchange", "Body", BodySize(m, i), 0, m)
<1>1. PICK n \in Nat : n = Bodies(m) /\ Length(m) = n + 2
  BY BodiesOf
<1>2. PICK a, b : /\ a = Frame("exchange", "Publish", 0, 0, m)
                  /\ b = Frame("exchange", "Content", Size[m], 0, m)
  OBVIOUS
<1>3. PICK t : t = [i \in 1 .. n |-> Frame("exchange", "Body", BodySize(m, i), 0, m)]
  OBVIOUS
<1> DEFINE S == {a, b} \cup {t[i] : i \in 1 .. n}
<1>4. t \in [1 .. n -> S]
  BY <1>3
<1>5. a \in S /\ b \in S
  OBVIOUS
<1> HIDE DEF S
<1>6. t \in Seq(S) /\ Len(t) = n
  BY <1>4, FunctionIsSeq
<1>7. PICK s : s = << a, b >>
  OBVIOUS
<1>8. s \in Seq(S) /\ Len(s) = 2 /\ s[2] = b
  BY <1>5, <1>7
<1>9. PICK p : p = s \o t
  OBVIOUS
<1>10. Len(p) = n + 2 /\ p[2] = b /\ \A i \in 1 .. n : p[i + 2] = t[i]
  <2>1. Len(p) = 2 + n /\ \A i \in 1 .. 2 + n : p[i] = IF i <= 2 THEN s[i] ELSE t[i - 2]
    <3>1. Len(s \o t) = Len(s) + Len(t)
      BY <1>6, <1>8, ConcatProperties
    <3>2. \A i \in 1 .. Len(s) + Len(t) :
             (s \o t)[i] = IF i <= Len(s) THEN s[i] ELSE t[i - Len(s)]
      BY <1>6, <1>8, ConcatProperties
    <3> QED
      BY <1>6, <1>8, <1>9, <3>1, <3>2
  <2>2. 2 \in 1 .. 2 + n /\ \A i \in 1 .. n : i + 2 \in 1 .. 2 + n /\ ~(i + 2 <= 2) /\ (i + 2) - 2 = i
    BY <1>1
  <2> QED
    BY <1>1, <1>8, <2>1, <2>2
<1>11. Publish(m) = p
  <2>1. \A i \in 1 .. n : BodySize(m, i) = IF i < n THEN FrameMax ELSE Size[m] - FrameMax * (n - 1)
    BY <1>1 DEF BodySize
  <2>2. t = [i \in 1 .. n |-> Frame("exchange", "Body",
                IF i < n THEN FrameMax ELSE Size[m] - FrameMax * (n - 1), 0, m)]
    BY <1>3, <2>1
  <2>3. n = (Size[m] + FrameMax - 1) \div FrameMax
    BY <1>1 DEF Bodies
  <2> QED
    BY <1>2, <1>7, <1>9, <2>2, <2>3 DEF Publish
<1>12. QED
  BY <1>1, <1>2, <1>3, <1>10, <1>11

LEMMA PartsIs ==
  ASSUME NEW m \in Msg
  PROVE  Parts(m) = [i \in 1 .. Bodies(m) |-> m]
<1>1. Len(Publish(m)) = Bodies(m) + 2 /\ Bodies(m) \in Nat
  BY PublishIs, BodiesOf
<1>2. Len(Publish(m)) - 2 = Bodies(m)
  BY <1>1
<1>3. QED
  BY <1>2 DEF Parts

\* An entry is written: what was stored stays so.
LEMMA StoredWritten ==
  ASSUME FilesInv, output # 0, NEW e, data' = [data EXCEPT ![output] = Append(@, e)]
  PROVE  /\ \A m : Stored(m) => Stored(m)'
         /\ \A m : e = Message(Parts(m)) => Stored(m)'
<1>1. PICK s : s = data[output]
  OBVIOUS
<1>2. IsSeq(s)
  <2>1. Len(data) \in Nat /\ DOMAIN data = 1 .. Len(data)
    BY LenProperties DEF FilesInv, IsSeq
  <2>2. output \in DOMAIN data
    BY <2>1 DEF FilesInv
  <2> QED
    BY <1>1, <2>2 DEF FilesInv
<1>3. PICK t : t = Append(s, e)
  OBVIOUS
<1>4. IsSeq(t) /\ ToSet(t) = ToSet(s) \cup {e}
  BY <1>2, <1>3, ElementsOfAppend
<1>5. data' = [data EXCEPT ![output] = t]
  BY <1>1, <1>3
<1>6. /\ DOMAIN data' = DOMAIN data /\ output \in DOMAIN data /\ data'[output] = t
      /\ \A i \in DOMAIN data : i # output => data'[i] = data[i]
  BY <1>4, <1>5, FileWritten
<1>7. ASSUME NEW m, Stored(m) PROVE Stored(m)'
  <2>1. PICK i \in DOMAIN data : Message(Parts(m)) \in ToSet(data[i])
    BY <1>7 DEF Stored
  <2>2. Message(Parts(m)) \in ToSet(data'[i])
    BY <1>1, <1>4, <1>6, <2>1
  <2> QED
    BY <1>6, <2>2 DEF Stored
<1>8. ASSUME NEW m, e = Message(Parts(m)) PROVE Stored(m)'
  <2>1. Message(Parts(m)) \in ToSet(data'[output])
    BY <1>4, <1>6, <1>8
  <2> QED
    BY <1>6, <2>1 DEF Stored
<1>9. QED
  BY <1>7, <1>8

\* mq_messageReceived() without the write: take the message, acknowledge it.
LEMMA ReceivedIs ==
  ASSUME NEW c, ClientTypes(c), c.sock = "connected", NEW x, c.messages = << x >>,
         NEW a, a = Frame("queue", "Ack", x.tag, 0, NoMsg), NEW d, d = MqMessageReceived(c)
  PROVE  /\ ClientTypes(d) /\ SameClient(c, d, {"messages", "out"}) /\ d.messages = << >>
         /\ d.out \in {c.out, Append(c.out, a)}
<1>1. PICK g : g = [c EXCEPT !.messages = Tail(@)]
  OBVIOUS
<1>2. Tail(<< x >>) = << >> /\ << x >>[1] = x
  OBVIOUS
<1>3. DOMAIN g = ClientFields /\ SameClient(c, g, {"messages"}) /\ g.messages = << >>
  <2>1. DOMAIN c = ClientFields
    BY DEF ClientTypes
  <2> QED
    BY <1>1, <1>2, <2>1 DEF SameClient, ClientFields
<1>4. ClientTypes(g)
  BY <1>3, TypesOfSame
<1>5. d = IF ~g.opened["queue"] THEN g ELSE SendFrame(g, a)
  BY <1>1, <1>2 DEF MqMessageReceived, GetMessage, QueueAck
<1>6. g.sock = "connected" /\ g.out = c.out
  BY <1>3 DEF SameClient, ClientFields
<1>7. CASE ~g.opened["queue"]
  <2>1. d = g
    BY <1>5, <1>7
  <2> QED
    BY <1>3, <1>4, <1>6, <2>1 DEF SameClient
<1>8. CASE g.opened["queue"]
  <2>1. d = SendFrame(g, a)
    BY <1>5, <1>8
  <2>2. ClientTypes(d) /\ SameClient(g, d, {"out"}) /\ d.out = Append(g.out, a)
    BY <1>4, <1>6, <2>1, SendIs
  <2>3. SameClient(c, d, {"messages", "out"}) /\ d.messages = g.messages
    BY <1>3, <2>2 DEF SameClient, ClientFields
  <2> QED
    BY <1>3, <1>6, <2>2, <2>3
<1>9. QED
  BY <1>7, <1>8

LEMMA BodyRead ==
  ASSUME FilesInv, SessionInv, ReadBody
  PROVE  SessionInv'
<1> DEFINE R == {"Body"}
<1>1. R \subseteq Pieces /\ ReadFrame(R)
  BY DEF Pieces, ReadBody
<1>2. PICK f, c, d, s : f = Head(broker.out) /\ c = client /\ d = client' /\ s = client.out
  OBVIOUS
<1>3. f.kind \in R /\ "Ack" \notin Kinds(s) /\ QueueUp
  BY <1>1, <1>2, PieceFirst
<1>4. PICK m \in Msg, tag \in Nat : \E k \in 0 .. Length(m) - 1 :
         /\ PieceOf(f, m, tag, k + 1)
         /\ client.messages = << >> \/ Held(client.messages, k, m, tag)
         /\ ToSet(broker.unacked) \subseteq {[tag |-> tag, msg |-> m]}
         /\ k + 1 < Length(m) => Block(broker'.out, 0, k + 1, m, tag)
         /\ k + 1 = Length(m) => NoPieces'
  BY <1>1, <1>2, PieceFirst
<1>5. PICK k \in 0 .. Length(m) - 1 :
         /\ PieceOf(f, m, tag, k + 1)
         /\ client.messages = << >> \/ Held(client.messages, k, m, tag)
         /\ ToSet(broker.unacked) \subseteq {[tag |-> tag, msg |-> m]}
         /\ k + 1 < Length(m) => Block(broker'.out, 0, k + 1, m, tag)
         /\ k + 1 = Length(m) => NoPieces'
  BY <1>4
<1>6. /\ k \in 2 .. Length(m) - 1 /\ f.n = BodySize(m, k - 1) /\ f.msg = m
      /\ k + 1 = Length(m) \/ k + 1 < Length(m)
  <2>1. PICK l \in Nat : l = Length(m)
    BY BodiesOf
  <2>2. f.kind = "Body"
    BY <1>3
  <2>3. k + 1 # 1 /\ k + 1 # 2
    BY <1>5, <2>2 DEF PieceOf
  <2>4. f.n = BodySize(m, (k + 1) - 2) /\ f.msg = m
    BY <1>5, <2>3 DEF PieceOf
  <2>5. (k + 1) - 2 = k - 1 /\ k \in 2 .. l - 1 /\ (k + 1 = l \/ k + 1 < l)
    BY <2>1, <2>3
  <2> QED
    BY <2>1, <2>4, <2>5
<1>7. /\ ClientTypes(c) /\ IsSeq(s) /\ c.out = s /\ c.sock = "connected" /\ proc = "up"
      /\ app = "midas" => output # 0
  BY <1>1, <1>2 DEF SessionInv, ClientTypes, SocketInv, ReadFrame
<1>8. PICK e : e = QueueBody(c, f)
  OBVIOUS
<1>9. /\ \/ ~Announced(e) /\ d = e /\ data' = data
         \/ /\ Announced(e) /\ d = MqMessageReceived(e)
            /\ data' = IF app = "midas"
                       THEN [data EXCEPT ![output] = Append(@, Message(e.messages[1].payload))]
                       ELSE data
      /\ UNCHANGED << app, proc, output, faults, published >> /\ UNCHANGED Counted
  BY <1>2, <1>8 DEF ReadBody, Counted, envVars
<1>10. broker'.unacked = broker.unacked /\ IsSeq(broker'.out) /\ QueueUp'
  <2>1. broker'.unacked = broker.unacked /\ QueueUp'
    BY <1>1, <1>3, ReadBroker
  <2>2. BrokerTypes(broker')
    BY <1>1, <1>2, ReadIs
  <2> QED
    BY <2>1, <2>2 DEF BrokerTypes
<1>11. CASE c.messages = << >>
  <2>1. e = c
    BY <1>8, <1>11 DEF QueueBody
  <2>2. ~Announced(e)
    <3>1. Len(c.messages) = 0
      BY <1>11, EmptyStream
    <3> QED
      BY <2>1, <3>1 DEF Announced
  <2>3. client' = client /\ data' = data /\ client'.messages = << >> /\ client'.out = s
    BY <1>2, <1>9, <1>11, <2>1, <2>2
  <2>4. DeliveryInv'
    <3>1. CASE k + 1 < Length(m)
      <4>1. k + 1 \in 0 .. Length(m) - 1 /\ Block(broker'.out, 0, k + 1, m, tag)
        BY <1>5, <3>1, BodiesOf
      <4> QED
        BY <1>3, <1>5, <1>10, <2>3, <4>1, StillDelivering
    <3>2. CASE k + 1 = Length(m)
      <4>1. NoPieces' /\ Left(m, 1) \in Nat
        BY <1>5, <3>2 DEF Left
      <4> QED
        BY <2>3, <4>1, DeliveryEnd
    <3> QED
      BY <1>6, <3>1, <3>2
  <2>5. /\ ClientTypes(client') /\ SameClient(client, client', {"messages", "out"})
        /\ Longer(client.out, client'.out, {"Ack"}) /\ Once(client'.out, "Ack")
        /\ \A x \in ToSet(client'.out) : x \in ToSet(client.out)
    BY <1>2, <1>7, <2>3, LongerSame DEF SameClient, SessionInv, ConsumeInv
  <2>6. \A x : Stored(x) => Stored(x)'
    BY <2>3, StoredSame
  <2> QED
    BY <1>1, <1>9, <2>4, <2>5, <2>6, PieceRead
<1>12. CASE c.messages # << >>
  <2>1. Held(c.messages, k, m, tag)
    BY <1>2, <1>5, <1>12
  <2>2. PICK p, q : p = [i \in 1 .. k - 2 |-> m] /\ q = [i \in 1 .. k - 1 |-> m]
    OBVIOUS
  <2>3. q = Append(p, m)
    <3>1. k - 2 \in Nat /\ (k - 2) + 1 = k - 1
      BY <1>6
    <3> QED
      BY <2>2, <3>1, AppendSame
  <2>4. c.messages = << [tag |-> tag, left |-> Left(m, k), payload |-> p] >>
    BY <2>1, <2>2 DEF Held
  <2>5. PICK rest, x : /\ rest = Left(m, k) - BodySize(m, k - 1)
                       /\ x = [tag |-> tag, left |-> rest, payload |-> q]
    OBVIOUS
  <2>6. ClientTypes(e) /\ SameClient(c, e, {"messages"}) /\ e.messages = << x >>
    <3>1. /\ ClientTypes(e) /\ SameClient(c, e, {"messages"})
          /\ e.messages = << [tag |-> tag, left |-> Left(m, k) - f.n, payload |-> Append(p, f.msg)] >>
      BY <1>7, <1>8, <2>4, BodyIs, SMTT(60)
    <3> QED
      BY <1>6, <2>3, <2>5, <3>1
  <2>7. e.messages[1] = x /\ Len(e.messages) = 1 /\ x.tag = tag /\ x.left = rest /\ x.payload = q
    <3>1. << x >>[1] = x /\ Len(<< x >>) = 1
      OBVIOUS
    <3>2. x.tag = tag /\ x.left = rest /\ x.payload = q
      BY <2>5
    <3> QED
      BY <2>6, <3>1, <3>2
  <2>8. e.sock = "connected" /\ e.out = s
    BY <1>7, <2>6 DEF SameClient, ClientFields
  <2>9. CASE k + 1 < Length(m)
    <3>1. rest = Left(m, k + 1) /\ rest # 0
      BY <1>6, <2>5, <2>9, BodyLeft
    <3>2. d = e /\ data' = data
      BY <1>9, <2>7, <3>1 DEF Announced
    <3>3. Held(client'.messages, k + 1, m, tag)
      <4>1. (k + 1) - 2 = k - 1 /\ k + 1 # 0
        BY <1>6
      <4>2. q = [i \in 1 .. (k + 1) - 2 |-> m]
        BY <2>2, <4>1
      <4>3. d.messages = << [tag |-> tag, left |-> Left(m, k + 1),
                            payload |-> [i \in 1 .. (k + 1) - 2 |-> m]] >>
        BY <2>5, <2>6, <3>1, <3>2, <4>2
      <4> QED
        BY <1>2, <4>1, <4>3 DEF Held
    <3>4. /\ ClientTypes(client') /\ SameClient(client, client', {"messages", "out"})
          /\ client'.out = s
      BY <1>2, <2>6, <2>8, <3>2 DEF SameClient
    <3>5. DeliveryInv'
      <4>1. k + 1 \in 0 .. Length(m) - 1 /\ Block(broker'.out, 0, k + 1, m, tag)
        BY <1>5, <2>9, BodiesOf
      <4> QED
        BY <1>3, <1>5, <1>10, <3>3, <3>4, <4>1, StillDelivering
    <3>6. /\ Longer(client.out, client'.out, {"Ack"}) /\ Once(client'.out, "Ack")
          /\ \A y \in ToSet(client'.out) : y \in ToSet(client.out)
      BY <1>2, <1>7, <3>4, LongerSame DEF SessionInv, ConsumeInv
    <3>7. \A y : Stored(y) => Stored(y)'
      BY <3>2, StoredSame
    <3> QED
      BY <1>1, <1>9, <3>4, <3>5, <3>6, <3>7, PieceRead
  <2>10. CASE k + 1 = Length(m)
    <3>1. rest = 0 /\ k - 1 = Bodies(m)
      <4>1. rest = 0
        BY <1>6, <2>5, <2>10, BodyLeft
      <4>2. Length(m) = Bodies(m) + 2 /\ Bodies(m) \in Nat
        BY BodiesOf
      <4> QED
        BY <2>10, <4>1, <4>2
    <3>2. /\ d = MqMessageReceived(e)
          /\ data' = IF app = "midas"
                     THEN [data EXCEPT ![output] = Append(@, Message(Parts(m)))]
                     ELSE data
      <4>1. Announced(e)
        BY <2>7, <3>1 DEF Announced
      <4>2. e.messages[1].payload = Parts(m)
        BY <2>2, <2>7, <3>1, PartsIs
      <4> QED
        BY <1>9, <4>1, <4>2
    <3>3. /\ \A y : Stored(y) => Stored(y)'
          /\ app = "midas" => Stored(m)'
      <4>1. CASE app = "midas"
        <5>1. data' = [data EXCEPT ![output] = Append(@, Message(Parts(m)))] /\ output # 0
          BY <1>7, <3>2, <4>1
        <5> QED
          BY <5>1, StoredWritten
      <4>2. CASE app # "midas"
        BY <3>2, <4>2, StoredSame
      <4> QED
        BY <4>1, <4>2
    <3>4. PICK a : a = Frame("queue", "Ack", tag, 0, NoMsg)
      OBVIOUS
    <3>5. a.kind = "Ack" /\ a.ch = "queue" /\ a.n = tag
      BY <3>4 DEF Frame
    <3>6. AskOK(a)'
      <4>1. ASSUME app' = "midas", NEW y \in ToSet(broker'.unacked)
            PROVE  Stored(y.msg)'
        <5>1. y.msg = m
          BY <1>5, <1>10, <4>1
        <5> QED
          BY <1>9, <3>3, <4>1, <5>1
      <4> QED
        BY <1>10, <3>5, <4>1 DEF AskOK, Asked, OfQueue
    <3>7. /\ ClientTypes(d) /\ SameClient(e, d, {"messages", "out"}) /\ d.messages = << >>
          /\ d.out \in {s, Append(s, a)}
      BY <2>6, <2>7, <2>8, <3>2, <3>4, ReceivedIs
    <3>8. ClientTypes(client') /\ SameClient(client, client', {"messages", "out"})
      BY <1>2, <2>6, <3>7 DEF SameClient
    <3>9. /\ Longer(s, d.out, {"Ack"}) /\ \A y \in ToSet(d.out) : y \in ToSet(s) \/ AskOK(y)'
      <4>1. a.kind \in {"Ack"}
        BY <3>5
      <4> QED
        BY <1>7, <3>6, <3>7, <4>1, Sends, LongerSame
    <3>10. Once(d.out, "Ack")
      <4>1. Once(Append(s, a), "Ack")
        BY <1>3, <1>7, <3>5, AppendKinds
      <4> QED
        BY <1>2, <3>7, <4>1 DEF SessionInv, ConsumeInv
    <3>11. DeliveryInv'
      <4>1. NoPieces' /\ Left(m, 1) \in Nat /\ client'.messages = << >>
        BY <1>2, <1>5, <2>10, <3>7 DEF Left
      <4> QED
        BY <4>1, DeliveryEnd
    <3> QED
      BY <1>1, <1>2, <1>9, <3>3, <3>8, <3>9, <3>10, <3>11, PieceRead
  <2> QED
    BY <1>6, <2>9, <2>10
<1>13. QED
  BY <1>11, <1>12

-----------------------------------------------------------------------------
(* What the broker does                                                     *)

LEMMA BrokerTypesOfSame ==
  ASSUME NEW b, BrokerTypes(b), NEW d, NEW S, SameBroker(b, d, S), DOMAIN d = BrokerFields,
         S \subseteq {"out", "acked", "prefetch", "qDeclared", "eDeclared", "bound"}, IsSeq(d.out)
  PROVE  BrokerTypes(d)
<1>1. /\ d.phase = b.phase /\ d.chans = b.chans /\ d.closed = b.closed /\ d.noAck = b.noAck
      /\ d.nextTag = b.nextTag /\ d.unacked = b.unacked /\ d.queue = b.queue
      /\ d.consumer = b.consumer
  BY DEF SameBroker, BrokerFields
<1>2. QED
  BY <1>1 DEF BrokerTypes

\* What was not acknowledged goes back to the head of the queue.
LEMMA GivenBack ==
  ASSUME NEW b, BrokerTypes(b)
  PROVE  IsSeq(Unacked(b) \o b.queue) /\ ToSet(Unacked(b) \o b.queue) \subseteq Msg
<1>1. PICK u, q : u = Unacked(b) /\ q = b.queue
  OBVIOUS
<1>2. PICK n \in Nat : n = Len(b.unacked) /\ DOMAIN b.unacked = 1 .. n
  BY LenProperties DEF BrokerTypes, IsSeq
<1>3. \A i \in 1 .. n : b.unacked[i].msg \in Msg
  BY <1>2 DEF BrokerTypes, ToSet
<1>4. u \in [1 .. n -> Msg]
  BY <1>1, <1>2, <1>3 DEF Unacked
<1>5. u \in Seq(Msg)
  BY <1>4, FunctionIsSeq
<1>6. IsSeq(u) /\ ToSet(u) \subseteq Msg
  BY <1>5, SeqElements
<1>7. IsSeq(q) /\ ToSet(q) \subseteq Msg
  BY <1>1 DEF BrokerTypes
<1>8. IsSeq(u \o q) /\ ToSet(u \o q) = ToSet(u) \cup ToSet(q)
  BY <1>6, <1>7, ElementsOfConcat
<1>9. ToSet(u \o q) \subseteq Msg
  BY <1>6, <1>7, <1>8
<1>10. QED
  BY <1>1, <1>8, <1>9

LEMMA EndSessionIs ==
  ASSUME NEW b, BrokerTypes(b), NEW d, d = EndSession(b)
  PROVE  /\ BrokerTypes(d) /\ d.acked = b.acked
         /\ d.out = << >> /\ d.unacked = << >> /\ d.phase = "none" /\ d.chans = {}
         /\ d.closed = {} /\ d.consumer = 0 /\ d.prefetch = 0
<1>1. PICK q : q = Unacked(b) \o b.queue
  OBVIOUS
<1>2. IsSeq(q) /\ ToSet(q) \subseteq Msg
  BY <1>1, GivenBack
<1>3. d = [queue |-> q, qDeclared |-> b.qDeclared, eDeclared |-> b.eDeclared,
           bound |-> b.bound, acked |-> b.acked,
           phase |-> "none", noAck |-> FALSE, chans |-> {}, consumer |-> 0, prefetch |-> 0,
           closed |-> {}, unacked |-> << >>, nextTag |-> 1, out |-> << >>]
  <2>1. PICK n : n = NewBroker
    OBVIOUS
  <2>2. d = [n EXCEPT !.queue = q, !.qDeclared = b.qDeclared, !.eDeclared = b.eDeclared,
                      !.bound = b.bound, !.acked = b.acked]
    BY <1>1, <2>1 DEF EndSession
  <2>3. n = [queue |-> << >>, qDeclared |-> FALSE, eDeclared |-> FALSE, bound |-> FALSE,
             acked |-> {}, phase |-> "none", noAck |-> FALSE, chans |-> {}, consumer |-> 0,
             prefetch |-> 0, closed |-> {}, unacked |-> << >>, nextTag |-> 1, out |-> << >>]
    BY <2>1 DEF NewBroker
  <2> QED
    BY <2>2, <2>3, ZenonT(60)
<1>4. /\ DOMAIN d = BrokerFields /\ d.acked = b.acked /\ d.queue = q
      /\ d.out = << >> /\ d.unacked = << >> /\ d.phase = "none" /\ d.chans = {}
      /\ d.closed = {} /\ d.consumer = 0 /\ d.prefetch = 0 /\ d.noAck = FALSE /\ d.nextTag = 1
  BY <1>3 DEF BrokerFields
<1>5. IsSeq(d.out) /\ IsSeq(d.unacked) /\ Len(d.unacked) = 0 /\ ToSet(d.unacked) = {}
  BY <1>4, EmptyStream
<1>6. BrokerTypes(d)
  BY <1>2, <1>4, <1>5 DEF BrokerTypes
<1>7. QED
  BY <1>4, <1>6

LEMMA ForceCloseIs ==
  ASSUME NEW b, BrokerTypes(b), NEW d, d = ForceClose(b)
  PROVE  /\ BrokerTypes(d) /\ d.acked = b.acked /\ d.unacked = << >> /\ d.phase = "closing"
         /\ d.consumer = 0
         /\ d.out = Append(b.out, Method("connection", "ConnectionClose"))
<1>1. PICK e, f : e = EndSession(b) /\ f = Method("connection", "ConnectionClose")
  OBVIOUS
<1>2. /\ BrokerTypes(e) /\ e.acked = b.acked /\ e.unacked = << >>
      /\ e.chans = {} /\ e.closed = {} /\ e.consumer = 0
  BY <1>1, EndSessionIs
<1>3. PICK g : g = [e EXCEPT !.phase = "closing", !.out = b.out]
  OBVIOUS
<1>4. d = [g EXCEPT !.out = Append(@, f)]
  BY <1>1, <1>3 DEF ForceClose, Reply
<1>5. /\ DOMAIN g = BrokerFields /\ SameBroker(e, g, {"phase", "out"})
      /\ g.phase = "closing" /\ g.out = b.out
  BY <1>2, <1>3 DEF BrokerTypes, SameBroker, BrokerFields
<1>6. /\ DOMAIN d = BrokerFields /\ SameBroker(g, d, {"out"})
      /\ d.out = Append(b.out, f)
  BY <1>4, <1>5 DEF SameBroker, BrokerFields
<1>7. IsSeq(d.out)
  <2>1. IsSeq(b.out)
    BY DEF BrokerTypes
  <2> QED
    BY <1>6, <2>1, AppendIsSeq
<1>8. /\ d.phase = "closing" /\ d.acked = e.acked /\ d.unacked = e.unacked /\ d.chans = e.chans
      /\ d.closed = e.closed /\ d.consumer = e.consumer /\ d.noAck = e.noAck
      /\ d.nextTag = e.nextTag /\ d.queue = e.queue
  BY <1>5, <1>6 DEF SameBroker, BrokerFields
<1>9. BrokerTypes(d)
  BY <1>2, <1>6, <1>7, <1>8 DEF BrokerTypes
<1>10. QED
  BY <1>1, <1>2, <1>6, <1>8, <1>9

LEMMA CloseChannelIs ==
  ASSUME NEW b, BrokerTypes(b), b.phase # "closing", NEW d, d = CloseChannel(b)
  PROVE  /\ BrokerTypes(d) /\ d.acked = b.acked /\ d.unacked = << >> /\ d.phase = b.phase
         /\ d.consumer = 0 /\ d.closed = {"queue"} /\ d.prefetch = b.prefetch
         /\ d.out = Append(b.out, Method("queue", "ChannelClose"))
<1>1. PICK q, f : q = Unacked(b) \o b.queue /\ f = Method("queue", "ChannelClose")
  OBVIOUS
<1>2. IsSeq(q) /\ ToSet(q) \subseteq Msg
  BY <1>1, GivenBack
<1>3. PICK g : g = [b EXCEPT !.chans = @ \ {"queue"}, !.closed = {"queue"}, !.consumer = 0,
                             !.unacked = << >>, !.queue = q]
  OBVIOUS
<1>4. d = [g EXCEPT !.out = Append(@, f)]
  BY <1>1, <1>3 DEF CloseChannel, Reply
<1>5. /\ DOMAIN g = BrokerFields
      /\ SameBroker(b, g, {"chans", "closed", "consumer", "unacked", "queue"})
      /\ g.chans = b.chans \ {"queue"} /\ g.closed = {"queue"} /\ g.consumer = 0
      /\ g.unacked = << >> /\ g.queue = q
  BY <1>3 DEF BrokerTypes, SameBroker, BrokerFields
<1>6. DOMAIN d = BrokerFields /\ SameBroker(g, d, {"out"}) /\ d.out = Append(g.out, f)
  BY <1>4, <1>5 DEF SameBroker, BrokerFields
<1>7. /\ d.chans = b.chans \ {"queue"} /\ d.closed = {"queue"} /\ d.consumer = 0
      /\ d.unacked = << >> /\ d.queue = q /\ d.acked = b.acked /\ d.phase = b.phase
      /\ d.prefetch = b.prefetch /\ d.noAck = b.noAck /\ d.nextTag = b.nextTag
      /\ d.out = Append(b.out, f)
  BY <1>5, <1>6 DEF SameBroker, BrokerFields
<1>8. IsSeq(d.out) /\ IsSeq(d.unacked) /\ Len(d.unacked) = 0 /\ ToSet(d.unacked) = {}
  <2>1. IsSeq(b.out)
    BY DEF BrokerTypes
  <2>2. IsSeq(d.out)
    BY <1>7, <2>1, AppendIsSeq
  <2> QED
    BY <1>7, <2>2, EmptyStream
<1>9. BrokerTypes(d)
  BY <1>2, <1>6, <1>7, <1>8 DEF BrokerTypes
<1>10. QED
  BY <1>1, <1>7, <1>9

-----------------------------------------------------------------------------
(* The broker reads a frame                                                 *)

World == << app, proc, output, data, published, listeners, subscribed >>

LEMMA OutTypes ==
  ASSUME NEW c, ClientTypes(c), NEW d, SameClient(c, d, {"out"}), DOMAIN d = ClientFields,
         IsSeq(d.out)
  PROVE  ClientTypes(d)
BY TypesOfSame

LEMMA TakenIs ==
  ASSUME SessionInv, client.out # << >>, client' = [client EXCEPT !.out = Tail(@)],
         NEW f, f = Head(client.out)
  PROVE  /\ ClientTypes(client') /\ SameClient(client, client', {"out"})
         /\ client.sock = "connected" /\ AskOK(f) /\ f.kind \in Kinds(client.out)
         /\ IsSeq(client.out) /\ client'.out = Tail(client.out)
         /\ ToSet(client'.out) \subseteq ToSet(client.out)
         /\ \A K : Fewer(client.out, client'.out, K)
         /\ \A kind : Once(client.out, kind) /\ f.kind = kind => kind \notin Kinds(client'.out)
<1>1. ClientTypes(client) /\ IsSeq(client.out) /\ DOMAIN client = ClientFields
  BY DEF SessionInv, ClientTypes
<1>2. /\ SameClient(client, client', {"out"}) /\ client'.out = Tail(client.out)
      /\ DOMAIN client' = ClientFields
  BY <1>1 DEF SameClient, ClientFields
<1>3. PICK t : t = Tail(client.out)
  OBVIOUS
<1>4. IsSeq(t) /\ f \in ToSet(client.out) /\ ToSet(client.out) = ToSet(t) \cup {f}
  BY <1>1, <1>3, ShorterStream
<1>5. /\ Kinds(client.out) = Kinds(t) \cup {f.kind}
      /\ Once(client.out, f.kind) => f.kind \notin Kinds(t)
  BY <1>1, <1>3, ShorterStream
<1>6. \A K : Fewer(client.out, t, K)
  BY <1>1, <1>3, FewerTail
<1>7. AskOK(f)
  BY <1>4 DEF SessionInv, FramesInv
<1>8. ClientTypes(client')
  <2>1. IsSeq(client'.out)
    BY <1>2, <1>3, <1>4
  <2> QED
    BY <1>1, <1>2, <2>1, OutTypes
<1>9. client.sock = "connected"
  BY DEF SessionInv, SocketInv, NoSession
<1>10. QED
  BY <1>1, <1>2, <1>3, <1>4, <1>5, <1>6, <1>7, <1>8, <1>9

\* The frame taken was not the prefetch.
LEMMA QosTail ==
  ASSUME SessionInv, client.out # << >>, client'.out = Tail(client.out),
         Head(client.out).kind # "Qos", broker'.prefetch = broker.prefetch, Closing => Closing',
         broker.closed \subseteq broker'.closed
  PROVE  QosInv'
<1>1. PICK s, t : s = client.out /\ t = client'.out
  OBVIOUS
<1>2. IsSeq(s) /\ s # << >> /\ t = Tail(s)
  BY <1>1 DEF SessionInv, ClientTypes
<1>3. /\ Len(s) \in Nat \ {0} /\ Head(s) = s[1]
      /\ DOMAIN s = 1 .. Len(s) /\ DOMAIN t = 1 .. Len(s) - 1
      /\ \A i \in 1 .. Len(s) - 1 : t[i] = s[i + 1]
  BY <1>2, ShorterStream, SMTT(60)
<1>4. PICK n \in Nat \ {0} : n = Len(s)
  BY <1>3
<1>5. ASSUME NEW i \in 1 .. n - 1, t[i].kind = "Consume",
             ~(broker'.prefetch = 1 \/ Closing' \/ "queue" \in broker'.closed)
      PROVE  \E j \in 1 .. n - 1 : j < i /\ t[j].kind = "Qos"
  <2>1. i + 1 \in DOMAIN s /\ s[i + 1].kind = "Consume"
    BY <1>3, <1>4, <1>5
  <2>2. ~(broker.prefetch = 1 \/ Closing \/ "queue" \in broker.closed)
    BY <1>5
  <2>3. PICK j \in DOMAIN s : j < i + 1 /\ s[j].kind = "Qos"
    BY <1>1, <2>1, <2>2 DEF SessionInv, QosInv
  <2>4. j # 1 /\ j \in 1 .. n
    BY <1>1, <1>3, <1>4, <2>3
  <2>5. j - 1 \in 1 .. n - 1 /\ (j - 1) + 1 = j /\ j - 1 < i
    BY <2>3, <2>4
  <2>6. t[j - 1] = s[j]
    BY <1>3, <1>4, <2>5
  <2> QED
    BY <2>3, <2>5, <2>6
<1>6. QED
  BY <1>1, <1>3, <1>4, <1>5, ZenonT(60) DEF QosInv

\* What the broker changes and the rest of the invariant does not notice: it answers
\* with a frame that is not of a delivery, or not at all.
LEMMA BrokerRest ==
  ASSUME SessionInv, UNCHANGED World, SameClient(client, client', {"out"}), ClientTypes(client'),
         ToSet(client'.out) \subseteq ToSet(client.out), client.sock = "connected",
         \A K : Fewer(client.out, client'.out, K),
         BrokerTypes(broker'), ToSet(broker'.unacked) \subseteq ToSet(broker.unacked),
         QueueUp => QueueUp', Closing => Closing',
         NEW r,
         \/ broker'.out = broker.out
         \/ broker'.out = Append(broker.out, r) /\ r.kind \notin Pieces /\ AnswerOK(r)',
         AckedIsStored', DeclareInv', BindInv', TimersInv', ConsumeInv', QosInv'
  PROVE  SessionInv'
<1>1. client'.sock = client.sock /\ client'.messages = client.messages
  BY DEF SameClient, ClientFields
<1>2. SocketInv'
  BY <1>1 DEF SessionInv, SocketInv, World
<1>3. IsSeq(broker.out) /\ IsSeq(broker'.out)
  BY DEF SessionInv, BrokerTypes
<1>4. \A f \in ToSet(broker'.out) : f \in ToSet(broker.out) \/ AnswerOK(f)'
  <2>1. CASE broker'.out = broker.out
    BY <2>1
  <2>2. CASE broker'.out = Append(broker.out, r) /\ r.kind \notin Pieces /\ AnswerOK(r)'
    <3>1. ToSet(broker'.out) = ToSet(broker.out) \cup {r}
      BY <1>3, <2>2, ElementsOfAppend
    <3> QED
      BY <2>2, <3>1
  <2> QED
    BY <2>1, <2>2
<1>5. FramesInv'
  <2>1. \A f : (AskOK(f) => AskOK(f)') /\ (AnswerOK(f) => AnswerOK(f)')
    BY StoredSame, FramesKept DEF World
  <2> QED
    BY <1>4, <2>1 DEF SessionInv, FramesInv
<1>6. /\ NoPieces => NoPieces'
      /\ \A m, tag, o, k : m \in Msg /\ Block(broker.out, o, k, m, tag) =>
            \E p : Block(broker'.out, p, k, m, tag)
  <2>1. CASE broker'.out = broker.out
    BY <2>1 DEF NoPieces
  <2>2. CASE broker'.out = Append(broker.out, r) /\ r.kind \notin Pieces /\ AnswerOK(r)'
    <3>1. Kinds(broker'.out) = Kinds(broker.out) \cup {r.kind}
      BY <1>3, <2>2, AppendKinds
    <3>2. NoPieces => NoPieces'
      BY <2>2, <3>1 DEF NoPieces
    <3>3. ASSUME NEW m, NEW tag, NEW o, NEW k, m \in Msg, Block(broker.out, o, k, m, tag)
          PROVE  Block(broker'.out, o, k, m, tag)
      BY <1>3, <2>2, <3>3, BlockAppend
    <3> QED
      BY <3>2, <3>3
  <2> QED
    BY <2>1, <2>2
<1>7. "Ack" \in Kinds(client'.out) => "Ack" \in Kinds(client.out)
  <2>1. Fewer(client.out, client'.out, {"Ack"})
    OBVIOUS
  <2> QED
    BY <2>1 DEF Fewer
<1>8. DeliveryInv'
  <2>1. DeliveryInv
    BY DEF SessionInv
  <2> QED
    BY <1>1, <1>3, <1>6, <1>7, <2>1, DeliveryKept
<1>9. (published \subseteq Msg)'
  BY DEF SessionInv, World
<1>10. QED
  BY <1>2, <1>5, <1>8, <1>9 DEF SessionInv

LEMMA AnswerFewer ==
  ASSUME NEW s, IsSeq(s), NEW r, NEW t, t = s \/ t = Append(s, r), NEW K, r.kind \notin K
  PROVE  Fewer(s, t, K)
<1>1. CASE t = s
  BY <1>1, FewerSame
<1>2. CASE t = Append(s, r)
  <2>1. PICK J : J = {r.kind}
    OBVIOUS
  <2>2. r.kind \in J /\ J \cap K = {}
    BY <2>1
  <2>3. Longer(s, t, J)
    BY <1>2, <2>2, LongerAppend
  <2> QED
    BY <2>2, <2>3, FewerKinds
<1>3. QED
  BY <1>1, <1>2

\* A frame is read that the broker ignores.
LEMMA FrameIgnored ==
  ASSUME SessionInv, UNCHANGED World, UNCHANGED faults, client.out # << >>,
         client' = [client EXCEPT !.out = Tail(@)],
         BrokerIgnores(broker, Head(client.out)), broker' = broker
  PROVE  SessionInv'
<1>1. PICK f : f = Head(client.out)
  OBVIOUS
<1>2. /\ ClientTypes(client') /\ SameClient(client, client', {"out"})
      /\ client.sock = "connected"
      /\ ToSet(client'.out) \subseteq ToSet(client.out)
      /\ \A K : Fewer(client.out, client'.out, K)
  BY <1>1, TakenIs
<1>3. Closing \/ "queue" \in broker.closed
  BY <1>1 DEF BrokerIgnores, Closing, SessionInv, BrokerTypes
<1>4. /\ client'.delayedDeclare = client.delayedDeclare /\ client'.messages = client.messages
      /\ client'.delayedBindings = client.delayedBindings /\ client'.timers = client.timers
  BY <1>2 DEF SameClient, ClientFields
<1>5. \A K : Fewer(broker.out, broker'.out, K)
  BY FewerSame
<1>6. DeclareInv'
  BY <1>2, <1>4, <1>5, DeclareKept DEF SessionInv, World
<1>7. BindInv' /\ (BindPending' => BindPending)
  BY <1>2, <1>4, <1>5, BindKept DEF SessionInv, World
<1>8. TimersInv'
  <2>1. /\ TimersInv /\ faults' \in faults .. MaxFaults
        /\ client.timers \in Nat /\ client'.timers <= client.timers
    BY <1>4, MidasAssumption DEF SessionInv, TimersInv, ClientTypes
  <2>2. Closing' => Closing
    BY DEF Closing
  <2> QED
    BY <1>4, <1>5, <1>7, <2>1, <2>2, TimersKept
<1>9. ConsumeInv'
  BY <1>2, <1>4, <1>5, ConsumeKept DEF SessionInv, World
<1>10. QosInv'
  BY <1>3 DEF QosInv, Closing
<1>11. AckedIsStored'
  BY DEF SessionInv, AckedIsStored, World
<1>12. /\ BrokerTypes(broker') /\ ToSet(broker'.unacked) \subseteq ToSet(broker.unacked)
       /\ (QueueUp => QueueUp') /\ (Closing => Closing') /\ broker'.out = broker.out
  BY DEF SessionInv, QueueUp, Closing
<1>13. QED
  BY <1>2, <1>6, <1>7, <1>8, <1>9, <1>10, <1>11, <1>12, BrokerRest

\* The broker closes the connection: for a frame it refuses, or at a fault.
LEMMA ForceClosed ==
  ASSUME SessionInv, UNCHANGED World, SameClient(client, client', {"out"}), ClientTypes(client'),
         ToSet(client'.out) \subseteq ToSet(client.out), client.sock = "connected",
         \A K : Fewer(client.out, client'.out, K),
         ~Closing, broker' = ForceClose(broker), faults' \in faults .. MaxFaults,
         faults' = faults + 1 \/ (BindPending /\ ~BindPending')
  PROVE  SessionInv'
<1>1. PICK r : r = Method("connection", "ConnectionClose")
  OBVIOUS
<1>2. r.kind = "ConnectionClose"
  BY <1>1, MethodIs
<1>3. BrokerTypes(broker) /\ IsSeq(broker.out)
  BY DEF SessionInv, BrokerTypes
<1>4. /\ BrokerTypes(broker') /\ broker'.acked = broker.acked /\ broker'.unacked = << >>
      /\ broker'.phase = "closing" /\ broker'.consumer = 0 /\ broker'.out = Append(broker.out, r)
  BY <1>1, <1>3, ForceCloseIs
<1>5. Closing' /\ QueueUp' /\ AnswerOK(r)' /\ r.kind \notin Pieces
  BY <1>2, <1>4 DEF Closing, QueueUp, AnswerOK, Pieces, Answered, ConnectionMethods
<1>6. /\ client'.delayedDeclare = client.delayedDeclare /\ client'.messages = client.messages
      /\ client'.delayedBindings = client.delayedBindings /\ client'.timers = client.timers
  BY DEF SameClient, ClientFields
<1>7. /\ Fewer(broker.out, broker'.out, {"QueueDeclareOk"})
      /\ Fewer(broker.out, broker'.out, {"ExchangeDeclareOk"})
      /\ Fewer(broker.out, broker'.out, Pieces)
  BY <1>2, <1>3, <1>4, <1>5, AnswerFewer
<1>8. DeclareInv'
  BY <1>6, <1>7, DeclareKept DEF SessionInv, World
<1>9. BindInv' /\ (BindPending' => BindPending)
  BY <1>6, <1>7, BindKept DEF SessionInv, World
<1>10. TimersInv'
  <2>1. "ConnectionClose" \notin Kinds(broker.out)
    <3>1. ASSUME NEW i \in DOMAIN broker.out, broker.out[i].kind = "ConnectionClose"
          PROVE  FALSE
      <4>1. AnswerOK(broker.out[i])
        BY <3>1 DEF SessionInv, FramesInv, ToSet
      <4> QED
        BY <3>1, <4>1 DEF AnswerOK
    <3> QED
      BY <3>1 DEF Kinds
  <2>2. Once(broker'.out, "ConnectionClose")
    BY <1>2, <1>3, <1>4, <2>1, AppendKinds
  <2>3. TimersInv /\ MaxFaults \in Nat /\ client.timers \in Nat
    BY MidasAssumption DEF SessionInv, ClientTypes
  <2> QED
    BY <1>5, <1>6, <1>9, <2>1, <2>2, <2>3 DEF TimersInv
<1>11. ConsumeInv'
  <2>1. Fewer(client.out, client'.out, {"Consume", "Ack"}) /\ ConsumeInv
    BY DEF SessionInv
  <2>2. /\ Once(client'.out, "Consume") /\ Once(client'.out, "Ack")
        /\ "Consume" \in Kinds(client'.out) => "Consume" \in Kinds(client.out)
    BY <2>1 DEF ConsumeInv, Fewer
  <2>3. Idle => Idle'
    BY <1>6, <1>7, <2>1 DEF Idle, NoPieces, Fewer
  <2>4. subscribed' = subscribed
    BY DEF World
  <2> QED
    BY <1>4, <2>1, <2>2, <2>3, <2>4 DEF ConsumeInv
<1>12. QosInv'
  BY <1>5 DEF QosInv
<1>13. AckedIsStored'
  BY <1>4 DEF SessionInv, AckedIsStored, World
<1>14. ToSet(broker'.unacked) \subseteq ToSet(broker.unacked)
  BY <1>4, EmptyStream
<1>15. QED
  BY <1>4, <1>5, <1>8, <1>9, <1>10, <1>11, <1>12, <1>13, <1>14, BrokerRest

\* Only a frame of the binding is refused.
LEMMA FrameRefused ==
  ASSUME SessionInv, UNCHANGED World, UNCHANGED faults, client.out # << >>,
         client' = [client EXCEPT !.out = Tail(@)],
         ~BrokerIgnores(broker, Head(client.out)), BrokerRefuses(broker, Head(client.out)),
         broker' = ForceClose(broker)
  PROVE  SessionInv'
<1>1. PICK f : f = Head(client.out)
  OBVIOUS
<1>2. /\ ClientTypes(client') /\ SameClient(client, client', {"out"})
      /\ client.sock = "connected" /\ AskOK(f) /\ f.kind \in Kinds(client.out)
      /\ ToSet(client'.out) \subseteq ToSet(client.out)
      /\ \A K : Fewer(client.out, client'.out, K)
      /\ \A kind : Once(client.out, kind) /\ f.kind = kind => kind \notin Kinds(client'.out)
  BY <1>1, TakenIs
<1>3. ~Closing /\ f.kind \in {"Bind", "ExchangeDeclare"}
  <2>1. /\ ~Closing /\ f.ch \in Chan /\ f.ch \notin broker.chans \cup broker.closed
        /\ f.kind # "ChannelOpen"
    BY <1>1 DEF BrokerIgnores, BrokerRefuses, Closing
  <2>2. f.kind \in OfQueue \/ f.kind = "ExchangeDeclare"
    BY <1>2, <2>1 DEF AskOK, Chan
  <2>3. f.kind \notin OfQueue \ {"Bind"}
    BY <1>2, <2>1 DEF AskOK, QueueUp
  <2> QED
    BY <2>1, <2>2, <2>3
<1>4. /\ client'.delayedDeclare = client.delayedDeclare
      /\ client'.delayedBindings = client.delayedBindings
  BY <1>2 DEF SameClient, ClientFields
<1>5. "ExchangeDeclareOk" \in Kinds(broker'.out) => "ExchangeDeclareOk" \in Kinds(broker.out)
  <2>1. PICK r : r = Method("connection", "ConnectionClose")
    OBVIOUS
  <2>2. r.kind = "ConnectionClose"
    BY <2>1, MethodIs
  <2>3. BrokerTypes(broker) /\ IsSeq(broker.out)
    BY DEF SessionInv, BrokerTypes
  <2>4. broker'.out = Append(broker.out, r)
    BY <2>1, <2>3, ForceCloseIs
  <2>5. Kinds(broker'.out) = Kinds(broker.out) \cup {r.kind}
    BY <2>3, <2>4, AppendKinds
  <2> QED
    BY <2>2, <2>5
<1>6. Fewer(client.out, client'.out, {"ExchangeDeclare", "Bind"})
  BY <1>2
<1>7. BindPending /\ ~BindPending'
  <2>1. CASE f.kind = "Bind"
    <3>1. Bound /\ Once(client.out, "Bind") /\ subscribed' = subscribed
      BY <1>2, <2>1 DEF Bound, SessionInv, BindInv, World
    <3>2. ~ToDeclare /\ ~ToSend /\ ~Sent /\ ~Declared /\ ~ToBind
      BY <3>1 DEF SessionInv, BindInv
    <3>3. ~ToDeclare' /\ ~ToSend' /\ ~Sent' /\ ~Declared' /\ ~ToBind' /\ ~Bound'
      BY <1>2, <1>4, <1>5, <1>6, <2>1, <3>1, <3>2
         DEF ToDeclare, ToSend, Sent, Declared, ToBind, Bound, Fewer
    <3> QED
      BY <3>1, <3>3 DEF BindPending
  <2>2. CASE f.kind = "ExchangeDeclare"
    <3>1. Sent /\ Once(client.out, "ExchangeDeclare") /\ subscribed' = subscribed
      BY <1>2, <2>2 DEF Sent, SessionInv, BindInv, World
    <3>2. ~ToDeclare /\ ~ToSend /\ ~Declared /\ ~ToBind /\ ~Bound
      BY <3>1 DEF SessionInv, BindInv
    <3>3. ~ToDeclare' /\ ~ToSend' /\ ~Sent' /\ ~Declared' /\ ~ToBind' /\ ~Bound'
      BY <1>2, <1>4, <1>5, <1>6, <2>2, <3>1, <3>2
         DEF ToDeclare, ToSend, Sent, Declared, ToBind, Bound, Fewer
    <3> QED
      BY <3>1, <3>3 DEF BindPending
  <2> QED
    BY <1>3, <2>1, <2>2
<1>8. faults' \in faults .. MaxFaults
  BY MidasAssumption DEF SessionInv, TimersInv
<1>9. QED
  BY <1>2, <1>3, <1>7, <1>8, ForceClosed

-----------------------------------------------------------------------------
(* The broker handles a frame                                               *)

Handles(f) ==
  /\ client.out # << >> /\ f = Head(client.out) /\ client' = [client EXCEPT !.out = Tail(@)]
  /\ ~BrokerIgnores(broker, f) /\ ~BrokerRefuses(broker, f)
  /\ broker' = BrokerHandle(broker, f)
  /\ UNCHANGED World /\ UNCHANGED faults

LEMMA HandleIs ==
  ASSUME SessionInv, NEW f, Handles(f)
  PROVE  /\ ClientTypes(client') /\ SameClient(client, client', {"out"})
         /\ client.sock = "connected" /\ AskOK(f) /\ f.kind \in Kinds(client.out)
         /\ ToSet(client'.out) \subseteq ToSet(client.out)
         /\ \A K : Fewer(client.out, client'.out, K)
         /\ \A kind : Once(client.out, kind) /\ f.kind = kind => kind \notin Kinds(client'.out)
         /\ client'.delayedDeclare = client.delayedDeclare /\ client'.messages = client.messages
         /\ client'.delayedBindings = client.delayedBindings /\ client'.timers = client.timers
         /\ ~Closing /\ f.ch \notin broker.closed
         /\ f.ch \in Chan /\ f.kind # "ChannelOpen" => f.ch \in broker.chans
         /\ BrokerTypes(broker) /\ IsSeq(broker.out) /\ DOMAIN broker = BrokerFields
<1>1. client.out # << >> /\ f = Head(client.out) /\ client' = [client EXCEPT !.out = Tail(@)]
  BY DEF Handles
<1>2. /\ ClientTypes(client') /\ SameClient(client, client', {"out"})
      /\ client.sock = "connected" /\ AskOK(f) /\ f.kind \in Kinds(client.out)
      /\ ToSet(client'.out) \subseteq ToSet(client.out)
      /\ \A K : Fewer(client.out, client'.out, K)
      /\ \A kind : Once(client.out, kind) /\ f.kind = kind => kind \notin Kinds(client'.out)
  BY <1>1, TakenIs
<1>3. /\ client'.delayedDeclare = client.delayedDeclare /\ client'.messages = client.messages
      /\ client'.delayedBindings = client.delayedBindings /\ client'.timers = client.timers
  BY <1>2 DEF SameClient, ClientFields
<1>4. /\ ~Closing /\ f.ch \notin broker.closed
      /\ f.ch \in Chan /\ f.kind # "ChannelOpen" => f.ch \in broker.chans
  BY DEF Handles, BrokerIgnores, BrokerRefuses, Closing
<1>5. BrokerTypes(broker) /\ IsSeq(broker.out) /\ DOMAIN broker = BrokerFields
  BY DEF SessionInv, BrokerTypes
<1>6. QED
  BY <1>2, <1>3, <1>4, <1>5

LEMMA ReplyIs ==
  ASSUME NEW g, DOMAIN g = BrokerFields, NEW r, NEW d, d = Reply(g, r)
  PROVE  /\ DOMAIN d = BrokerFields /\ SameBroker(g, d, {"out"})
         /\ d.out = Append(g.out, r)
BY DEF Reply, SameBroker, BrokerFields

\* What is left to show of a frame that is handled.
LEMMA HandledRest ==
  ASSUME SessionInv, NEW f, Handles(f), BrokerTypes(broker'), broker'.phase # "closing",
         broker.chans \subseteq broker'.chans, broker'.closed = broker.closed,
         ToSet(broker'.unacked) \subseteq ToSet(broker.unacked),
         NEW r,
         \/ broker'.out = broker.out
         \/ /\ broker'.out = Append(broker.out, r) /\ AnswerOK(r)'
            /\ r.kind \notin Pieces \cup {"ConnectionClose"},
         AckedIsStored', DeclareInv', BindInv', BindPending' => BindPending, ConsumeInv', QosInv'
  PROVE  SessionInv'
<1>1. /\ ClientTypes(client') /\ SameClient(client, client', {"out"})
      /\ client.sock = "connected" /\ client'.timers = client.timers
      /\ ToSet(client'.out) \subseteq ToSet(client.out)
      /\ \A K : Fewer(client.out, client'.out, K)
      /\ ~Closing /\ IsSeq(broker.out)
  BY HandleIs
<1>2. (QueueUp => QueueUp') /\ (Closing => Closing') /\ ~Closing'
  BY <1>1 DEF QueueUp, Closing
<1>3. TimersInv'
  <2>1. /\ TimersInv /\ faults' \in faults .. MaxFaults
        /\ client.timers \in Nat /\ client'.timers <= client.timers
    BY <1>1, MidasAssumption DEF SessionInv, TimersInv, ClientTypes, Handles
  <2>2. Fewer(broker.out, broker'.out, {"ConnectionClose"})
    <3>1. CASE broker'.out = broker.out
      BY <3>1, FewerSame
    <3>2. CASE broker'.out = Append(broker.out, r) /\ r.kind # "ConnectionClose"
      BY <1>1, <3>2, AnswerFewer
    <3> QED
      BY <3>1, <3>2
  <2> QED
    BY <1>1, <1>2, <2>1, <2>2, TimersKept, SMTT(60)
<1>4. UNCHANGED World
  BY DEF Handles
<1>5. \/ broker'.out = broker.out
      \/ broker'.out = Append(broker.out, r) /\ r.kind \notin Pieces /\ AnswerOK(r)'
  OBVIOUS
<1>6. QED
  BY <1>1, <1>2, <1>3, <1>4, <1>5, BrokerRest

\* A frame that neither the declarations nor the consumer depend on.
LEMMA HandledQuiet ==
  ASSUME SessionInv, NEW f, Handles(f), f.kind # "Qos", BrokerTypes(broker'),
         broker'.phase # "closing", broker.chans \subseteq broker'.chans,
         SameBroker(broker, broker', {"phase", "chans", "bound", "out"}),
         NEW r,
         \/ broker'.out = broker.out
         \/ /\ broker'.out = Append(broker.out, r) /\ AnswerOK(r)'
            /\ r.kind \notin Pieces \cup {"QueueDeclareOk", "ExchangeDeclareOk", "ConnectionClose"}
  PROVE  SessionInv'
<1>1. /\ \A K : Fewer(client.out, client'.out, K)
      /\ client'.delayedDeclare = client.delayedDeclare /\ client'.messages = client.messages
      /\ client'.delayedBindings = client.delayedBindings
      /\ ~Closing /\ IsSeq(broker.out)
  BY HandleIs
<1>2. /\ broker'.closed = broker.closed /\ broker'.unacked = broker.unacked
      /\ broker'.consumer = broker.consumer /\ broker'.prefetch = broker.prefetch
      /\ broker'.acked = broker.acked
  BY DEF SameBroker, BrokerFields
<1>3. UNCHANGED World
  BY DEF Handles
<1>4. /\ Fewer(broker.out, broker'.out, {"QueueDeclareOk"})
      /\ Fewer(broker.out, broker'.out, {"ExchangeDeclareOk"})
      /\ Fewer(broker.out, broker'.out, Pieces)
  <2>1. CASE broker'.out = broker.out
    BY <2>1, FewerSame
  <2>2. CASE /\ broker'.out = Append(broker.out, r)
             /\ r.kind \notin Pieces \cup {"QueueDeclareOk", "ExchangeDeclareOk", "ConnectionClose"}
    BY <1>1, <2>2, AnswerFewer
  <2> QED
    BY <2>1, <2>2
<1>5. DeclareInv'
  BY <1>1, <1>3, <1>4, DeclareKept DEF SessionInv, World
<1>6. BindInv' /\ (BindPending' => BindPending)
  BY <1>1, <1>3, <1>4, BindKept DEF SessionInv, World
<1>7. ConsumeInv'
  BY <1>1, <1>2, <1>3, <1>4, ConsumeKept DEF SessionInv, World
<1>8. QosInv'
  <2>1. /\ client.out # << >> /\ client'.out = Tail(client.out)
        /\ Head(client.out).kind # "Qos" /\ (Closing => Closing')
    BY <1>1, TakenIs DEF Handles
  <2> QED
    BY <1>2, <2>1, QosTail
<1>9. AckedIsStored'
  BY <1>2, <1>3 DEF SessionInv, AckedIsStored, World
<1>10. \/ broker'.out = broker.out
       \/ /\ broker'.out = Append(broker.out, r) /\ AnswerOK(r)'
          /\ r.kind \notin Pieces \cup {"ConnectionClose"}
  OBVIOUS
<1>11. QED
  BY <1>2, <1>5, <1>6, <1>7, <1>8, <1>9, <1>10, HandledRest

\* The handshake, a channel and the binding: an answer and no more.
LEMMA QuietHandled ==
  ASSUME SessionInv, NEW f, Handles(f),
         f.kind \in {"Header", "StartOk", "TuneOk", "ConnectionOpen", "ChannelOpen", "Bind"}
  PROVE  SessionInv'
<1>1. /\ BrokerTypes(broker) /\ DOMAIN broker = BrokerFields /\ ~Closing /\ AskOK(f)
      /\ IsSeq(broker.out) /\ f.ch \notin broker.closed
      /\ f.ch \in Chan /\ f.kind # "ChannelOpen" => f.ch \in broker.chans
  BY HandleIs
<1>2. broker' = BrokerHandle(broker, f) /\ f.kind # "Qos"
  BY DEF Handles
<1>3. ASSUME NEW r, NEW S, S \subseteq {"phase", "chans", "bound", "out"},
             NEW g, DOMAIN g = BrokerFields, SameBroker(broker, g, S), g.out = broker.out,
             g.phase \in {"none", "start", "tune", "open"}, broker.chans \subseteq g.chans,
             g.chans \subseteq Chan, broker' = Reply(g, r),
             r.kind \in {"Start", "Tune", "ConnectionOpenOk", "ChannelOpenOk", "BindOk"},
             r.kind = "ChannelOpenOk" => r.ch \in g.chans
      PROVE  SessionInv'
  <2>1. DOMAIN broker' = BrokerFields /\ SameBroker(g, broker', {"out"}) /\ broker'.out = Append(broker.out, r)
    BY <1>3, ReplyIs
  <2>2. /\ broker'.phase = g.phase /\ broker'.chans = g.chans
        /\ broker'.closed = broker.closed /\ broker'.unacked = broker.unacked
        /\ broker'.queue = broker.queue /\ broker'.consumer = broker.consumer
        /\ broker'.noAck = broker.noAck /\ broker'.nextTag = broker.nextTag
    BY <1>3, <2>1 DEF SameBroker, BrokerFields
  <2>3. IsSeq(broker'.out)
    BY <1>1, <2>1, AppendIsSeq
  <2>4. BrokerTypes(broker')
    BY <1>1, <1>3, <2>1, <2>2, <2>3 DEF BrokerTypes
  <2>5. SameBroker(broker, broker', {"phase", "chans", "bound", "out"})
    BY <1>3, <2>1 DEF SameBroker
  <2>6. AnswerOK(r)'
    <3>1. r.kind = "ChannelOpenOk" /\ r.ch = "queue" => QueueUp'
      BY <1>3, <2>2 DEF QueueUp
    <3>2. r.kind = "ChannelOpenOk" => r.ch \in Chan
      BY <1>3
    <3> QED
      BY <1>3, <3>1, <3>2 DEF AnswerOK, Answered, Pieces, ConnectionMethods, ChannelMethods, QueueMethods
  <2>7. r.kind \notin Pieces \cup {"QueueDeclareOk", "ExchangeDeclareOk", "ConnectionClose"}
    BY <1>3 DEF Pieces
  <2> QED
    BY <1>2, <1>3, <2>1, <2>2, <2>4, <2>5, <2>6, <2>7, HandledQuiet
<1>4. broker.phase \in {"none", "start", "tune", "open"} /\ broker.chans \subseteq Chan
  BY <1>1 DEF BrokerTypes, Closing
<1>5. CASE f.kind = "Header"
  <2>1. PICK g, r : g = [broker EXCEPT !.phase = "start"] /\ r = Method("connection", "Start")
    OBVIOUS
  <2>2. /\ DOMAIN g = BrokerFields /\ SameBroker(broker, g, {"phase"}) /\ g.phase = "start"
        /\ g.out = broker.out /\ g.chans = broker.chans
    BY <1>1, <2>1 DEF SameBroker, BrokerFields
  <2>3. broker' = Reply(g, r) /\ r.kind = "Start"
    BY <1>2, <1>5, <2>1, MethodIs DEF BrokerHandle
  <2> QED
    BY <1>3, <1>4, <2>2, <2>3
<1>6. CASE f.kind = "StartOk"
  <2>1. PICK g, r : g = [broker EXCEPT !.phase = "tune"] /\ r = Method("connection", "Tune")
    OBVIOUS
  <2>2. /\ DOMAIN g = BrokerFields /\ SameBroker(broker, g, {"phase"}) /\ g.phase = "tune"
        /\ g.out = broker.out /\ g.chans = broker.chans
    BY <1>1, <2>1 DEF SameBroker, BrokerFields
  <2>3. broker' = Reply(g, r) /\ r.kind = "Tune"
    BY <1>2, <1>6, <2>1, MethodIs DEF BrokerHandle
  <2> QED
    BY <1>3, <1>4, <2>2, <2>3
<1>7. CASE f.kind = "TuneOk"
  <2>1. broker' = broker
    BY <1>2, <1>7 DEF BrokerHandle
  <2>2. SameBroker(broker, broker', {"phase", "chans", "bound", "out"}) /\ BrokerTypes(broker')
    BY <1>1, <2>1 DEF SameBroker
  <2> QED
    BY <1>2, <1>4, <2>1, <2>2, HandledQuiet
<1>8. CASE f.kind = "ConnectionOpen"
  <2>1. PICK g, r : g = [broker EXCEPT !.phase = "open"] /\ r = Method("connection", "ConnectionOpenOk")
    OBVIOUS
  <2>2. /\ DOMAIN g = BrokerFields /\ SameBroker(broker, g, {"phase"}) /\ g.phase = "open"
        /\ g.out = broker.out /\ g.chans = broker.chans
    BY <1>1, <2>1 DEF SameBroker, BrokerFields
  <2>3. broker' = Reply(g, r) /\ r.kind = "ConnectionOpenOk"
    BY <1>2, <1>8, <2>1, MethodIs DEF BrokerHandle
  <2> QED
    BY <1>3, <1>4, <2>2, <2>3
<1>9. CASE f.kind = "ChannelOpen"
  <2>1. PICK g, r : /\ g = [broker EXCEPT !.chans = @ \cup {f.ch}]
                    /\ r = Method(f.ch, "ChannelOpenOk")
    OBVIOUS
  <2>2. /\ DOMAIN g = BrokerFields /\ SameBroker(broker, g, {"chans"}) /\ g.phase = broker.phase
        /\ g.out = broker.out /\ g.chans = broker.chans \cup {f.ch}
    BY <1>1, <2>1 DEF SameBroker, BrokerFields
  <2>3. broker' = Reply(g, r) /\ r.kind = "ChannelOpenOk" /\ r.ch = f.ch
    BY <1>2, <1>9, <2>1, MethodIs DEF BrokerHandle
  <2>4. f.ch \in Chan
    BY <1>1, <1>9 DEF AskOK
  <2> QED
    BY <1>3, <1>4, <2>2, <2>3, <2>4
<1>10. CASE f.kind = "Bind"
  <2>1. PICK g, r : g = [broker EXCEPT !.bound = TRUE] /\ r = Method(f.ch, "BindOk")
    OBVIOUS
  <2>2. /\ DOMAIN g = BrokerFields /\ SameBroker(broker, g, {"bound"}) /\ g.phase = broker.phase
        /\ g.out = broker.out /\ g.chans = broker.chans
    BY <1>1, <2>1 DEF SameBroker, BrokerFields
  <2>3. broker' = Reply(g, r) /\ r.kind = "BindOk"
    BY <1>2, <1>10, <2>1, MethodIs DEF BrokerHandle
  <2> QED
    BY <1>3, <1>4, <2>2, <2>3
<1>11. QED
  BY <1>5, <1>6, <1>7, <1>8, <1>9, <1>10

\* An answer to a method of the queue or of the exchange.
LEMMA AnswerIs ==
  ASSUME SessionInv, NEW f, Handles(f), NEW g, NEW r, DOMAIN g = BrokerFields, NEW S,
         SameBroker(broker, g, S), S \subseteq {"qDeclared", "eDeclared", "prefetch"},
         broker' = Reply(g, r)
  PROVE  /\ BrokerTypes(broker') /\ SameBroker(broker, broker', S \cup {"out"})
         /\ broker'.out = Append(broker.out, r)
         /\ Kinds(broker'.out) = Kinds(broker.out) \cup {r.kind}
         /\ broker'.phase = broker.phase /\ broker'.chans = broker.chans
         /\ broker'.closed = broker.closed /\ broker'.unacked = broker.unacked
         /\ broker'.consumer = broker.consumer /\ broker'.acked = broker.acked
         /\ broker'.phase # "closing"
<1>1. /\ BrokerTypes(broker) /\ DOMAIN broker = BrokerFields /\ ~Closing /\ IsSeq(broker.out)
  BY HandleIs
<1>2. g.out = broker.out
  BY DEF SameBroker, BrokerFields
<1>3. DOMAIN broker' = BrokerFields /\ SameBroker(g, broker', {"out"}) /\ broker'.out = Append(broker.out, r)
  BY <1>2, ReplyIs
<1>4. SameBroker(broker, broker', S \cup {"out"})
  BY <1>3 DEF SameBroker
<1>5. IsSeq(broker'.out) /\ Kinds(broker'.out) = Kinds(broker.out) \cup {r.kind}
  <2>1. IsSeq(broker'.out)
    BY <1>1, <1>3, AppendIsSeq
  <2>2. Kinds(Append(broker.out, r)) = Kinds(broker.out) \cup {r.kind}
    BY <1>1, AppendKinds
  <2> QED
    BY <1>3, <2>1, <2>2
<1>6. BrokerTypes(broker')
  <2>1. S \cup {"out"} \subseteq {"out", "acked", "prefetch", "qDeclared", "eDeclared", "bound"}
    OBVIOUS
  <2> QED
    BY <1>1, <1>3, <1>4, <1>5, <2>1, BrokerTypesOfSame
<1>7. /\ broker'.phase = broker.phase /\ broker'.chans = broker.chans
      /\ broker'.closed = broker.closed /\ broker'.unacked = broker.unacked
      /\ broker'.consumer = broker.consumer /\ broker'.acked = broker.acked
  BY <1>4 DEF SameBroker, BrokerFields
<1>8. broker'.phase # "closing"
  BY <1>1, <1>7 DEF Closing
<1>9. QED
  BY <1>3, <1>4, <1>5, <1>6, <1>7, <1>8

LEMMA QueueDeclareHandled ==
  ASSUME SessionInv, NEW f, Handles(f), f.kind = "QueueDeclare"
  PROVE  SessionInv'
<1>1. /\ BrokerTypes(broker) /\ DOMAIN broker = BrokerFields /\ ~Closing /\ AskOK(f)
      /\ IsSeq(broker.out) /\ f.kind \in Kinds(client.out)
      /\ \A K : Fewer(client.out, client'.out, K)
      /\ \A kind : Once(client.out, kind) /\ f.kind = kind => kind \notin Kinds(client'.out)
      /\ client'.delayedDeclare = client.delayedDeclare /\ client'.messages = client.messages
      /\ client'.delayedBindings = client.delayedBindings
  BY HandleIs
<1>2. /\ client.out # << >> /\ client'.out = Tail(client.out) /\ Head(client.out).kind # "Qos"
      /\ UNCHANGED World
  BY TakenIs DEF Handles
<1>3. PICK g, r : g = [broker EXCEPT !.qDeclared = TRUE] /\ r = Method(f.ch, "QueueDeclareOk")
  OBVIOUS
<1>4. DOMAIN g = BrokerFields /\ SameBroker(broker, g, {"qDeclared"})
  BY <1>1, <1>3 DEF SameBroker, BrokerFields
<1>5. broker' = Reply(g, r) /\ r.kind = "QueueDeclareOk"
  BY <1>3, MethodIs DEF BrokerHandle, Handles
<1>6. /\ BrokerTypes(broker') /\ SameBroker(broker, broker', {"qDeclared"} \cup {"out"})
      /\ broker'.out = Append(broker.out, r)
      /\ Kinds(broker'.out) = Kinds(broker.out) \cup {r.kind}
      /\ broker'.phase = broker.phase /\ broker'.chans = broker.chans
      /\ broker'.closed = broker.closed /\ broker'.unacked = broker.unacked
      /\ broker'.consumer = broker.consumer /\ broker'.acked = broker.acked
      /\ broker'.phase # "closing"
  BY <1>4, <1>5, AnswerIs
<1>7. broker'.prefetch = broker.prefetch
  BY <1>6 DEF SameBroker, BrokerFields
<1>8. /\ Fewer(broker.out, broker'.out, {"ExchangeDeclareOk"})
      /\ Fewer(broker.out, broker'.out, Pieces)
      /\ r.kind \notin Pieces \cup {"ConnectionClose"}
  <2>1. r.kind \notin {"ExchangeDeclareOk"} /\ r.kind \notin Pieces
    BY <1>5 DEF Pieces
  <2> QED
    BY <1>1, <1>5, <1>6, <2>1, AnswerFewer
<1>9. AnswerOK(r)'
  <2>1. QueueUp'
    BY <1>1, <1>6 DEF AskOK, OfQueue, QueueUp, Closing
  <2> QED
    BY <1>5, <2>1 DEF AnswerOK, Answered, Pieces
<1>10. DeclareInv'
  <2>1. DeclareInv /\ Fewer(client.out, client'.out, {"QueueDeclare"})
    BY <1>1 DEF SessionInv
  <2>2. subscribed = 0 /\ "QueueDeclareOk" \notin Kinds(broker.out) /\ ~client.delayedDeclare["queue"]
    BY <1>1, <2>1 DEF DeclareInv
  <2>3. Once(broker'.out, "QueueDeclareOk")
    BY <1>1, <1>5, <1>6, <2>2, AppendKinds
  <2>4. "QueueDeclare" \notin Kinds(client'.out) /\ Once(client'.out, "QueueDeclare")
    BY <1>1, <2>1 DEF DeclareInv, Fewer
  <2> QED
    BY <1>1, <1>2, <2>1, <2>2, <2>3, <2>4 DEF DeclareInv, World
<1>11. BindInv' /\ (BindPending' => BindPending)
  BY <1>1, <1>2, <1>8, BindKept DEF SessionInv, World
<1>12. ConsumeInv'
  BY <1>1, <1>2, <1>6, <1>7, <1>8, ConsumeKept DEF SessionInv, World
<1>13. QosInv'
  BY <1>1, <1>2, <1>6, <1>7, QosTail DEF Closing
<1>14. AckedIsStored'
  BY <1>2, <1>6 DEF SessionInv, AckedIsStored, World
<1>15. QED
  BY <1>6, <1>8, <1>9, <1>10, <1>11, <1>12, <1>13, <1>14, HandledRest

LEMMA ExchangeDeclareHandled ==
  ASSUME SessionInv, NEW f, Handles(f), f.kind = "ExchangeDeclare"
  PROVE  SessionInv'
<1>1. /\ BrokerTypes(broker) /\ DOMAIN broker = BrokerFields /\ ~Closing
      /\ IsSeq(broker.out) /\ f.kind \in Kinds(client.out)
      /\ \A K : Fewer(client.out, client'.out, K)
      /\ \A kind : Once(client.out, kind) /\ f.kind = kind => kind \notin Kinds(client'.out)
      /\ client'.delayedDeclare = client.delayedDeclare /\ client'.messages = client.messages
      /\ client'.delayedBindings = client.delayedBindings
  BY HandleIs
<1>2. /\ client.out # << >> /\ client'.out = Tail(client.out) /\ Head(client.out).kind # "Qos"
      /\ UNCHANGED World
  BY TakenIs DEF Handles
<1>3. PICK g, r : g = [broker EXCEPT !.eDeclared = TRUE] /\ r = Method(f.ch, "ExchangeDeclareOk")
  OBVIOUS
<1>4. DOMAIN g = BrokerFields /\ SameBroker(broker, g, {"eDeclared"})
  BY <1>1, <1>3 DEF SameBroker, BrokerFields
<1>5. broker' = Reply(g, r) /\ r.kind = "ExchangeDeclareOk"
  BY <1>3, MethodIs DEF BrokerHandle, Handles
<1>6. /\ BrokerTypes(broker') /\ SameBroker(broker, broker', {"eDeclared"} \cup {"out"})
      /\ broker'.out = Append(broker.out, r)
      /\ Kinds(broker'.out) = Kinds(broker.out) \cup {r.kind}
      /\ broker'.phase = broker.phase /\ broker'.chans = broker.chans
      /\ broker'.closed = broker.closed /\ broker'.unacked = broker.unacked
      /\ broker'.consumer = broker.consumer /\ broker'.acked = broker.acked
      /\ broker'.phase # "closing"
  BY <1>4, <1>5, AnswerIs
<1>7. broker'.prefetch = broker.prefetch
  BY <1>6 DEF SameBroker, BrokerFields
<1>8. /\ Fewer(broker.out, broker'.out, {"QueueDeclareOk"})
      /\ Fewer(broker.out, broker'.out, Pieces)
      /\ r.kind \notin Pieces \cup {"ConnectionClose"}
  <2>1. r.kind \notin {"QueueDeclareOk"} /\ r.kind \notin Pieces
    BY <1>5 DEF Pieces
  <2> QED
    BY <1>1, <1>5, <1>6, <2>1, AnswerFewer
<1>9. AnswerOK(r)'
  BY <1>5 DEF AnswerOK, Answered, Pieces
<1>10. DeclareInv'
  BY <1>1, <1>2, <1>8, DeclareKept DEF SessionInv, World
<1>11. BindInv' /\ (BindPending' => BindPending)
  <2>1. BindInv /\ Fewer(client.out, client'.out, {"ExchangeDeclare", "Bind"}) /\ Sent
    BY <1>1 DEF SessionInv, Sent
  <2>2. ~ToDeclare /\ ~ToSend /\ ~Declared /\ ~ToBind /\ ~Bound
    BY <2>1 DEF BindInv
  <2>3. Once(broker'.out, "ExchangeDeclareOk")
    BY <1>1, <1>5, <1>6, <2>2, AppendKinds DEF Declared
  <2>4. ~Sent' /\ Once(client'.out, "ExchangeDeclare") /\ Once(client'.out, "Bind")
    BY <1>1, <2>1 DEF BindInv, Fewer, Sent
  <2>5. ~ToDeclare' /\ ~ToSend' /\ ~ToBind' /\ ~Bound'
    BY <1>1, <1>2, <2>1, <2>2 DEF ToDeclare, ToSend, ToBind, Bound, Fewer, World
  <2> QED
    BY <2>1, <2>3, <2>4, <2>5 DEF BindInv, BindPending
<1>12. ConsumeInv'
  BY <1>1, <1>2, <1>6, <1>7, <1>8, ConsumeKept DEF SessionInv, World
<1>13. QosInv'
  BY <1>1, <1>2, <1>6, <1>7, QosTail DEF Closing
<1>14. AckedIsStored'
  BY <1>2, <1>6 DEF SessionInv, AckedIsStored, World
<1>15. QED
  BY <1>6, <1>8, <1>9, <1>10, <1>11, <1>12, <1>13, <1>14, HandledRest

LEMMA QosHandled ==
  ASSUME SessionInv, NEW f, Handles(f), f.kind = "Qos"
  PROVE  SessionInv'
<1>1. /\ BrokerTypes(broker) /\ DOMAIN broker = BrokerFields /\ AskOK(f) /\ IsSeq(broker.out)
      /\ \A K : Fewer(client.out, client'.out, K)
      /\ client'.delayedDeclare = client.delayedDeclare /\ client'.messages = client.messages
      /\ client'.delayedBindings = client.delayedBindings
  BY HandleIs
<1>2. UNCHANGED World
  BY DEF Handles
<1>3. PICK g, r : g = [broker EXCEPT !.prefetch = f.n] /\ r = Method(f.ch, "QosOk")
  OBVIOUS
<1>4. DOMAIN g = BrokerFields /\ SameBroker(broker, g, {"prefetch"}) /\ g.prefetch = 1
  BY <1>1, <1>3 DEF SameBroker, BrokerFields, AskOK
<1>5. broker' = Reply(g, r) /\ r.kind = "QosOk"
  BY <1>3, MethodIs DEF BrokerHandle, Handles
<1>6. /\ BrokerTypes(broker') /\ broker'.out = Append(broker.out, r)
      /\ broker'.phase = broker.phase /\ broker'.chans = broker.chans
      /\ broker'.closed = broker.closed /\ broker'.unacked = broker.unacked
      /\ broker'.consumer = broker.consumer /\ broker'.acked = broker.acked
      /\ broker'.phase # "closing"
  BY <1>4, <1>5, AnswerIs
<1>7. broker'.prefetch = 1
  <2>1. SameBroker(g, broker', {"out"})
    BY <1>4, <1>5, ReplyIs
  <2> QED
    BY <1>4, <2>1 DEF SameBroker, BrokerFields
<1>8. /\ Fewer(broker.out, broker'.out, {"QueueDeclareOk"})
      /\ Fewer(broker.out, broker'.out, {"ExchangeDeclareOk"})
      /\ Fewer(broker.out, broker'.out, Pieces)
      /\ r.kind \notin Pieces \cup {"ConnectionClose"}
  <2>1. r.kind \notin {"QueueDeclareOk"} /\ r.kind \notin {"ExchangeDeclareOk"} /\ r.kind \notin Pieces
    BY <1>5 DEF Pieces
  <2> QED
    BY <1>1, <1>5, <1>6, <2>1, AnswerFewer
<1>9. AnswerOK(r)'
  BY <1>5 DEF AnswerOK, Answered, Pieces, QueueMethods
<1>10. DeclareInv'
  BY <1>1, <1>2, <1>8, DeclareKept DEF SessionInv, World
<1>11. BindInv' /\ (BindPending' => BindPending)
  BY <1>1, <1>2, <1>8, BindKept DEF SessionInv, World
<1>12. ConsumeInv'
  <2>1. ConsumeInv /\ Fewer(client.out, client'.out, {"Consume", "Ack"})
    BY <1>1 DEF SessionInv
  <2>2. /\ Once(client'.out, "Consume") /\ Once(client'.out, "Ack")
        /\ "Consume" \in Kinds(client'.out) => "Consume" \in Kinds(client.out)
    BY <2>1 DEF ConsumeInv, Fewer
  <2>3. Idle => Idle'
    BY <1>1, <1>8, <2>1 DEF Idle, NoPieces, Fewer
  <2> QED
    BY <1>2, <1>6, <1>7, <2>1, <2>2, <2>3 DEF ConsumeInv, World
<1>13. QosInv'
  BY <1>7 DEF QosInv
<1>14. AckedIsStored'
  BY <1>2, <1>6 DEF SessionInv, AckedIsStored, World
<1>15. QED
  BY <1>6, <1>8, <1>9, <1>10, <1>11, <1>12, <1>13, <1>14, HandledRest

\* The broker starts to deliver, and it knows of the prefetch of one.
LEMMA ConsumeHandled ==
  ASSUME SessionInv, NEW f, Handles(f), f.kind = "Consume"
  PROVE  SessionInv'
<1>1. /\ BrokerTypes(broker) /\ DOMAIN broker = BrokerFields /\ AskOK(f) /\ IsSeq(broker.out)
      /\ f.kind \in Kinds(client.out) /\ ~Closing /\ f.ch \notin broker.closed
      /\ f.ch \in Chan /\ f.kind # "ChannelOpen" => f.ch \in broker.chans
      /\ \A K : Fewer(client.out, client'.out, K)
      /\ \A kind : Once(client.out, kind) /\ f.kind = kind => kind \notin Kinds(client'.out)
      /\ client'.delayedDeclare = client.delayedDeclare /\ client'.messages = client.messages
      /\ client'.delayedBindings = client.delayedBindings
  BY HandleIs
<1>2. /\ client.out # << >> /\ client'.out = Tail(client.out) /\ Head(client.out).kind # "Qos"
      /\ f = Head(client.out) /\ IsSeq(client.out) /\ UNCHANGED World
  BY TakenIs DEF Handles
<1>3. f.ch = "queue" /\ f.n = 0 /\ "queue" \in broker.chans /\ "queue" \notin broker.closed
  BY <1>1 DEF AskOK, OfQueue, Chan
<1>4. /\ subscribed = 1 /\ Idle /\ broker.unacked = << >> /\ broker.consumer = 0
      /\ Once(client.out, "Consume")
  BY <1>1 DEF SessionInv, ConsumeInv
<1>5. broker.prefetch = 1
  <2>1. PICK s : s = client.out
    OBVIOUS
  <2>2. Len(s) \in Nat \ {0} /\ Head(s) = s[1] /\ DOMAIN s = 1 .. Len(s)
    BY <1>2, <2>1, ShorterStream
  <2>3. 1 \in DOMAIN s /\ s[1].kind = "Consume"
    BY <1>2, <2>1, <2>2
  <2>4. ~(\E j \in DOMAIN s : j < 1 /\ s[j].kind = "Qos")
    BY <2>2
  <2> QED
    BY <1>1, <1>3, <2>1, <2>3, <2>4 DEF SessionInv, QosInv
<1>6. PICK g, r : /\ g = [broker EXCEPT !.consumer = @ + 1, !.noAck = (f.n = 1)]
                  /\ r = Frame(f.ch, "ConsumeOk", 0, broker.consumer + 1, NoMsg)
  OBVIOUS
<1>7. /\ DOMAIN g = BrokerFields /\ SameBroker(broker, g, {"consumer", "noAck"})
      /\ g.consumer = 1 /\ g.noAck = FALSE /\ g.out = broker.out
  <2>1. broker.consumer + 1 = 1 /\ (f.n = 1) = FALSE
    BY <1>3, <1>4
  <2>2. PICK x, y : x = broker.consumer + 1 /\ y = (f.n = 1)
    OBVIOUS
  <2>3. g = [broker EXCEPT !.consumer = x, !.noAck = y]
    BY <1>6, <2>2
  <2>4. /\ DOMAIN g = BrokerFields /\ SameBroker(broker, g, {"consumer", "noAck"})
        /\ g.consumer = x /\ g.noAck = y /\ g.out = broker.out
    BY <1>1, <2>3 DEF SameBroker, BrokerFields
  <2> QED
    BY <2>1, <2>2, <2>4
<1>8. broker' = Reply(g, r) /\ r.kind = "ConsumeOk"
  BY <1>6 DEF BrokerHandle, Handles, Frame
<1>9. /\ DOMAIN broker' = BrokerFields /\ SameBroker(g, broker', {"out"})
      /\ broker'.out = Append(broker.out, r)
  BY <1>7, <1>8, ReplyIs
<1>10. /\ broker'.phase = broker.phase /\ broker'.chans = broker.chans
       /\ broker'.closed = broker.closed /\ broker'.unacked = broker.unacked
       /\ broker'.consumer = 1 /\ broker'.acked = broker.acked /\ broker'.prefetch = 1
       /\ broker'.noAck = FALSE /\ broker'.nextTag = broker.nextTag
       /\ broker'.queue = broker.queue
  BY <1>5, <1>7, <1>9 DEF SameBroker, BrokerFields
<1>11. BrokerTypes(broker') /\ broker'.phase # "closing"
  <2>1. IsSeq(broker'.out)
    BY <1>1, <1>9, AppendIsSeq
  <2> QED
    BY <1>1, <1>3, <1>9, <1>10, <2>1 DEF BrokerTypes, Closing
<1>12. /\ Fewer(broker.out, broker'.out, {"QueueDeclareOk"})
       /\ Fewer(broker.out, broker'.out, {"ExchangeDeclareOk"})
       /\ Fewer(broker.out, broker'.out, Pieces)
       /\ r.kind \notin Pieces \cup {"ConnectionClose"}
  <2>1. r.kind \notin {"QueueDeclareOk"} /\ r.kind \notin {"ExchangeDeclareOk"} /\ r.kind \notin Pieces
    BY <1>8 DEF Pieces
  <2> QED
    BY <1>1, <1>8, <1>9, <2>1, AnswerFewer
<1>13. AnswerOK(r)'
  BY <1>8 DEF AnswerOK, Answered, Pieces, QueueMethods
<1>14. DeclareInv'
  BY <1>1, <1>2, <1>12, DeclareKept DEF SessionInv, World
<1>15. BindInv' /\ (BindPending' => BindPending)
  BY <1>1, <1>2, <1>12, BindKept DEF SessionInv, World
<1>16. ConsumeInv'
  <2>1. ConsumeInv /\ Fewer(client.out, client'.out, {"Consume", "Ack"})
    BY <1>1 DEF SessionInv
  <2>2. /\ Once(client'.out, "Consume") /\ Once(client'.out, "Ack")
        /\ "Consume" \notin Kinds(client'.out)
    BY <1>1, <1>4, <2>1 DEF ConsumeInv, Fewer
  <2>3. Idle'
    BY <1>1, <1>4, <1>12, <2>1 DEF Idle, NoPieces, Fewer
  <2>4. subscribed' = 1
    BY <1>2, <1>4 DEF World
  <2> QED
    BY <1>10, <2>2, <2>3, <2>4 DEF ConsumeInv
<1>17. QosInv'
  BY <1>10 DEF QosInv
<1>18. AckedIsStored'
  BY <1>2, <1>10 DEF SessionInv, AckedIsStored, World
<1>19. QED
  BY <1>9, <1>10, <1>11, <1>12, <1>13, <1>14, <1>15, <1>16, <1>17, <1>18, HandledRest

\* What an acknowledgement takes: nothing, or the one delivery there is.
LEMMA AcknowledgeIs ==
  ASSUME NEW b, BrokerTypes(b), NEW tag, NEW d, d = Acknowledge(b, tag), d # b
  PROVE  /\ BrokerTypes(d) /\ SameBroker(b, d, {"acked", "unacked"}) /\ d.unacked = << >>
         /\ \E u \in ToSet(b.unacked) : u.tag = tag /\ d.acked = b.acked \cup {u.msg}
<1>1. PICK u, taken : u = b.unacked /\ taken = {i \in DOMAIN u : u[i].tag = tag}
  OBVIOUS
<1>2. taken # {}
  BY <1>1 DEF Acknowledge
<1>3. PICK i : i = (CHOOSE j \in taken : TRUE)
  OBVIOUS
<1>4. i \in taken
  BY <1>2, <1>3, SMTT(60)
<1>5. d = [b EXCEPT !.acked = b.acked \cup {u[i].msg}, !.unacked = RemoveAt(u, i)]
  BY <1>1, <1>2, <1>3 DEF Acknowledge
<1>6. u \in Seq(ToSet(u)) /\ Len(u) \in Nat /\ Len(u) <= 1 /\ DOMAIN u = 1 .. Len(u)
  BY <1>1, LenProperties DEF BrokerTypes, IsSeq
<1>7. i = 1 /\ Len(u) = 1 /\ u[i].tag = tag /\ i \in DOMAIN u
  <2>1. PICK n \in Nat : n = Len(u) /\ n <= 1
    BY <1>6
  <2>2. i \in 1 .. n /\ u[i].tag = tag /\ i \in DOMAIN u
    BY <1>1, <1>4, <1>6, <2>1
  <2>3. n = 1 /\ i = 1
    BY <2>1, <2>2
  <2> QED
    BY <2>1, <2>2, <2>3, SMTT(60)
<1>8. RemoveAt(u, i) = << >>
  <2>1. SubSeq(u, 1, 0) = << >> /\ SubSeq(u, 2, 1) = << >>
    BY <1>6
  <2> QED
    BY <1>7, <2>1 DEF RemoveAt
<1>9. /\ DOMAIN d = BrokerFields /\ SameBroker(b, d, {"acked", "unacked"})
      /\ d.unacked = << >> /\ d.acked = b.acked \cup {u[i].msg}
  BY <1>5, <1>8 DEF BrokerTypes, SameBroker, BrokerFields
<1>10. /\ d.phase = b.phase /\ d.chans = b.chans /\ d.closed = b.closed /\ d.noAck = b.noAck
       /\ d.nextTag = b.nextTag /\ d.queue = b.queue /\ d.consumer = b.consumer /\ d.out = b.out
  BY <1>9 DEF SameBroker, BrokerFields
<1>11. IsSeq(d.unacked) /\ Len(d.unacked) = 0 /\ ToSet(d.unacked) = {}
  BY <1>9, EmptyStream
<1>12. BrokerTypes(d)
  BY <1>9, <1>10, <1>11 DEF BrokerTypes
<1>13. u[i] \in ToSet(u)
  BY <1>7 DEF ToSet
<1>14. QED
  BY <1>1, <1>7, <1>9, <1>12, <1>13

LEMMA AckHandled ==
  ASSUME SessionInv, NEW f, Handles(f), f.kind = "Ack"
  PROVE  SessionInv'
<1>1. /\ BrokerTypes(broker) /\ AskOK(f) /\ f.kind \in Kinds(client.out) /\ ~Closing
      /\ \A K : Fewer(client.out, client'.out, K)
      /\ \A kind : Once(client.out, kind) /\ f.kind = kind => kind \notin Kinds(client'.out)
      /\ client'.delayedDeclare = client.delayedDeclare /\ client'.messages = client.messages
      /\ client'.delayedBindings = client.delayedBindings
  BY HandleIs
<1>2. /\ client.out # << >> /\ client'.out = Tail(client.out) /\ Head(client.out).kind # "Qos"
      /\ UNCHANGED World
  BY TakenIs DEF Handles
<1>3. broker' = Acknowledge(broker, f.n)
  BY DEF BrokerHandle, Handles
<1>4. /\ BrokerTypes(broker') /\ broker'.phase = broker.phase /\ broker'.chans = broker.chans
      /\ broker'.closed = broker.closed /\ broker'.consumer = broker.consumer
      /\ broker'.prefetch = broker.prefetch /\ broker'.out = broker.out
      /\ ToSet(broker'.unacked) \subseteq ToSet(broker.unacked)
      /\ \A m \in broker'.acked :
            m \in broker.acked \/ \E u \in ToSet(broker.unacked) : u.tag = f.n /\ u.msg = m
  <2>1. CASE broker' = broker
    BY <1>1, <2>1
  <2>2. CASE broker' # broker
    <3>1. /\ BrokerTypes(broker') /\ SameBroker(broker, broker', {"acked", "unacked"})
          /\ broker'.unacked = << >>
          /\ \E u \in ToSet(broker.unacked) : u.tag = f.n /\ broker'.acked = broker.acked \cup {u.msg}
      BY <1>1, <1>3, <2>2, AcknowledgeIs
    <3>2. ToSet(broker'.unacked) = {}
      BY <3>1, EmptyStream
    <3>3. /\ broker'.phase = broker.phase /\ broker'.chans = broker.chans
          /\ broker'.closed = broker.closed /\ broker'.consumer = broker.consumer
          /\ broker'.prefetch = broker.prefetch /\ broker'.out = broker.out
      BY <3>1 DEF SameBroker, BrokerFields
    <3> QED
      BY <3>1, <3>2, <3>3
  <2> QED
    BY <2>1, <2>2
<1>5. client.messages = << >> /\ NoPieces
  BY <1>1 DEF SessionInv, DeliveryInv, Delivering
<1>6. \A K : Fewer(broker.out, broker'.out, K)
  BY <1>4, FewerSame
<1>7. DeclareInv'
  BY <1>1, <1>2, <1>6, DeclareKept DEF SessionInv, World
<1>8. BindInv' /\ (BindPending' => BindPending)
  BY <1>1, <1>2, <1>6, BindKept DEF SessionInv, World
<1>9. ConsumeInv'
  <2>1. ConsumeInv /\ Fewer(client.out, client'.out, {"Consume", "Ack"})
    BY <1>1 DEF SessionInv
  <2>2. /\ Once(client'.out, "Consume") /\ Once(client'.out, "Ack")
        /\ "Ack" \notin Kinds(client'.out)
        /\ "Consume" \in Kinds(client'.out) => "Consume" \in Kinds(client.out)
    BY <1>1, <2>1 DEF ConsumeInv, Fewer
  <2>3. Idle'
    BY <1>1, <1>4, <1>5, <2>2 DEF Idle, NoPieces
  <2>4. ~(subscribed = 0) /\ "Consume" \notin Kinds(client.out)
    BY <1>1, <2>1 DEF ConsumeInv, Idle
  <2>5. subscribed' = subscribed
    BY <1>2 DEF World
  <2> QED
    BY <1>4, <2>1, <2>2, <2>3, <2>4, <2>5 DEF ConsumeInv
<1>10. QosInv'
  BY <1>1, <1>2, <1>4, QosTail DEF Closing
<1>11. AckedIsStored'
  <2> SUFFICES ASSUME app = "midas", NEW m \in broker'.acked
               PROVE  Stored(m)
    BY <1>2 DEF AckedIsStored, World, Stored
  <2>1. CASE m \in broker.acked
    BY <2>1 DEF SessionInv, AckedIsStored, Stored
  <2>2. CASE m \notin broker.acked
    <3>1. PICK u \in ToSet(broker.unacked) : u.tag = f.n /\ u.msg = m
      BY <1>4, <2>2
    <3> QED
      BY <1>1, <3>1 DEF AskOK
  <2> QED
    BY <2>1, <2>2
<1>12. broker'.phase # "closing" /\ broker.chans \subseteq broker'.chans
  BY <1>1, <1>4 DEF Closing
<1>13. QED
  BY <1>4, <1>7, <1>8, <1>9, <1>10, <1>11, <1>12, HandledRest

LEMMA FrameHandled ==
  ASSUME SessionInv, NEW f, Handles(f)
  PROVE  SessionInv'
<1>1. f.kind \in Asked
  BY HandleIs DEF AskOK
<1>2. CASE f.kind \in {"Header", "StartOk", "TuneOk", "ConnectionOpen", "ChannelOpen", "Bind"}
  BY <1>2, QuietHandled
<1>3. CASE f.kind \in {"QueueDeclare", "ExchangeDeclare", "Qos", "Consume", "Ack"}
  BY <1>3, QueueDeclareHandled, ExchangeDeclareHandled, QosHandled, ConsumeHandled, AckHandled
<1>4. QED
  BY <1>1, <1>2, <1>3 DEF Asked, OfQueue

LEMMA ReadByBroker ==
  ASSUME SessionInv, BrokerReads
  PROVE  SessionInv'
<1>1. PICK f : f = Head(client.out)
  OBVIOUS
<1>2. /\ client.out # << >> /\ client' = [client EXCEPT !.out = Tail(@)]
      /\ UNCHANGED World /\ UNCHANGED faults
  BY DEF BrokerReads, World, diskVars, envVars
<1>3. \/ BrokerIgnores(broker, f) /\ broker' = broker
      \/ ~BrokerIgnores(broker, f) /\ BrokerRefuses(broker, f) /\ broker' = ForceClose(broker)
      \/ /\ ~BrokerIgnores(broker, f) /\ ~BrokerRefuses(broker, f)
         /\ broker' = BrokerHandle(broker, f)
  BY <1>1 DEF BrokerReads
<1>4. CASE BrokerIgnores(broker, f) /\ broker' = broker
  BY <1>1, <1>2, <1>4, FrameIgnored
<1>5. CASE /\ ~BrokerIgnores(broker, f) /\ BrokerRefuses(broker, f)
           /\ broker' = ForceClose(broker)
  BY <1>1, <1>2, <1>5, FrameRefused
<1>6. CASE /\ ~BrokerIgnores(broker, f) /\ ~BrokerRefuses(broker, f)
           /\ broker' = BrokerHandle(broker, f)
  BY <1>1, <1>2, <1>6, FrameHandled DEF Handles
<1>7. QED
  BY <1>3, <1>4, <1>5, <1>6

-----------------------------------------------------------------------------
(* The broker delivers                                                      *)

\* What follows the method: the header and the bodies.
Contents(m) == [i \in 1 .. Len(Publish(m)) - 1 |-> [Publish(m)[i + 1] EXCEPT !.ch = "queue"]]

LEMMA ContentsIs ==
  ASSUME NEW m \in Msg, NEW tag,
         NEW c, c = Contents(m)
  PROVE  /\ IsSeq(c) /\ Len(c) = Bodies(m) + 1
         /\ \A j \in 1 .. Bodies(m) + 1 : PieceOf(c[j], m, tag, j + 1)
<1>1. PICK n \in Nat : n = Bodies(m) /\ Length(m) = n + 2
  BY BodiesOf
<1>2. /\ Len(Publish(m)) - 1 = n + 1
      /\ Publish(m)[2] = Frame("exchange", "Content", Size[m], 0, m)
      /\ \A i \in 1 .. n : Publish(m)[i + 2] = Frame("exchange", "Body", BodySize(m, i), 0, m)
  <2>1. Len(Publish(m)) = n + 2
    BY <1>1, PublishIs
  <2>2. Len(Publish(m)) - 1 = n + 1
    BY <2>1
  <2> QED
    BY <1>1, <2>2, PublishIs
<1>3. DOMAIN c = 1 .. n + 1 /\ \A i \in 1 .. n + 1 : c[i] = [Publish(m)[i + 1] EXCEPT !.ch = "queue"]
  BY <1>2 DEF Contents
<1>4. ASSUME NEW j \in 1 .. n + 1 PROVE PieceOf(c[j], m, tag, j + 1)
  <2>1. CASE j = 1
    <3>1. PICK g : g = Frame("exchange", "Content", Size[m], 0, m)
      OBVIOUS
    <3>2. g = [ch |-> "exchange", kind |-> "Content", n |-> Size[m], tag |-> 0, msg |-> m]
      BY <3>1 DEF Frame
    <3>3. j + 1 = 2
      BY <2>1
    <3>4. c[j] = [g EXCEPT !.ch = "queue"]
      BY <1>2, <1>3, <3>1, <3>3
    <3> QED
      BY <3>2, <3>3, <3>4 DEF PieceOf
  <2>2. CASE j # 1
    <3>1. PICK i \in 1 .. n : j = i + 1
      <4>1. j - 1 \in 1 .. n /\ j = (j - 1) + 1
        BY <2>2
      <4> QED
        BY <4>1
    <3>2. PICK g : g = Frame("exchange", "Body", BodySize(m, i), 0, m)
      OBVIOUS
    <3>3. g = [ch |-> "exchange", kind |-> "Body", n |-> BodySize(m, i), tag |-> 0, msg |-> m]
      BY <3>2 DEF Frame
    <3>4. j + 1 = i + 2 /\ i + 2 # 1 /\ i + 2 # 2 /\ (i + 2) - 2 = i
      BY <3>1
    <3>5. c[j] = [g EXCEPT !.ch = "queue"]
      BY <1>2, <1>3, <3>2, <3>4, SMTT(60)
    <3>6. c[j].kind = "Body" /\ c[j].n = BodySize(m, i) /\ c[j].msg = m
      BY <3>3, <3>5
    <3> QED
      BY <3>4, <3>6 DEF PieceOf
  <2> QED
    BY <2>1, <2>2
<1>5. IsSeq(c) /\ Len(c) = n + 1
  <2> DEFINE C == {c[i] : i \in 1 .. n + 1}
  <2>1. c \in [1 .. n + 1 -> C]
    BY <1>3, <1>2 DEF Contents
  <2> HIDE DEF C
  <2>2. n + 1 \in Nat
    OBVIOUS
  <2>3. c \in Seq(C) /\ Len(c) = n + 1
    BY <2>1, <2>2, FunctionIsSeq
  <2> QED
    BY <2>3, SeqElements
<1>6. QED
  BY <1>1, <1>4, <1>5

\* A frame, and then others.
Follow(s, d, c, t) ==
  /\ IsSeq(t) /\ Len(t) = Len(s) + 1 + Len(c) /\ DOMAIN s = 1 .. Len(s)
  /\ \A i \in 1 .. Len(s) : t[i] = s[i]
  /\ t[Len(s) + 1] = d
  /\ \A j \in 1 .. Len(c) : t[Len(s) + 1 + j] = c[j]

LEMMA ThenOthers ==
  ASSUME NEW s, IsSeq(s), NEW d, NEW c, IsSeq(c)
  PROVE  \A t : t = s \o << d >> \o c => Follow(s, d, c, t)
<1>1. PICK e : e = Append(s, d)
  OBVIOUS
<1>2. /\ IsSeq(e) /\ Len(s) \in Nat /\ Len(e) = Len(s) + 1 /\ DOMAIN s = 1 .. Len(s)
      /\ \A i \in 1 .. Len(s) : e[i] = s[i]
      /\ e[Len(s) + 1] = d
  BY <1>1, AppendIsSeq, SMTT(60)
<1>3. PICK l \in Nat, n \in Nat : l = Len(s) /\ n = Len(c)
  BY <1>2, LenProperties DEF IsSeq
<1>4. PICK u : u = e \o c
  OBVIOUS
<1>5. s \o << d >> = e
  BY <1>1, ConcatOne
<1>6. IsSeq(u)
  BY <1>2, <1>4, ElementsOfConcat
<1>7. Len(u) = l + 1 + n /\ \A i \in 1 .. l + 1 + n : u[i] = IF i <= l + 1 THEN e[i] ELSE c[i - (l + 1)]
  <2> DEFINE S == ToSet(e) \cup ToSet(c)
  <2>1. e \in Seq(S) /\ c \in Seq(S)
    BY <1>2, SeqMonotonic DEF IsSeq
  <2> HIDE DEF S
  <2>2. /\ Len(e \o c) = Len(e) + Len(c)
        /\ \A i \in 1 .. Len(e) + Len(c) : (e \o c)[i] = IF i <= Len(e) THEN e[i] ELSE c[i - Len(e)]
    BY <2>1, ConcatProperties
  <2> QED
    BY <1>2, <1>3, <1>4, <2>2
<1>8. (\A i \in 1 .. l : u[i] = s[i]) /\ u[l + 1] = d
  BY <1>2, <1>3, <1>7
<1>9. ASSUME NEW j \in 1 .. n PROVE u[l + 1 + j] = c[j]
  <2>1. /\ l + 1 + j \in 1 .. l + 1 + n /\ ~(l + 1 + j <= l + 1)
        /\ (l + 1 + j) - (l + 1) = j
    OBVIOUS
  <2> QED
    BY <1>7, <2>1
<1>10. QED
  BY <1>2, <1>3, <1>4, <1>5, <1>6, <1>7, <1>8, <1>9, ZenonT(60) DEF Follow

\* The frames of a delivery, at the end of a stream that has none.
LEMMA DeliveryFrames ==
  ASSUME NEW m \in Msg, NEW s, IsSeq(s), Pieces \cap Kinds(s) = {},
         NEW tag, NEW d, d.kind = "Deliver", d.n = tag,
         NEW c, IsSeq(c), Len(c) = Bodies(m) + 1,
         \A j \in 1 .. Bodies(m) + 1 : PieceOf(c[j], m, tag, j + 1),
         NEW t, t = s \o << d >> \o c
  PROVE  /\ IsSeq(t) /\ Longer(s, t, Pieces)
         /\ Block(t, Len(s), 0, m, tag) /\ Len(s) \in 0 .. Len(t)
         /\ 0 \in 0 .. Length(m) - 1
<1>1. PICK n \in Nat : n = Bodies(m) /\ Length(m) = n + 2
  BY BodiesOf
<1>2. Len(c) = n + 1 /\ \A j \in 1 .. n + 1 : PieceOf(c[j], m, tag, j + 1)
  BY <1>1
<1>9. PICK l \in Nat : l = Len(s)
  BY LenProperties DEF IsSeq
<1>10. /\ IsSeq(t) /\ Len(t) = l + 1 + (n + 1) /\ DOMAIN s = 1 .. l
       /\ \A i \in 1 .. l : t[i] = s[i]
       /\ t[l + 1] = d
       /\ \A j \in 1 .. n + 1 : t[l + 1 + j] = c[j]
  <2>1. /\ IsSeq(t) /\ Len(t) = Len(s) + 1 + Len(c) /\ DOMAIN s = 1 .. Len(s)
        /\ \A i \in 1 .. Len(s) : t[i] = s[i]
        /\ t[Len(s) + 1] = d
        /\ \A j \in 1 .. Len(c) : t[Len(s) + 1 + j] = c[j]
    <3>1. Follow(s, d, c, t)
      BY ThenOthers
    <3> QED
      BY <3>1 DEF Follow
  <2> QED
    BY <1>2, <1>9, <2>1
<1>11. DOMAIN t = 1 .. l + 1 + (n + 1)
  BY <1>10, LenProperties DEF IsSeq
<1>15. PieceOf(d, m, tag, 1)
  BY DEF PieceOf
<1>16. \A i \in 1 .. l : t[i].kind \notin Pieces
  BY <1>10, ZenonT(60) DEF Kinds
<1>17. ASSUME NEW i \in 1 .. l + n + 2, l < i
       PROVE  PieceOf(t[i], m, tag, i - l)
  <2>1. CASE i = l + 1
    <3>1. i - l = 1
      BY <2>1
    <3> QED
      BY <1>10, <1>15, <2>1, <3>1
  <2>2. CASE i # l + 1
    <3>1. PICK j \in 1 .. n + 1 : i = l + 1 + j
      <4>1. i - l - 1 \in 1 .. n + 1 /\ i = l + 1 + (i - l - 1)
        BY <1>17, <2>2
      <4> QED
        BY <4>1
    <3>2. i - l = j + 1
      BY <3>1
    <3> QED
      BY <1>2, <1>10, <3>1, <3>2
  <2> QED
    BY <2>1, <2>2
<1>18. Block(t, l, 0, m, tag)
  <2>1. Len(t) = l + n + 2 /\ l + (n + 2) - 0 = l + n + 2 /\ 0 \in 0 .. (n + 2) - 1
    BY <1>10
  <2>2. ASSUME NEW i \in 1 .. l + n + 2
        PROVE  IF l < i /\ i <= l + (n + 2) - 0 THEN PieceOf(t[i], m, tag, 0 + i - l)
               ELSE t[i].kind \notin Pieces
    <3>1. CASE l < i
      <4>1. i <= l + (n + 2) - 0 /\ 0 + i - l = i - l
        OBVIOUS
      <4> QED
        BY <1>17, <3>1, <4>1
    <3>2. CASE ~(l < i)
      <4>1. i \in 1 .. l
        BY <3>2
      <4> QED
        BY <1>16, <3>2, <4>1
    <3> QED
      BY <3>1, <3>2
  <2> QED
    BY <1>1, <2>1, <2>2, SMTT(60) DEF Block
<1>19. Longer(s, t, Pieces)
  <2>1. ASSUME NEW i \in 1 .. l + 1 + (n + 1), i \notin 1 .. l PROVE t[i].kind \in Pieces
    <3>1. i \in 1 .. l + n + 2 /\ l < i
      BY <2>1
    <3> QED
      BY <1>17, <3>1, PieceKind
  <2>2. 1 .. l \subseteq 1 .. l + 1 + (n + 1)
    OBVIOUS
  <2> QED
    BY <1>10, <1>11, <2>1, <2>2 DEF Longer
<1>20. Len(s) \in 0 .. Len(t) /\ 0 \in 0 .. Length(m) - 1
  BY <1>1, <1>9, <1>10, SMTT(60)
<1>21. QED
  BY <1>9, <1>10, <1>18, <1>19, <1>20

\* A delivery of the first message of the queue.
Delivered(b, e) ==
  \E m \in Msg : \E d, c :
     /\ d.kind = "Deliver" /\ d.n = b.nextTag
     /\ c = Contents(m)
     /\ e.out = b.out \o << d >> \o c
     /\ e.unacked = << [tag |-> b.nextTag, msg |-> m] >>
     /\ SameBroker(b, e, {"queue", "nextTag", "unacked", "out"})
     /\ DOMAIN e = BrokerFields
     /\ e.queue = Tail(b.queue) /\ e.nextTag = b.nextTag + 1

LEMMA BrokerDeliverIs ==
  ASSUME NEW b, BrokerTypes(b), b.queue # << >>, b.unacked = << >>, b.consumer # 0, NEW e, e = Deliver(b)
  PROVE  Delivered(b, e)
<1>1. PICK m : m = Head(b.queue)
  OBVIOUS
<1>2. m \in Msg
  <2>1. m \in ToSet(b.queue)
    BY <1>1, ShorterStream DEF BrokerTypes
  <2> QED
    BY <2>1 DEF BrokerTypes
<1>3. PICK d : d = Frame("queue", "Deliver", b.nextTag, b.consumer, m)
  OBVIOUS
<1>4. PICK c : c = Contents(m)
  OBVIOUS
<1>5. PICK u : u = [tag |-> b.nextTag, msg |-> m]
  OBVIOUS
<1>6. e = [b EXCEPT !.queue = Tail(@), !.nextTag = @ + 1,
                    !.unacked = IF b.noAck THEN @ ELSE Append(@, u),
                    !.acked = IF b.noAck THEN @ \cup {m} ELSE @,
                    !.out = @ \o << d >> \o c]
  BY <1>1, <1>3, <1>4, <1>5 DEF Deliver, Contents
<1>7. PICK q, n, o : q = Tail(b.queue) /\ n = b.nextTag + 1 /\ o = b.out \o << d >> \o c
  OBVIOUS
<1>8. ~b.noAck /\ DOMAIN b = BrokerFields
  BY DEF BrokerTypes
<1>9. e = [b EXCEPT !.queue = q, !.nextTag = n, !.unacked = Append(b.unacked, u),
                    !.acked = b.acked, !.out = o]
  BY <1>6, <1>7, <1>8
<1>10. Append(b.unacked, u) = << u >>
  OBVIOUS
<1>11. PICK v : v = << u >>
  OBVIOUS
<1>12. e = [b EXCEPT !.queue = q, !.nextTag = n, !.unacked = v, !.acked = b.acked, !.out = o]
  BY <1>9, <1>10, <1>11
<1>13. /\ DOMAIN e = BrokerFields /\ SameBroker(b, e, {"queue", "nextTag", "unacked", "out"})
       /\ e.queue = q /\ e.nextTag = n /\ e.unacked = v /\ e.out = o
  BY <1>8, <1>12, ZenonT(60) DEF SameBroker, BrokerFields
<1>14. d.kind = "Deliver" /\ d.n = b.nextTag
  BY <1>3 DEF Frame
<1>15. QED
  BY <1>2, <1>4, <1>5, <1>7, <1>11, <1>13, <1>14 DEF Delivered

LEMMA DeliversStep ==
  ASSUME SessionInv, BrokerDelivers
  PROVE  SessionInv'
<1>1. /\ broker.consumer > 0 /\ broker.queue # << >>
      /\ broker.prefetch = 0 \/ Len(broker.unacked) < broker.prefetch
      /\ broker' = Deliver(broker) /\ client' = client
      /\ UNCHANGED World /\ faults' = faults
  BY DEF BrokerDelivers, CanDeliver, World, diskVars, envVars
<1>2. BrokerTypes(broker) /\ IsSeq(broker.out)
  BY DEF SessionInv, BrokerTypes
<1>3. broker.consumer = 1 /\ subscribed = 1 /\ broker.prefetch = 1 /\ "queue" \in broker.chans
  <2>1. broker.consumer # 0
    BY <1>1
  <2> QED
    BY <1>2, <2>1 DEF SessionInv, ConsumeInv, BrokerTypes
<1>4. broker.unacked = << >>
  BY <1>1, <1>2, <1>3, EmptySeq, LenProperties DEF BrokerTypes, IsSeq
<1>5. Idle
  BY <1>3, <1>4 DEF SessionInv, ConsumeInv
<1>6. PICK m \in Msg : \E d, c :
           /\ d.kind = "Deliver" /\ d.n = broker.nextTag
           /\ c = Contents(m)
           /\ broker'.out = broker.out \o << d >> \o c
           /\ broker'.unacked = << [tag |-> broker.nextTag, msg |-> m] >>
           /\ SameBroker(broker, broker', {"queue", "nextTag", "unacked", "out"})
           /\ DOMAIN broker' = BrokerFields
           /\ broker'.queue = Tail(broker.queue) /\ broker'.nextTag = broker.nextTag + 1
  <2>1. broker.consumer # 0
    BY <1>1
  <2>2. Delivered(broker, broker')
    BY <1>1, <1>2, <1>4, <2>1, BrokerDeliverIs
  <2> QED
    BY <2>2 DEF Delivered
<1>7. PICK d, c :
           /\ d.kind = "Deliver" /\ d.n = broker.nextTag
           /\ c = Contents(m)
           /\ broker'.out = broker.out \o << d >> \o c
           /\ broker'.unacked = << [tag |-> broker.nextTag, msg |-> m] >>
           /\ SameBroker(broker, broker', {"queue", "nextTag", "unacked", "out"})
           /\ DOMAIN broker' = BrokerFields
           /\ broker'.queue = Tail(broker.queue) /\ broker'.nextTag = broker.nextTag + 1
  BY <1>6
<1>8. PICK tag \in Nat : tag = broker.nextTag
  BY <1>2 DEF BrokerTypes
<1>9. PICK u : u = [tag |-> tag, msg |-> m]
  OBVIOUS
<1>10. PICK s, t : s = broker.out /\ t = broker'.out
  OBVIOUS
<1>11. /\ IsSeq(t) /\ Longer(s, t, Pieces)
       /\ Block(t, Len(s), 0, m, tag) /\ Len(s) \in 0 .. Len(t)
       /\ 0 \in 0 .. Length(m) - 1
  <2>1. IsSeq(c) /\ Len(c) = Bodies(m) + 1 /\ \A j \in 1 .. Bodies(m) + 1 : PieceOf(c[j], m, tag, j + 1)
    BY <1>7, ContentsIs
  <2>2. Pieces \cap Kinds(s) = {} /\ IsSeq(s) /\ t = s \o << d >> \o c /\ d.n = tag /\ d.kind = "Deliver"
    BY <1>2, <1>5, <1>7, <1>8, <1>10 DEF Idle, NoPieces
  <2> QED
    BY <2>1, <2>2, DeliveryFrames
<1>12. broker'.unacked = << u >>
  BY <1>7, <1>8, <1>9
<1>13. IsSeq(broker'.unacked) /\ Len(broker'.unacked) = 1 /\ ToSet(broker'.unacked) = {u}
  BY <1>12, OneFrame
<1>14. /\ broker'.phase = broker.phase /\ broker'.chans = broker.chans
       /\ broker'.closed = broker.closed /\ broker'.consumer = broker.consumer
       /\ broker'.prefetch = broker.prefetch /\ broker'.acked = broker.acked
       /\ broker'.noAck = broker.noAck
  BY <1>7 DEF SameBroker, BrokerFields
<1>15. /\ IsSeq(broker'.queue) /\ ToSet(broker'.queue) \subseteq ToSet(broker.queue)
  <2>1. PICK q, r : q = broker.queue /\ r = Tail(q)
    OBVIOUS
  <2>2. IsSeq(q) /\ q # << >>
    BY <1>1, <1>2, <2>1 DEF BrokerTypes
  <2>3. IsSeq(r) /\ ToSet(q) = ToSet(r) \cup {Head(q)}
    BY <2>1, <2>2, ShorterStream
  <2> QED
    BY <1>7, <2>1, <2>3
<1>16. ~Closing /\ ~Closing' /\ QueueUp'
  BY <1>2, <1>3, <1>14 DEF Closing, QueueUp, BrokerTypes
<1>17. BrokerTypes(broker')
  <2>1. u.msg = m
    BY <1>9
  <2>2. {x.msg : x \in ToSet(broker'.unacked)} \subseteq Msg
    BY <1>13, <2>1
  <2>3. broker'.nextTag \in Nat /\ DOMAIN broker' = BrokerFields
    BY <1>7, <1>8
  <2>4. IsSeq(broker'.out)
    BY <1>10, <1>11
  <2>5. Len(broker'.unacked) <= 1
    BY <1>13
  <2>6. broker'.phase # "closing"
    BY <1>16 DEF Closing
  <2>7. ToSet(broker.queue) \subseteq Msg
    BY <1>2 DEF BrokerTypes
  <2> QED
    BY <1>2, <1>3, <1>13, <1>14, <1>15, <2>2, <2>3, <2>4, <2>5, <2>6, <2>7 DEF BrokerTypes
<1>18. client.sock = "connected"
  BY <1>3 DEF SessionInv, SocketInv, NoSession
<1>19. SocketInv'
  BY <1>1, <1>18 DEF SessionInv, SocketInv, World
<1>20. "Ack" \notin Kinds(client.out) /\ client.messages = << >> /\ NoPieces
  BY <1>5 DEF Idle
<1>21. FramesInv'
  <2>1. ASSUME NEW f \in ToSet(client'.out) PROVE AskOK(f)'
    <3>1. AskOK(f) /\ f \in ToSet(client.out)
      BY <1>1, <2>1 DEF SessionInv, FramesInv
    <3>2. f.kind # "Ack"
      BY <1>20, <3>1 DEF Kinds, ToSet
    <3> QED
      BY <1>16, <3>1, <3>2 DEF AskOK
  <2>2. ASSUME NEW f \in ToSet(broker'.out) PROVE AnswerOK(f)'
    <3>1. PICK i \in DOMAIN t : f = t[i]
      BY <1>10, <2>2 DEF ToSet
    <3>2. CASE i \in DOMAIN s
      <4>1. f \in ToSet(broker.out)
        BY <1>10, <1>11, <3>1, <3>2 DEF Longer, ToSet
      <4>2. AnswerOK(f)
        BY <4>1 DEF SessionInv, FramesInv
      <4> QED
        BY <1>16, <4>2 DEF AnswerOK
    <3>3. CASE i \notin DOMAIN s
      <4>1. f.kind \in Pieces
        BY <1>11, <3>1, <3>3 DEF Longer
      <4> QED
        BY <1>16, <4>1 DEF AnswerOK, Answered, Pieces
    <3> QED
      BY <3>2, <3>3
  <2> QED
    BY <2>1, <2>2 DEF FramesInv
<1>22. /\ \A K : Fewer(client.out, client'.out, K)
       /\ Fewer(broker.out, broker'.out, {"QueueDeclareOk"})
       /\ Fewer(broker.out, broker'.out, {"ExchangeDeclareOk"})
       /\ Fewer(broker.out, broker'.out, {"ConnectionClose"})
  <2>1. \A K : Fewer(client.out, client'.out, K)
    BY <1>1, FewerSame
  <2>2. /\ Pieces \cap {"QueueDeclareOk"} = {} /\ Pieces \cap {"ExchangeDeclareOk"} = {}
        /\ Pieces \cap {"ConnectionClose"} = {}
    BY DEF Pieces
  <2> QED
    BY <1>10, <1>11, <2>1, <2>2, FewerKinds
<1>23. DeclareInv'
  BY <1>1, <1>22, DeclareKept DEF SessionInv, World
<1>24. BindInv' /\ (BindPending' => BindPending)
  BY <1>1, <1>22, BindKept DEF SessionInv, World
<1>25. TimersInv'
  <2>1. /\ TimersInv /\ faults' \in faults .. MaxFaults
        /\ client.timers \in Nat /\ client'.timers \in Nat /\ client'.timers <= client.timers
    BY <1>1, MidasAssumption DEF SessionInv, TimersInv, ClientTypes
  <2> QED
    BY <1>16, <1>22, <1>24, <2>1, TimersKept
<1>26. ConsumeInv'
  <2>1. ConsumeInv
    BY DEF SessionInv
  <2>2. "Consume" \notin Kinds(client.out)
    BY <1>3, <2>1 DEF ConsumeInv
  <2>3. broker'.unacked # << >>
    BY <1>12
  <2>4. subscribed' = 1
    BY <1>1, <1>3 DEF World
  <2> QED
    BY <1>1, <1>3, <1>14, <2>1, <2>2, <2>3, <2>4 DEF ConsumeInv
<1>27. QosInv'
  BY <1>3, <1>14 DEF QosInv
<1>28. DeliveryInv'
  <2>1. Block(broker'.out, Len(s), 0, m, tag) /\ Len(s) \in 0 .. Len(broker'.out)
    BY <1>10, <1>11
  <2>2. ToSet(broker'.unacked) \subseteq {[tag |-> tag, msg |-> m]}
    BY <1>9, <1>13
  <2>3. client'.messages = << >> /\ "Ack" \notin Kinds(client'.out)
    BY <1>1, <1>20
  <2> HIDE DEF Block, Held
  <2>4. Delivering'
    BY <1>11, <2>1, <2>2, <2>3 DEF Delivering
  <2> QED
    BY <2>4 DEF DeliveryInv
<1>29. AckedIsStored' /\ (published \subseteq Msg)'
  BY <1>1, <1>14 DEF SessionInv, AckedIsStored, World
<1>30. ClientTypes(client')
  BY <1>1 DEF SessionInv
<1>31. QED
  BY <1>17, <1>19, <1>21, <1>23, <1>24, <1>25, <1>26, <1>27, <1>28, <1>29, <1>30 DEF SessionInv

-----------------------------------------------------------------------------
(* The broker closes, and somebody publishes                                *)

LEMMA ClosesStep ==
  ASSUME SessionInv, BrokerCloses
  PROVE  SessionInv'
<1>1. /\ faults < MaxFaults /\ faults' = faults + 1 /\ client' = client /\ UNCHANGED World
      /\ \/ broker.phase = "open" /\ broker' = ForceClose(broker)
         \/ "queue" \in broker.chans /\ broker' = CloseChannel(broker)
  BY DEF BrokerCloses, World, diskVars, envVars
<1>2. /\ BrokerTypes(broker) /\ IsSeq(broker.out) /\ ClientTypes(client') /\ ClientTypes(client)
      /\ SameClient(client, client', {"out"})
  BY <1>1 DEF SessionInv, BrokerTypes, SameClient
<1>3. /\ \A K : Fewer(client.out, client'.out, K)
      /\ ToSet(client'.out) \subseteq ToSet(client.out)
  BY <1>1, FewerSame
<1>4. faults' \in faults .. MaxFaults
  BY <1>1, MidasAssumption DEF SessionInv, TimersInv
<1>5. broker.phase # "none" \/ broker.chans # {} => client.sock = "connected"
  BY DEF SessionInv, SocketInv, NoSession
<1>6. CASE broker.phase = "open" /\ broker' = ForceClose(broker)
  <2>1. ~Closing /\ client.sock = "connected"
    BY <1>5, <1>6 DEF Closing
  <2> QED
    BY <1>1, <1>2, <1>3, <1>4, <1>6, <2>1, ForceClosed
<1>7. CASE "queue" \in broker.chans /\ broker' = CloseChannel(broker)
  <2>1. client.sock = "connected" /\ broker.phase # "closing"
    BY <1>2, <1>5, <1>7 DEF BrokerTypes
  <2>2. PICK r : r = Method("queue", "ChannelClose")
    OBVIOUS
  <2>3. r.kind = "ChannelClose"
    BY <2>2, MethodIs
  <2>4. /\ BrokerTypes(broker') /\ broker'.acked = broker.acked /\ broker'.unacked = << >>
        /\ broker'.phase = broker.phase /\ broker'.consumer = 0 /\ broker'.closed = {"queue"}
        /\ broker'.prefetch = broker.prefetch /\ broker'.out = Append(broker.out, r)
    BY <1>2, <1>7, <2>1, <2>2, CloseChannelIs
  <2>5. /\ QueueUp' /\ ~Closing /\ ~Closing' /\ r.kind \notin Pieces
        /\ AnswerOK(r)'
    BY <2>1, <2>3, <2>4 DEF QueueUp, Closing, AnswerOK, Answered, Pieces, ChannelMethods
  <2>6. ToSet(broker'.unacked) \subseteq ToSet(broker.unacked)
    BY <2>4, EmptyStream
  <2>7. /\ Fewer(broker.out, broker'.out, {"QueueDeclareOk"})
        /\ Fewer(broker.out, broker'.out, {"ExchangeDeclareOk"})
        /\ Fewer(broker.out, broker'.out, {"ConnectionClose"})
        /\ Fewer(broker.out, broker'.out, Pieces)
    BY <1>2, <2>3, <2>4, <2>5, AnswerFewer
  <2>8. DeclareInv'
    BY <1>1, <1>3, <2>7, DeclareKept DEF SessionInv, World
  <2>9. BindInv' /\ (BindPending' => BindPending)
    BY <1>1, <1>3, <2>7, BindKept DEF SessionInv, World
  <2>10. TimersInv'
    <3>1. /\ TimersInv /\ client.timers \in Nat /\ client'.timers \in Nat
          /\ client'.timers <= client.timers
      BY <1>1, <1>2 DEF SessionInv, ClientTypes
    <3> QED
      BY <1>4, <2>5, <2>7, <2>9, <3>1, TimersKept
  <2>11. ConsumeInv'
    <3>1. ConsumeInv /\ subscribed' = subscribed /\ client'.messages = client.messages
      BY <1>1 DEF SessionInv, World
    <3> QED
      BY <1>3, <2>4, <2>7, <3>1, ConsumeKept
  <2>12. QosInv'
    BY <2>4 DEF QosInv
  <2>13. AckedIsStored'
    BY <1>1, <2>4 DEF SessionInv, AckedIsStored, World
  <2> QED
    BY <1>1, <1>2, <1>3, <2>1, <2>4, <2>5, <2>6, <2>8, <2>9, <2>10, <2>11, <2>12, <2>13, BrokerRest
<1>8. QED
  BY <1>1, <1>6, <1>7

\* A step that only changes the files or the queue of the broker.
LEMMA SessionKept ==
  ASSUME SessionInv, client' = client, SameBroker(broker, broker', {"queue"}),
         BrokerTypes(broker'), UNCHANGED << app, subscribed, listeners, faults >>,
         published' \subseteq Msg, \A m : Stored(m) => Stored(m)',
         proc' = "down" => proc = "down", app = "midas" /\ proc' = "up" => output' # 0
  PROVE  SessionInv'
<1>1. /\ broker'.phase = broker.phase /\ broker'.chans = broker.chans
      /\ broker'.closed = broker.closed /\ broker'.consumer = broker.consumer
      /\ broker'.prefetch = broker.prefetch /\ broker'.acked = broker.acked
      /\ broker'.unacked = broker.unacked /\ broker'.out = broker.out
  BY DEF SameBroker, BrokerFields
<1>2. SocketInv'
  BY <1>1 DEF SessionInv, SocketInv, NoSession
<1>3. FramesInv'
  <2>1. (QueueUp => QueueUp') /\ (Closing => Closing')
    BY <1>1 DEF QueueUp, Closing
  <2>2. \A f : (AskOK(f) => AskOK(f)') /\ (AnswerOK(f) => AnswerOK(f)')
    BY <1>1, <2>1, FramesKept
  <2> QED
    BY <1>1, <2>2 DEF SessionInv, FramesInv
<1>4. \A K : Fewer(client.out, client'.out, K) /\ Fewer(broker.out, broker'.out, K)
  BY <1>1, FewerSame
<1>5. DeclareInv'
  BY <1>4, DeclareKept DEF SessionInv
<1>6. BindInv' /\ (BindPending' => BindPending)
  BY <1>4, BindKept DEF SessionInv
<1>7. TimersInv'
  <2>1. /\ TimersInv /\ faults' \in faults .. MaxFaults /\ (Closing' => Closing)
        /\ client.timers \in Nat /\ client'.timers \in Nat /\ client'.timers <= client.timers
    BY <1>1, MidasAssumption DEF SessionInv, TimersInv, ClientTypes, Closing
  <2> QED
    BY <1>4, <1>6, <2>1, TimersKept
<1>8. ConsumeInv'
  BY <1>1, <1>4, ConsumeKept DEF SessionInv
<1>9. QosInv'
  BY <1>1 DEF SessionInv, QosInv, Closing
<1>10. DeliveryInv'
  <2>1. DeliveryInv /\ IsSeq(broker'.out)
    BY DEF SessionInv, BrokerTypes
  <2> QED
    BY <1>1, <2>1, DeliveryKept DEF NoPieces
<1>11. AckedIsStored'
  BY <1>1 DEF SessionInv, AckedIsStored, Stored
<1>12. ClientTypes(client')
  BY DEF SessionInv
<1>13. QED
  BY <1>2, <1>3, <1>5, <1>6, <1>7, <1>8, <1>9, <1>10, <1>11, <1>12 DEF SessionInv

LEMMA PublishStep ==
  ASSUME SessionInv, NEW m \in Msg, PublishMessage(m)
  PROVE  SessionInv'
<1>1. /\ published' = published \cup {m} /\ broker' = [broker EXCEPT !.queue = Append(broker.queue, m)]
      /\ client' = client /\ UNCHANGED << app, subscribed, listeners, faults, data, proc, output >>
  BY DEF PublishMessage, diskVars
<1>2. BrokerTypes(broker) /\ DOMAIN broker = BrokerFields /\ IsSeq(broker.queue)
  BY DEF SessionInv, BrokerTypes
<1>3. PICK q : q = Append(broker.queue, m)
  OBVIOUS
<1>4. IsSeq(q) /\ ToSet(q) = ToSet(broker.queue) \cup {m}
  BY <1>2, <1>3, ElementsOfAppend
<1>5. SameBroker(broker, broker', {"queue"}) /\ DOMAIN broker' = BrokerFields /\ broker'.queue = q
  BY <1>1, <1>2, <1>3 DEF SameBroker, BrokerFields
<1>6. /\ broker'.phase = broker.phase /\ broker'.chans = broker.chans
      /\ broker'.closed = broker.closed /\ broker'.consumer = broker.consumer
      /\ broker'.noAck = broker.noAck /\ broker'.nextTag = broker.nextTag
      /\ broker'.unacked = broker.unacked /\ broker'.out = broker.out
  BY <1>5 DEF SameBroker, BrokerFields
<1>7. BrokerTypes(broker')
  BY <1>2, <1>4, <1>5, <1>6 DEF BrokerTypes
<1>8. published' \subseteq Msg /\ SocketInv
  BY <1>1 DEF SessionInv
<1>9. QED
  BY <1>1, <1>5, <1>7, <1>8, SessionKept DEF Stored, SocketInv

-----------------------------------------------------------------------------
(* The socket                                                               *)

LEMMA LeftNat ==
  ASSUME NEW m \in Msg, NEW k \in 1 .. Length(m) - 1
  PROVE  Left(m, k) \in Nat
<1>1. PICK a \in Nat, b \in Nat \ {0}, n \in Nat : a = Size[m] /\ b = FrameMax /\ n = Bodies(m)
  BY BodiesOf
<1>2. Length(m) = n + 2 /\ k \in 1 .. n + 1 /\ k \in Int
  BY <1>1, BodiesOf
<1>3. CASE k = 1
  BY <1>3 DEF Left
<1>4. CASE k = 2
  <2>1. Left(m, k) = a - b * 0
    BY <1>1, <1>4 DEF Left
  <2> QED
    BY <1>1, <2>1
<1>5. CASE k # 1 /\ k # 2
  <2>1. PICK j : j = k - 1
    OBVIOUS
  <2>2. j \in 2 .. Length(m) - 1 /\ j + 1 = k /\ j + 1 < Length(m)
    BY <1>2, <1>5, <2>1
  <2> QED
    BY <2>2, BodyLeft
<1>6. QED
  BY <1>3, <1>4, <1>5

LEMMA SocketLostIs ==
  ASSUME NEW c, ClientTypes(c), NEW d, d = SocketLost(c)
  PROVE  /\ ClientTypes(d) /\ SameClient(c, d, {"sock", "out", "timeOut", "timers"})
         /\ d.sock = "unconnected" /\ d.out = << >> /\ d.timers \in {c.timers, c.timers + 1}
<1>1. PICK e : e = [c EXCEPT !.sock = "unconnected", !.out = << >>]
  OBVIOUS
<1>2. /\ DOMAIN e = ClientFields /\ SameClient(c, e, {"sock", "out"})
      /\ e.sock = "unconnected" /\ e.out = << >>
  <2>1. DOMAIN c = ClientFields
    BY DEF ClientTypes
  <2>2. PICK z : z = << >>
    OBVIOUS
  <2>3. e = [c EXCEPT !.sock = "unconnected", !.out = z]
    BY <1>1, <2>2
  <2>4. /\ DOMAIN e = ClientFields /\ SameClient(c, e, {"sock", "out"})
        /\ e.sock = "unconnected" /\ e.out = z
    BY <2>1, <2>3 DEF SameClient, ClientFields
  <2> QED
    BY <2>2, <2>4
<1>3. IsSeq(e.out)
  BY <1>2, EmptyStream
<1>4. ClientTypes(e)
  BY <1>2, <1>3, TypesOfSame
<1>5. d = NetworkError(e)
  BY <1>1 DEF SocketLost
<1>6. /\ ClientTypes(d) /\ SameClient(e, d, {"timeOut", "timers"})
      /\ d.timers \in {e.timers, e.timers + 1}
  BY <1>4, <1>5, NetworkErrorIs
<1>7. e.timers = c.timers /\ d.sock = e.sock /\ d.out = e.out
  BY <1>2, <1>6 DEF SameClient, ClientFields
<1>8. SameClient(c, d, {"sock", "out", "timeOut", "timers"})
  BY <1>2, <1>6 DEF SameClient
<1>9. QED
  BY <1>2, <1>6, <1>7, <1>8

\* What a process holds of a delivery that was cut stays as it is.
LEMMA DeliveryCut ==
  ASSUME DeliveryInv, client'.messages = client.messages, client'.out = << >>, broker'.out = << >>
  PROVE  DeliveryInv'
<1>1. NoPieces' /\ "Ack" \notin Kinds(client'.out)
  BY EmptyStream DEF NoPieces
<1>2. CASE Delivering
  <2>1. PICK m \in Msg, tag \in Nat, o \in 0 .. Len(broker.out) : \E k \in 0 .. Length(m) - 1 :
           client.messages = << >> \/ Held(client.messages, k, m, tag)
    BY <1>2 DEF Delivering
  <2>2. PICK k \in 0 .. Length(m) - 1 :
           client.messages = << >> \/ Held(client.messages, k, m, tag)
    BY <2>1
  <2>3. CASE client.messages = << >>
    <3>1. IsSeq(client'.messages) /\ Len(client'.messages) = 0
      BY <2>3, EmptyStream
    <3>2. DOMAIN client'.messages = 1 .. 0
      BY <3>1, LenProperties DEF IsSeq
    <3> QED
      BY <1>1, <2>3, <3>1, <3>2 DEF DeliveryInv
  <2>4. CASE client.messages # << >>
    <3>1. Held(client'.messages, k, m, tag)
      BY <2>2, <2>4
    <3>2. k # 0
      BY <3>1 DEF Held
    <3>3. Length(m) \in Nat
      BY BodiesOf
    <3>4. k \in 1 .. Length(m) - 1
      BY <3>2, <3>3
    <3>5. Left(m, k) \in Nat
      BY <3>4, LeftNat
    <3> QED
      BY <1>1, <3>1, <3>5, DeliveryEnd
  <2> QED
    BY <2>3, <2>4
<1>3. CASE ~Delivering
  BY <1>1, <1>3 DEF DeliveryInv
<1>4. QED
  BY <1>2, <1>3

LEMMA SessionLost ==
  ASSUME SessionInv, proc = "up", client' = SocketLost(client), BrokerTypes(broker'), NoSession',
         broker'.acked = broker.acked, UNCHANGED World, faults' \in faults .. MaxFaults,
         faults' = faults + 1 \/ Closing
  PROVE  SessionInv'
<1>1. PICK c, d : c = client /\ d = client'
  OBVIOUS
<1>2. ClientTypes(c) /\ d = SocketLost(c)
  BY <1>1 DEF SessionInv
<1>3. /\ ClientTypes(d) /\ SameClient(c, d, {"sock", "out", "timeOut", "timers"})
      /\ d.sock = "unconnected" /\ d.timers \in {c.timers, c.timers + 1}
  BY <1>2, SocketLostIs
<1>4. /\ d.messages = c.messages /\ d.delayedDeclare = c.delayedDeclare
      /\ d.delayedBindings = c.delayedBindings
  BY <1>3 DEF SameClient, ClientFields
<1>5. /\ client'.out = << >> /\ broker'.out = << >> /\ broker'.unacked = << >>
      /\ broker'.consumer = 0 /\ broker'.phase = "none"
  BY DEF NoSession
<1>6. /\ ToSet(client'.out) = {} /\ ToSet(broker'.out) = {}
      /\ Kinds(client'.out) = {} /\ Kinds(broker'.out) = {} /\ DOMAIN client'.out = {}
  <2>1. DOMAIN client'.out = {}
    BY <1>5
  <2> QED
    BY <1>5, <2>1, EmptyStream
<1>7. \A K : Fewer(client.out, client'.out, K) /\ Fewer(broker.out, broker'.out, K)
  BY <1>5, FewerEmpty
<1>8. SocketInv'
  BY <1>1, <1>3 DEF SessionInv, SocketInv, World
<1>9. FramesInv'
  BY <1>6 DEF FramesInv
<1>10. DeclareInv'
  BY <1>1, <1>4, <1>7, DeclareKept DEF SessionInv, World
<1>11. BindInv' /\ (BindPending' => BindPending)
  BY <1>1, <1>4, <1>7, BindKept DEF SessionInv, World
<1>12. TimersInv'
  <2>1. ~Closing' /\ "ConnectionClose" \notin Kinds(broker'.out) /\ Once(broker'.out, "ConnectionClose")
    BY <1>5, <1>6, EmptyStream DEF Closing
  <2>2. TimersInv /\ MaxFaults \in Nat /\ client.timers \in Nat
    BY <1>1, <1>2, MidasAssumption DEF SessionInv, ClientTypes
  <2>3. client'.timers \in {client.timers, client.timers + 1}
    BY <1>1, <1>3
  <2> QED
    BY <1>11, <2>1, <2>2, <2>3 DEF TimersInv
<1>13. ConsumeInv'
  <2>1. ConsumeInv /\ subscribed' = subscribed
    BY DEF SessionInv, World
  <2>2. Once(client'.out, "Consume") /\ Once(client'.out, "Ack")
    BY <1>5, EmptyStream
  <2>3. Idle => Idle'
    BY <1>1, <1>4, <1>6 DEF Idle, NoPieces
  <2> QED
    BY <1>5, <1>6, <2>1, <2>2, <2>3 DEF ConsumeInv
<1>14. QosInv'
  BY <1>6 DEF QosInv
<1>15. DeliveryInv'
  <2>1. DeliveryInv /\ client'.messages = client.messages
    BY <1>1, <1>4 DEF SessionInv
  <2> QED
    BY <1>5, <2>1, DeliveryCut
<1>16. AckedIsStored' /\ (published \subseteq Msg)'
  BY DEF SessionInv, AckedIsStored, World
<1>17. QED
  BY <1>1, <1>3, <1>8, <1>9, <1>10, <1>11, <1>12, <1>13, <1>14, <1>15, <1>16 DEF SessionInv

LEMMA NetworkStep ==
  ASSUME SessionInv, Network
  PROVE  SessionInv'
<1>1. BrokerTypes(broker) /\ ClientTypes(client) /\ TimersInv /\ SocketInv
  BY DEF SessionInv
<1>2. /\ faults + 1 \in Nat /\ faults \in faults .. MaxFaults
      /\ faults < MaxFaults => faults + 1 \in faults .. MaxFaults
  BY <1>1, MidasAssumption DEF TimersInv
<1>3. client' = SocketLost(client) => client'.out = << >>
  <2>1. PICK c, d : c = client /\ d = client'
    OBVIOUS
  <2>2. d = SocketLost(c) => d.out = << >>
    BY <1>1, <2>1, SocketLostIs
  <2> QED
    BY <2>1, <2>2
<1>4. CASE LinkLoss \/ HangUp
  <2>1. /\ proc = "up" /\ client' = SocketLost(client) /\ broker' = EndSession(broker)
        /\ UNCHANGED World
        /\ \/ faults < MaxFaults /\ faults' = faults + 1
           \/ broker.phase = "closing" /\ faults' = faults
    BY <1>4 DEF LinkLoss, HangUp, LinkDown, World, diskVars, envVars
  <2>2. /\ BrokerTypes(broker') /\ broker'.acked = broker.acked
        /\ broker'.out = << >> /\ broker'.unacked = << >> /\ broker'.phase = "none"
        /\ broker'.chans = {} /\ broker'.closed = {} /\ broker'.consumer = 0
        /\ broker'.prefetch = 0
    BY <1>1, <2>1, EndSessionIs
  <2>3. NoSession'
    BY <1>3, <2>1, <2>2 DEF NoSession
  <2>4. faults' \in faults .. MaxFaults /\ (faults' = faults + 1 \/ Closing)
    BY <1>2, <2>1 DEF Closing
  <2> QED
    BY <2>1, <2>2, <2>3, <2>4, SessionLost
<1>5. CASE TcpRefused
  <2>1. /\ proc = "up" /\ client.sock = "connecting" /\ client' = SocketLost(client)
        /\ broker' = broker /\ UNCHANGED World /\ faults < MaxFaults /\ faults' = faults + 1
    BY <1>5 DEF TcpRefused, World, diskVars, envVars
  <2>2. NoSession
    BY <1>1, <2>1 DEF SocketInv
  <2>3. NoSession'
    BY <1>3, <2>1, <2>2 DEF NoSession
  <2>4. faults' \in faults .. MaxFaults
    BY <1>2, <2>1
  <2> QED
    BY <1>1, <2>1, <2>3, <2>4, SessionLost
<1>6. QED
  BY <1>4, <1>5 DEF Network

LEMMA ConnectedStep ==
  ASSUME SessionInv, TcpConnected
  PROVE  SessionInv'
<1>1. /\ proc = "up" /\ client.sock = "connecting" /\ client' = ConnectionReady(client)
      /\ broker' = broker /\ UNCHANGED World /\ faults' = faults
  BY DEF TcpConnected, World, diskVars, envVars
<1>2. PICK f : f = Method("connection", "Header")
  OBVIOUS
<1>3. f.kind = "Header" /\ f.ch = "connection"
  BY <1>2, MethodIs
<1>4. PICK s : s = << f >>
  OBVIOUS
<1>5. ClientTypes(client) /\ DOMAIN client = ClientFields
  BY DEF SessionInv, ClientTypes
<1>6. client' = [client EXCEPT !.sock = "connected", !.timeOut = 0, !.out = s]
  BY <1>1, <1>2, <1>4 DEF ConnectionReady
<1>7. /\ DOMAIN client' = ClientFields /\ SameClient(client, client', {"sock", "timeOut", "out"})
      /\ client'.sock = "connected" /\ client'.timeOut = 0 /\ client'.out = s
  BY <1>5, <1>6 DEF SameClient, ClientFields
<1>8. /\ IsSeq(s) /\ Len(s) = 1 /\ s[1] = f /\ DOMAIN s = 1 .. 1 /\ ToSet(s) = {f}
      /\ Kinds(s) = {"Header"} /\ \A kind : Once(s, kind)
  BY <1>3, <1>4, OneFrame
<1>9. ClientTypes(client')
  <2>1. ASSUME NEW c, ClientTypes(c), NEW d, DOMAIN d = ClientFields,
               SameClient(c, d, {"sock", "timeOut", "out"}),
               d.sock = "connected", d.timeOut = 0, IsSeq(d.out)
        PROVE  ClientTypes(d)
    BY <2>1, TypesOfSame
  <2> QED
    BY <1>5, <1>7, <1>8, <2>1
<1>10. /\ client'.messages = client.messages /\ client'.delayedDeclare = client.delayedDeclare
       /\ client'.delayedBindings = client.delayedBindings /\ client'.timers = client.timers
  BY <1>7 DEF SameClient, ClientFields
<1>11. /\ Fewer(client.out, client'.out, {"QueueDeclare"})
       /\ Fewer(client.out, client'.out, {"ExchangeDeclare", "Bind"})
       /\ Fewer(client.out, client'.out, {"Consume", "Ack"})
       /\ \A K : Fewer(broker.out, broker'.out, K)
  BY <1>1, <1>7, <1>8, FewerSame DEF Fewer
<1>12. SocketInv'
  BY <1>1, <1>7 DEF SessionInv, SocketInv, World
<1>13. FramesInv'
  <2>1. AskOK(f)'
    BY <1>3 DEF AskOK, Asked, OfQueue
  <2>2. \A g \in ToSet(broker'.out) : AnswerOK(g)'
    BY <1>1 DEF SessionInv, FramesInv, AnswerOK, QueueUp, Closing
  <2> QED
    BY <1>7, <1>8, <2>1, <2>2 DEF FramesInv
<1>14. DeclareInv'
  BY <1>1, <1>10, <1>11, DeclareKept DEF SessionInv, World
<1>15. BindInv' /\ (BindPending' => BindPending)
  BY <1>1, <1>10, <1>11, BindKept DEF SessionInv, World
<1>16. TimersInv'
  <2>1. /\ TimersInv /\ faults' \in faults .. MaxFaults /\ (Closing' => Closing)
        /\ client.timers \in Nat /\ client'.timers \in Nat /\ client'.timers <= client.timers
    BY <1>1, <1>5, <1>10, MidasAssumption DEF SessionInv, TimersInv, ClientTypes, Closing
  <2> QED
    BY <1>11, <1>15, <2>1, TimersKept
<1>17. ConsumeInv'
  BY <1>1, <1>10, <1>11, ConsumeKept DEF SessionInv, World
<1>18. QosInv'
  <2>1. \A i \in DOMAIN client'.out : client'.out[i].kind = "Header"
    BY <1>3, <1>7, <1>8
  <2> QED
    BY <2>1 DEF QosInv
<1>19. DeliveryInv'
  <2>1. DeliveryInv /\ IsSeq(broker'.out) /\ "Ack" \notin Kinds(client'.out)
    BY <1>1, <1>7, <1>8 DEF SessionInv, BrokerTypes
  <2> QED
    BY <1>1, <1>10, <2>1, DeliveryKept DEF NoPieces
<1>20. AckedIsStored' /\ (published \subseteq Msg)' /\ BrokerTypes(broker')
  BY <1>1 DEF SessionInv, AckedIsStored, World
<1>21. QED
  BY <1>9, <1>12, <1>13, <1>14, <1>15, <1>16, <1>17, <1>18, <1>19, <1>20 DEF SessionInv

\* A timer only makes the socket connect again, if it is idle.
LEMMA ReconnectIs ==
  ASSUME NEW c, ClientTypes(c), c.timers > 0, NEW d, d = ReconnectTimer(c)
  PROVE  /\ ClientTypes(d) /\ SameClient(c, d, {"timers", "connect", "lastPort", "sock"})
         /\ d.timers <= c.timers
         /\ d.sock = IF c.sock = "unconnected" THEN "connecting" ELSE c.sock
<1>1. PICK n : n = c.timers - 1
  OBVIOUS
<1>2. n \in Nat /\ n <= c.timers
  BY <1>1 DEF ClientTypes
<1>3. PICK e : e = [c EXCEPT !.timers = n]
  OBVIOUS
<1>4. d = ConnectTo(e, 0)
  BY <1>1, <1>3 DEF ReconnectTimer
<1>5. PICK p, k : /\ p = IF 0 = 0 THEN e.lastPort ELSE 0
                  /\ k = IF e.sock = "unconnected" THEN "connecting" ELSE e.sock
  OBVIOUS
<1>6. d = [e EXCEPT !.connect = TRUE, !.lastPort = p, !.sock = k]
  BY <1>4, <1>5 DEF ConnectTo
<1>7. DOMAIN c = ClientFields
  BY DEF ClientTypes
<1>8. DOMAIN e = ClientFields /\ SameClient(c, e, {"timers"}) /\ e.timers = n
  BY <1>3, <1>7 DEF SameClient, ClientFields
<1>9. /\ DOMAIN d = ClientFields /\ SameClient(e, d, {"connect", "lastPort", "sock"})
      /\ d.sock = k
  BY <1>6, <1>8 DEF SameClient, ClientFields
<1>10. d.timers = n /\ k = IF c.sock = "unconnected" THEN "connecting" ELSE c.sock
  BY <1>5, <1>8, <1>9 DEF SameClient, ClientFields
<1>11. SameClient(c, d, {"timers", "connect", "lastPort", "sock"})
  BY <1>8, <1>9 DEF SameClient
<1>12. ClientTypes(d)
  <2>1. d.sock \in {"unconnected", "connecting", "connected"}
    BY <1>9, <1>10 DEF ClientTypes
  <2>2. ASSUME NEW x, DOMAIN x = ClientFields, x.timers \in Nat,
               SameClient(c, x, {"timers", "connect", "lastPort", "sock"}),
               x.sock \in {"unconnected", "connecting", "connected"}
        PROVE  ClientTypes(x)
    BY <2>2, TypesOfSame
  <2> QED
    BY <1>2, <1>9, <1>10, <1>11, <2>1, <2>2
<1>13. QED
  BY <1>2, <1>9, <1>10, <1>11, <1>12

LEMMA ReconnectStep ==
  ASSUME SessionInv, Reconnect
  PROVE  SessionInv'
<1>1. /\ proc = "up" /\ client.timers > 0 /\ client' = ReconnectTimer(client)
      /\ broker' = broker /\ UNCHANGED World /\ faults' = faults
  BY DEF Reconnect, World, diskVars, envVars
<1>2. ClientTypes(client)
  BY DEF SessionInv
<1>3. /\ ClientTypes(client') /\ client'.timers <= client.timers
      /\ client'.sock = IF client.sock = "unconnected" THEN "connecting" ELSE client.sock
      /\ SameClient(client, client', {"timers", "connect", "lastPort", "sock"})
  <2>1. PICK c, d : c = client /\ d = client'
    OBVIOUS
  <2>2. ClientTypes(c) /\ c.timers > 0 /\ d = ReconnectTimer(c)
    BY <1>1, <1>2, <2>1
  <2>3. /\ ClientTypes(d) /\ d.timers <= c.timers
        /\ d.sock = IF c.sock = "unconnected" THEN "connecting" ELSE c.sock
        /\ SameClient(c, d, {"timers", "connect", "lastPort", "sock"})
    BY <2>2, ReconnectIs
  <2> QED
    BY <2>1, <2>3
<1>4. /\ client'.messages = client.messages /\ client'.delayedDeclare = client.delayedDeclare
      /\ client'.delayedBindings = client.delayedBindings /\ client'.out = client.out
  BY <1>3 DEF SameClient, ClientFields
<1>5. \A K : Fewer(client.out, client'.out, K) /\ Fewer(broker.out, broker'.out, K)
  BY <1>1, <1>4, FewerSame
<1>6. SocketInv'
  <2>1. client'.sock # "connected" => client.sock # "connected"
    BY <1>3
  <2> QED
    BY <1>1, <1>4, <2>1 DEF SessionInv, SocketInv, NoSession, World
<1>7. FramesInv'
  BY <1>1, <1>4 DEF SessionInv, FramesInv, AskOK, AnswerOK, QueueUp, Closing, Stored, World
<1>8. DeclareInv'
  BY <1>1, <1>4, <1>5, DeclareKept DEF SessionInv, World
<1>9. BindInv' /\ (BindPending' => BindPending)
  BY <1>1, <1>4, <1>5, BindKept DEF SessionInv, World
<1>10. TimersInv'
  <2>1. /\ TimersInv /\ faults' \in faults .. MaxFaults /\ (Closing' => Closing)
        /\ client.timers \in Nat /\ client'.timers \in Nat
    BY <1>1, <1>2, <1>3, MidasAssumption DEF SessionInv, TimersInv, ClientTypes, Closing
  <2> QED
    BY <1>3, <1>5, <1>9, <2>1, TimersKept
<1>11. ConsumeInv'
  BY <1>1, <1>4, <1>5, ConsumeKept DEF SessionInv, World
<1>12. QosInv'
  BY <1>1, <1>4 DEF SessionInv, QosInv, Closing
<1>13. DeliveryInv'
  <2>1. DeliveryInv /\ IsSeq(broker'.out)
    BY <1>1 DEF SessionInv, BrokerTypes
  <2> QED
    BY <1>1, <1>4, <2>1, DeliveryKept DEF NoPieces
<1>14. AckedIsStored' /\ (published \subseteq Msg)' /\ BrokerTypes(broker')
  BY <1>1 DEF SessionInv, AckedIsStored, World
<1>15. QED
  BY <1>3, <1>6, <1>7, <1>8, <1>9, <1>10, <1>11, <1>12, <1>13, <1>14 DEF SessionInv

-----------------------------------------------------------------------------
(* A process that starts, or is gone                                        *)

Fresh ==
  /\ ClientTypes(client) /\ BrokerTypes(broker) /\ NoSession
  /\ client.sock # "connected" /\ client.messages = << >> /\ client.timers = 0
  /\ ~client.delayedDeclare["exchange"] /\ client.delayedBindings = 0
  /\ client.delayedDeclare["queue"] => subscribed = 0 /\ proc # "down"
  /\ subscribed \in {0, 1} /\ listeners = subscribed
  /\ app = "midas" /\ proc = "up" => output # 0
  /\ faults \in 0 .. MaxFaults /\ AckedIsStored /\ published \subseteq Msg

LEMMA FreshState == Fresh => SessionInv
<1> SUFFICES ASSUME Fresh PROVE SessionInv
  OBVIOUS
<1>1. /\ client.out = << >> /\ broker.out = << >> /\ broker.unacked = << >>
      /\ broker.consumer = 0 /\ broker.phase = "none" /\ client.messages = << >>
  BY DEF Fresh, NoSession
<1>2. DOMAIN client.out = {} /\ IsSeq(client.messages) /\ Len(client.messages) = 0 /\ DOMAIN client.messages = {}
  <2>1. DOMAIN client.out = {} /\ DOMAIN client.messages = {}
    BY <1>1
  <2> QED
    BY <1>1, <2>1, EmptyStream
<1>3. /\ ToSet(client.out) = {} /\ ToSet(broker.out) = {}
      /\ Kinds(client.out) = {} /\ Kinds(broker.out) = {}
      /\ \A kind : Once(client.out, kind) /\ Once(broker.out, kind)
  BY <1>1, EmptyStream
<1>4. SocketInv
  BY DEF Fresh, SocketInv
<1>5. FramesInv
  BY <1>3 DEF FramesInv
<1>6. DeclareInv
  BY <1>3 DEF Fresh, DeclareInv
<1>7. BindInv
  BY <1>3 DEF Fresh, BindInv, ToDeclare, ToSend, Sent, Declared, ToBind, Bound
<1>8. TimersInv
  <2>1. ~Closing /\ "ConnectionClose" \notin Kinds(broker.out) /\ Once(broker.out, "ConnectionClose")
    BY <1>1, <1>3 DEF Closing
  <2>2. faults \in 0 .. MaxFaults /\ MaxFaults \in Nat /\ client.timers = 0
    BY MidasAssumption DEF Fresh
  <2> QED
    BY <2>1, <2>2 DEF TimersInv
<1>9. NoPieces /\ Idle
  BY <1>1, <1>3 DEF NoPieces, Idle
<1>10. ConsumeInv
  BY <1>1, <1>3, <1>9 DEF ConsumeInv
<1>11. QosInv
  BY <1>2 DEF QosInv
<1>12. DeliveryInv
  BY <1>1, <1>2, <1>9 DEF DeliveryInv
<1>13. QED
  BY <1>4, <1>5, <1>6, <1>7, <1>8, <1>10, <1>11, <1>12 DEF Fresh, SessionInv

LEMMA FreshNext == Fresh' => SessionInv'
BY FreshState, PTL

LEMMA NewClientIs ==
  ASSUME NEW auto, NEW d, d = NewClient(auto)
  PROVE  /\ ClientTypes(d) /\ d.sock = "unconnected" /\ d.out = << >> /\ d.messages = << >>
         /\ d.timers = 0 /\ d.delayedBindings = 0
         /\ ~d.opened["queue"] /\ ~d.delayedDeclare["queue"] /\ ~d.delayedDeclare["exchange"]
<1>1. PICK e : e = [ch \in Chan |-> FALSE]
  OBVIOUS
<1>2. e \in [Chan -> BOOLEAN] /\ ~e["queue"] /\ ~e["exchange"]
  BY <1>1 DEF Chan
<1>3. PICK z : z = << >>
  OBVIOUS
<1>4. d = [port |-> AmqpPort, connected |-> FALSE,
           sock |-> "unconnected", auto |-> auto, connect |-> FALSE, lastPort |-> 0,
           timeOut |-> 1000, timers |-> 0, out |-> z,
           opened |-> e, delayedDeclare |-> e, declared |-> e,
           delayedBindings |-> 0, consumerTag |-> 0, messages |-> z]
  BY <1>1, <1>3 DEF NewClient
<1>5. /\ DOMAIN d = ClientFields /\ d.sock = "unconnected" /\ d.out = z /\ d.messages = z
      /\ d.timers = 0 /\ d.delayedBindings = 0 /\ d.timeOut = 1000
  BY <1>4 DEF ClientFields
<1>6. d.opened = e /\ d.delayedDeclare = e /\ d.declared = e
  BY <1>4
<1>7. IsSeq(d.out)
  BY <1>3, <1>5, EmptyStream
<1>8. d.opened \in [Chan -> BOOLEAN] /\ d.declared \in [Chan -> BOOLEAN]
  BY <1>2, <1>6
<1>9. d.delayedDeclare \in [Chan -> BOOLEAN]
  BY <1>2, <1>6
<1>10. d.timeOut \in {0, 1000, 5000, 25000, 125000}
  BY <1>5
<1>11. d.sock \in {"unconnected", "connecting", "connected"} /\ d.timers \in Nat /\ d.delayedBindings \in {0, 1}
  BY <1>5
<1>12. ClientTypes(d)
  BY <1>5, <1>7, <1>8, <1>9, <1>10, <1>11 DEF ClientTypes
<1>13. QED
  BY <1>2, <1>3, <1>5, <1>6, <1>12

LEMMA StartedIs ==
  ASSUME NEW auto, NEW url, NEW d, d = QueueDeclare(ClientOpen(NewClient(auto), url))
  PROVE  /\ ClientTypes(d) /\ d.sock = "connecting" /\ d.out = << >> /\ d.messages = << >>
         /\ d.timers = 0 /\ d.delayedBindings = 0 /\ ~d.delayedDeclare["exchange"]
<1>1. PICK c : c = NewClient(auto)
  OBVIOUS
<1>2. /\ ClientTypes(c) /\ c.sock = "unconnected" /\ c.out = << >> /\ c.messages = << >>
      /\ c.timers = 0 /\ c.delayedBindings = 0
      /\ ~c.opened["queue"] /\ ~c.delayedDeclare["queue"] /\ ~c.delayedDeclare["exchange"]
  BY <1>1, NewClientIs
<1>3. DOMAIN c = ClientFields
  BY <1>2 DEF ClientTypes
<1>4. PICK p : p = ParseCnnString(c, url)
  OBVIOUS
<1>5. DOMAIN p = ClientFields /\ SameClient(c, p, {"port"})
  <2>1. PICK n : n = IF url.port = -1 THEN 65535 ELSE url.port
    OBVIOUS
  <2>2. p = [c EXCEPT !.port = n] \/ p = c
    BY <1>4, <2>1 DEF ParseCnnString
  <2> QED
    BY <1>3, <2>2 DEF SameClient, ClientFields
<1>6. PICK e : e = ConnectTo(p, p.port)
  OBVIOUS
<1>7. DOMAIN e = ClientFields /\ SameClient(p, e, {"connect", "lastPort", "sock"}) /\ e.sock = "connecting"
  <2>1. PICK l, k : /\ l = IF p.port = 0 THEN p.lastPort ELSE p.port
                    /\ k = IF p.sock = "unconnected" THEN "connecting" ELSE p.sock
    OBVIOUS
  <2>2. e = [p EXCEPT !.connect = TRUE, !.lastPort = l, !.sock = k]
    BY <1>6, <2>1 DEF ConnectTo
  <2>3. k = "connecting"
    BY <1>2, <1>5, <2>1 DEF SameClient, ClientFields
  <2> QED
    BY <1>5, <2>2, <2>3 DEF SameClient, ClientFields
<1>8. /\ SameClient(c, e, {"port", "connect", "lastPort", "sock"})
      /\ e.opened = c.opened /\ e.delayedDeclare = c.delayedDeclare
  BY <1>5, <1>7 DEF SameClient, ClientFields
<1>9. ClientTypes(e)
  <2>1. ASSUME NEW x, DOMAIN x = ClientFields, x.sock = "connecting",
               SameClient(c, x, {"port", "connect", "lastPort", "sock"})
        PROVE  ClientTypes(x)
    BY <1>2, <2>1, TypesOfSame
  <2> QED
    BY <1>7, <1>8, <2>1
<1>10. d = QueueDeclare(e)
  BY <1>1, <1>4, <1>6 DEF ClientOpen
<1>11. PICK y : y = [e.delayedDeclare EXCEPT !["queue"] = TRUE]
  OBVIOUS
<1>12. d = [e EXCEPT !.delayedDeclare = y]
  BY <1>2, <1>8, <1>10, <1>11 DEF QueueDeclare
<1>13. DOMAIN d = ClientFields /\ SameClient(e, d, {"delayedDeclare"}) /\ d.delayedDeclare = y
  BY <1>7, <1>12 DEF SameClient, ClientFields
<1>14. y \in [Chan -> BOOLEAN] /\ ~y["exchange"]
  <2>1. e.delayedDeclare \in [Chan -> BOOLEAN] /\ ~e.delayedDeclare["exchange"]
    BY <1>2, <1>8, <1>9 DEF ClientTypes
  <2> QED
    BY <1>11, <2>1 DEF Chan
<1>15. ClientTypes(d)
  <2>1. ASSUME NEW x, DOMAIN x = ClientFields, SameClient(e, x, {"delayedDeclare"}),
               x.delayedDeclare \in [Chan -> BOOLEAN]
        PROVE  ClientTypes(x)
    BY <1>9, <2>1, TypesOfSame
  <2>2. d.delayedDeclare \in [Chan -> BOOLEAN]
    BY <1>13, <1>14
  <2> QED
    BY <1>13, <2>1, <2>2
<1>16. /\ d.sock = e.sock /\ d.out = e.out /\ d.messages = e.messages /\ d.timers = e.timers
       /\ d.delayedBindings = e.delayedBindings
  BY <1>13 DEF SameClient, ClientFields
<1>17. /\ e.out = c.out /\ e.messages = c.messages /\ e.timers = c.timers
       /\ e.delayedBindings = c.delayedBindings
  BY <1>8 DEF SameClient, ClientFields
<1>18. QED
  BY <1>2, <1>7, <1>13, <1>14, <1>15, <1>16, <1>17

LEMMA SessionInit == Init => SessionInv
<1> SUFFICES ASSUME Init PROVE Fresh
  BY FreshState
<1>1. /\ ClientTypes(client) /\ client.sock = "unconnected" /\ client.out = << >>
      /\ client.messages = << >> /\ client.timers = 0 /\ client.delayedBindings = 0
      /\ ~client.delayedDeclare["queue"] /\ ~client.delayedDeclare["exchange"]
  <2>1. PICK d : d = client
    OBVIOUS
  <2>2. d = NewClient(FALSE)
    BY <2>1 DEF Init
  <2>3. /\ ClientTypes(d) /\ d.sock = "unconnected" /\ d.out = << >>
        /\ d.messages = << >> /\ d.timers = 0 /\ d.delayedBindings = 0
        /\ ~d.delayedDeclare["queue"] /\ ~d.delayedDeclare["exchange"]
    BY <2>2, NewClientIs
  <2> QED
    BY <2>1, <2>3
<1>2. PICK b : b = broker
  OBVIOUS
<1>3. b = [queue |-> << >>, qDeclared |-> FALSE, eDeclared |-> FALSE, bound |-> FALSE, acked |-> {},
           phase |-> "none", noAck |-> FALSE, chans |-> {}, consumer |-> 0, prefetch |-> 0,
           closed |-> {}, unacked |-> << >>, nextTag |-> 1, out |-> << >>]
  BY <1>2 DEF Init, NewBroker
<1>4. /\ DOMAIN b = BrokerFields /\ b.acked = {} /\ b.queue = << >>
      /\ b.out = << >> /\ b.unacked = << >> /\ b.phase = "none" /\ b.chans = {}
      /\ b.closed = {} /\ b.consumer = 0 /\ b.prefetch = 0 /\ b.noAck = FALSE /\ b.nextTag = 1
  BY <1>3 DEF BrokerFields
<1>5. /\ IsSeq(b.out) /\ IsSeq(b.unacked) /\ Len(b.unacked) = 0 /\ ToSet(b.unacked) = {}
      /\ IsSeq(b.queue) /\ ToSet(b.queue) = {}
  BY <1>4, EmptyStream
<1>6. BrokerTypes(b)
  BY <1>4, <1>5 DEF BrokerTypes
<1>7. NoSession /\ AckedIsStored
  BY <1>1, <1>2, <1>4 DEF NoSession, AckedIsStored
<1>8. /\ subscribed = 0 /\ listeners = 0 /\ proc = "down" /\ faults = 0 /\ published = {}
      /\ 0 \in 0 .. MaxFaults
  BY MidasAssumption DEF Init
<1>9. QED
  BY <1>1, <1>2, <1>6, <1>7, <1>8 DEF Fresh

LEMMA StartStep ==
  ASSUME SessionInv, Start
  PROVE  SessionInv'
<1> SUFFICES Fresh'
  BY FreshNext
<1>1. /\ proc = "down" /\ proc' = (IF app = "midas" THEN "create" ELSE "up")
      /\ listeners' = 0 /\ subscribed' = 0
      /\ UNCHANGED << app, broker, data, published, faults >>
      /\ \E url \in Urls, auto \in BOOLEAN : client' = QueueDeclare(ClientOpen(NewClient(auto), url))
  BY DEF Start
<1>2. /\ ClientTypes(client') /\ client'.sock = "connecting" /\ client'.out = << >>
      /\ client'.messages = << >> /\ client'.timers = 0 /\ client'.delayedBindings = 0
      /\ ~client'.delayedDeclare["exchange"]
  <2>1. PICK url, auto : client' = QueueDeclare(ClientOpen(NewClient(auto), url))
    BY <1>1
  <2>2. PICK d : d = client'
    OBVIOUS
  <2>3. /\ ClientTypes(d) /\ d.sock = "connecting" /\ d.out = << >>
        /\ d.messages = << >> /\ d.timers = 0 /\ d.delayedBindings = 0
        /\ ~d.delayedDeclare["exchange"]
    BY <2>1, <2>2, StartedIs
  <2> QED
    BY <2>2, <2>3
<1>3. NoSession /\ BrokerTypes(broker) /\ AckedIsStored /\ published \subseteq Msg /\ faults \in 0 .. MaxFaults
  BY <1>1 DEF SessionInv, SocketInv, TimersInv
<1>4. NoSession'
  BY <1>1, <1>2, <1>3 DEF NoSession
<1>5. AckedIsStored'
  BY <1>1, <1>3 DEF AckedIsStored
<1>6. BrokerTypes(broker') /\ published' \subseteq Msg /\ faults' \in 0 .. MaxFaults
  BY <1>1, <1>3
<1>7. ~(app' = "midas" /\ proc' = "up") /\ proc' # "down"
  BY <1>1
<1>8. QED
  BY <1>1, <1>2, <1>4, <1>5, <1>6, <1>7 DEF Fresh

LEMMA CrashStep ==
  ASSUME SessionInv, Crash
  PROVE  SessionInv'
<1> SUFFICES Fresh'
  BY FreshNext
<1>1. /\ proc' = "down" /\ client' = NewClient(FALSE) /\ broker' = EndSession(broker)
      /\ UNCHANGED << app, data, published, faults, listeners, subscribed >>
  BY DEF Crash, envVars
<1>2. /\ ClientTypes(client') /\ client'.sock = "unconnected" /\ client'.out = << >>
      /\ client'.messages = << >> /\ client'.timers = 0 /\ client'.delayedBindings = 0
      /\ ~client'.delayedDeclare["queue"] /\ ~client'.delayedDeclare["exchange"]
  <2>1. PICK d : d = client'
    OBVIOUS
  <2>2. /\ ClientTypes(d) /\ d.sock = "unconnected" /\ d.out = << >>
        /\ d.messages = << >> /\ d.timers = 0 /\ d.delayedBindings = 0
        /\ ~d.delayedDeclare["queue"] /\ ~d.delayedDeclare["exchange"]
    BY <1>1, <2>1, NewClientIs
  <2> QED
    BY <2>1, <2>2
<1>3. /\ BrokerTypes(broker) /\ AckedIsStored /\ published \subseteq Msg /\ faults \in 0 .. MaxFaults
      /\ subscribed \in {0, 1} /\ listeners = subscribed
  BY DEF SessionInv, TimersInv, DeclareInv
<1>4. /\ BrokerTypes(broker') /\ broker'.acked = broker.acked
      /\ broker'.out = << >> /\ broker'.unacked = << >> /\ broker'.phase = "none"
      /\ broker'.chans = {} /\ broker'.closed = {} /\ broker'.consumer = 0
      /\ broker'.prefetch = 0
  BY <1>1, <1>3, EndSessionIs
<1>5. NoSession'
  BY <1>2, <1>4 DEF NoSession
<1>6. AckedIsStored'
  BY <1>1, <1>3, <1>4 DEF AckedIsStored
<1>7. /\ published' \subseteq Msg /\ faults' \in 0 .. MaxFaults /\ proc' # "up"
      /\ subscribed' \in {0, 1} /\ listeners' = subscribed'
  BY <1>1, <1>3
<1>8. QED
  BY <1>2, <1>4, <1>5, <1>6, <1>7 DEF Fresh

-----------------------------------------------------------------------------
(* The session: every step                                                  *)

\* The steps of switchOutput(): the session is as it was, and nothing stored is lost.
LEMMA OutputStep ==
  ASSUME FilesInv, SessionInv, SwitchOutput \/ CreateFile \/ CloseOutput \/ RenameCheckpoint
  PROVE  SessionInv'
<1>1. /\ client' = client /\ broker' = broker /\ proc' # "down"
      /\ UNCHANGED << app, subscribed, listeners, faults, published >>
  BY DEF SwitchOutput, CreateFile, CloseOutput, RenameCheckpoint, envVars
<1>2. \A m : Stored(m) => Stored(m)'
  <2>1. CASE SwitchOutput \/ RenameCheckpoint
    BY <2>1, StoredSame DEF SwitchOutput, RenameCheckpoint
  <2>2. CASE CreateFile
    <3>1. \A i \in DOMAIN data : i \in DOMAIN data' /\ data'[i] = data[i]
      <4>1. data' = Append(data, << >>)
        BY <2>2 DEF CreateFile
      <4>2. /\ Len(data) \in Nat /\ DOMAIN data = 1 .. Len(data)
            /\ DOMAIN data' = 1 .. Len(data) + 1
            /\ \A i \in DOMAIN data : data'[i] = data[i]
        BY <4>1, FileAdded
      <4> QED
        BY <4>2
    <3> QED
      BY <3>1 DEF Stored
  <2>3. CASE CloseOutput
    <3>1. PICK s, a, b : /\ s = data[output]
                         /\ a = Entry("switch", << >>, Len(data)) /\ b = Entry("abort", << >>, 0)
      OBVIOUS
    <3>2. proc = "close" /\ output # 0
      BY <2>3 DEF CloseOutput, FilesInv
    <3>3. PICK t : t = s \o << a, b >>
      OBVIOUS
    <3>4. data' = [data EXCEPT ![output] = t]
      BY <2>3, <3>1, <3>3 DEF CloseOutput, SwitchTo
    <3>5. IsSeq(s)
      <4>1. Len(data) \in Nat /\ DOMAIN data = 1 .. Len(data)
        BY LenProperties DEF FilesInv, IsSeq
      <4>2. output \in DOMAIN data
        BY <3>2, <4>1 DEF FilesInv
      <4> QED
        BY <3>1, <4>2 DEF FilesInv
    <3>6. IsSeq(t) /\ ToSet(t) = ToSet(s) \cup {a, b}
      BY <3>3, <3>5, ConcatTwo, SMTT(60)
    <3>7. /\ DOMAIN data' = DOMAIN data /\ data'[output] = t
          /\ \A i \in DOMAIN data : i # output => data'[i] = data[i]
      BY <3>2, <3>4, <3>6, FileWritten
    <3>8. ASSUME NEW m, Stored(m) PROVE Stored(m)'
      <4>1. PICK i \in DOMAIN data : Message(Parts(m)) \in ToSet(data[i])
        BY <3>8 DEF Stored
      <4>2. Message(Parts(m)) \in ToSet(data'[i])
        BY <3>1, <3>6, <3>7, <4>1
      <4> QED
        BY <3>7, <4>1, <4>2 DEF Stored
    <3> QED
      BY <3>8
  <2> QED
    BY <2>1, <2>2, <2>3
<1>3. proc' = "up" => output' # 0
  <2>1. CASE RenameCheckpoint
    BY <2>1 DEF RenameCheckpoint, FilesInv
  <2>2. CASE SwitchOutput \/ CreateFile \/ CloseOutput
    BY <2>2 DEF SwitchOutput, CreateFile, CloseOutput
  <2> QED
    BY <2>1, <2>2
<1>4. BrokerTypes(broker') /\ SameBroker(broker, broker', {"queue"}) /\ published' \subseteq Msg
  BY <1>1 DEF SessionInv, SameBroker
<1>5. QED
  BY <1>1, <1>2, <1>3, <1>4, SessionKept

LEMMA MethodRead ==
  ASSUME SessionInv, ReadMethod
  PROVE  SessionInv'
<1>1. PICK f : f = Head(broker.out)
  OBVIOUS
<1>2. UNCHANGED Unread /\ UNCHANGED Counted
  BY DEF ReadMethod, Unread, Counted, diskVars, envVars
<1>3. \/ ReadFrame(ConnectionMethods) /\ client' = ConnectionMethod(client, f)
      \/ ReadFrame(ChannelMethods) /\ client' = ChannelMethod(client, f)
      \/ ReadFrame(QueueMethods) /\ client' = QueueMethod(client, f)
  BY <1>1 DEF ReadMethod
<1>4. CASE ReadFrame(ConnectionMethods) /\ client' = ConnectionMethod(client, f)
  <2>1. f.kind \in ConnectionMethods /\ ReadFrame({f.kind})
    BY <1>1, <1>4, ReadIs, ReadOne
  <2>2. CASE f.kind = "Start"
    <3>1. client' = ConnectionStart(client) /\ ReadFrame({"Start"})
      BY <1>4, <2>1, <2>2 DEF ConnectionMethod
    <3> QED
      BY <1>2, <3>1, StartRead
  <2>3. CASE f.kind = "Tune"
    <3>1. client' = ConnectionTune(client) /\ ReadFrame({"Tune"})
      BY <1>4, <2>1, <2>3 DEF ConnectionMethod
    <3> QED
      BY <1>2, <3>1, TuneRead, SMTT(60)
  <2>4. CASE f.kind = "ConnectionOpenOk"
    <3>1. client' = ConnectionOpenOk(client) /\ ReadFrame({"ConnectionOpenOk"})
      BY <1>4, <2>1, <2>4 DEF ConnectionMethod
    <3> QED
      BY <1>2, <3>1, OpenOkRead
  <2>5. CASE f.kind = "ConnectionClose"
    <3>1. client' = ConnectionClose(client) /\ ReadFrame({"ConnectionClose"})
      BY <1>4, <2>1, <2>5 DEF ConnectionMethod
    <3> QED
      BY <1>2, <3>1, CloseRead
  <2> QED
    BY <2>1, <2>2, <2>3, <2>4, <2>5 DEF ConnectionMethods
<1>5. CASE ReadFrame(ChannelMethods) /\ client' = ChannelMethod(client, f)
  <2>1. f.kind \in ChannelMethods /\ ReadFrame({f.kind}) /\ AnswerOK(f)
    BY <1>1, <1>5, ReadIs, ReadOne
  <2>2. CASE f.kind = "ChannelOpenOk"
    <3>1. client' = ChannelOpenOk(client, f.ch) /\ ReadFrame({"ChannelOpenOk"}) /\ f.ch \in Chan
      BY <1>5, <2>1, <2>2 DEF ChannelMethod, AnswerOK
    <3>2. CASE f.ch = "queue"
      BY <1>1, <1>2, <3>1, <3>2, QueueOpenRead
    <3>3. CASE f.ch = "exchange"
      BY <1>2, <3>1, <3>3, ExchangeOpenRead
    <3> QED
      BY <3>1, <3>2, <3>3 DEF Chan
  <2>3. CASE f.kind = "ChannelClose"
    <3>1. client' = client /\ ReadFrame({"ChannelClose"}) /\ {"ChannelClose"} \cap Pieces = {}
      BY <1>5, <2>1, <2>3 DEF ChannelMethod, ChannelClose, Pieces
    <3> QED
      BY <1>2, <3>1, NotedRead
  <2> QED
    BY <2>1, <2>2, <2>3 DEF ChannelMethods
<1>6. CASE ReadFrame(QueueMethods) /\ client' = QueueMethod(client, f)
  <2>1. f.kind \in QueueMethods /\ ReadFrame({f.kind})
    BY <1>1, <1>6, ReadIs, ReadOne
  <2>2. CASE f.kind = "Deliver"
    <3>1. client' = QueueDeliver(client, f) /\ ReadFrame({"Deliver"})
      BY <1>6, <2>1, <2>2 DEF QueueMethod
    <3> QED
      BY <1>1, <1>2, <3>1, DeliverRead
  <2>3. CASE f.kind \in {"ConsumeOk", "QosOk", "BindOk"}
    <3>1. client' = client \/ client' = QueueConsumeOk(client, f.tag)
      BY <1>6, <2>3 DEF QueueMethod
    <3>2. {f.kind} \cap Pieces = {}
      BY <2>3 DEF Pieces
    <3> QED
      BY <1>2, <2>1, <3>1, <3>2, NotedRead
  <2> QED
    BY <2>1, <2>2, <2>3 DEF QueueMethods
<1>7. QED
  BY <1>3, <1>4, <1>5, <1>6

LEMMA SessionStep == FilesInv /\ SessionInv /\ [Next]_vars => SessionInv'
<1> SUFFICES ASSUME FilesInv, SessionInv, [Next]_vars PROVE SessionInv'
  OBVIOUS
<1>1. CASE UNCHANGED vars
  <2>1. /\ client' = client /\ broker' = broker /\ proc' = proc /\ output' = output
        /\ UNCHANGED << app, subscribed, listeners, faults, published, data >>
    BY <1>1 DEF vars
  <2>2. BrokerTypes(broker') /\ SameBroker(broker, broker', {"queue"}) /\ published' \subseteq Msg
    BY <2>1 DEF SessionInv, SameBroker
  <2>3. app = "midas" /\ proc' = "up" => output' # 0
    BY <2>1 DEF SessionInv, SocketInv
  <2> QED
    BY <2>1, <2>2, <2>3, StoredSame, SessionKept
<1>2. CASE Start
  BY <1>2, StartStep
<1>3. CASE Crash
  BY <1>3, CrashStep
<1>4. CASE SwitchOutput \/ CreateFile \/ CloseOutput \/ RenameCheckpoint
  BY <1>4, OutputStep
<1>5. CASE TcpConnected
  BY <1>5, ConnectedStep
<1>6. CASE Reconnect
  BY <1>6, ReconnectStep
<1>7. CASE ReadMethod
  BY <1>7, MethodRead
<1>8. CASE ReadDeclareOk
  <2>1. /\ ReadFrame({"QueueDeclareOk"}) /\ client' = MqDeclared(QueueDeclareOk(client))
        /\ subscribed' = subscribed + 1 /\ listeners' = listeners + 1 /\ UNCHANGED Unread
    BY <1>8 DEF ReadDeclareOk, Unread, diskVars, envVars
  <2> QED
    BY <2>1, DeclareOkRead
<1>9. CASE ReadExchangeDeclareOk
  <2>1. /\ ReadFrame({"ExchangeDeclareOk"}) /\ client' = MqEDeclared(ExchangeDeclareOk(client))
        /\ UNCHANGED Unread /\ UNCHANGED Counted
    BY <1>9 DEF ReadExchangeDeclareOk, Unread, Counted, diskVars, envVars
  <2> QED
    BY <2>1, ExchangeDeclareOkRead
<1>10. CASE ReadContent
  <2>1. /\ ReadFrame({"Content"}) /\ client' = QueueContent(client, Head(broker.out))
        /\ UNCHANGED Unread /\ UNCHANGED Counted
    BY <1>10 DEF ReadContent, Unread, Counted, diskVars, envVars
  <2> QED
    BY <2>1, ContentRead
<1>11. CASE ReadBody
  BY <1>11, BodyRead
<1>12. CASE Network
  BY <1>12, NetworkStep
<1>13. CASE BrokerReads
  BY <1>13, ReadByBroker
<1>14. CASE BrokerDelivers
  BY <1>14, DeliversStep
<1>15. CASE BrokerCloses
  BY <1>15, ClosesStep
<1>16. CASE \E m \in Msg : PublishMessage(m)
  BY <1>16, PublishStep
<1>17. QED
  BY <1>1, <1>2, <1>3, <1>4, <1>5, <1>6, <1>7, <1>8, <1>9, <1>10, <1>11, <1>12, <1>13, <1>14,
     <1>15, <1>16 DEF Next, Daemon

LEMMA SessionInvariant == Spec => []SessionInv
<1>1. QED
  BY FilesInvariant, SessionInit, SessionStep, PTL DEF Spec

-----------------------------------------------------------------------------
(* The session: theorems                                                    *)

\* What the queue holds while a delivery is read, before it and after it.
LEMMA MessagesHeld ==
  ASSUME DeliveryInv
  PROVE  Len(client.messages) <= 1 /\ \A i \in DOMAIN client.messages : client.messages[i].left \in Nat
<1>1. CASE Delivering
  <2>1. PICK m \in Msg, tag \in Nat, o \in 0 .. Len(broker.out) : \E k \in 0 .. Length(m) - 1 :
           client.messages = << >> \/ Held(client.messages, k, m, tag)
    BY <1>1 DEF Delivering
  <2>2. PICK k \in 0 .. Length(m) - 1 :
           client.messages = << >> \/ Held(client.messages, k, m, tag)
    BY <2>1
  <2>3. CASE client.messages = << >>
    <3>1. IsSeq(client.messages) /\ Len(client.messages) = 0
      BY <2>3, EmptyStream
    <3>2. DOMAIN client.messages = 1 .. 0
      BY <3>1, LenProperties DEF IsSeq
    <3> QED
      BY <3>1, <3>2
  <2>4. CASE client.messages # << >>
    <3>1. Held(client.messages, k, m, tag)
      BY <2>2, <2>4
    <3>2. /\ k # 0 /\ IsSeq(client.messages) /\ Len(client.messages) = 1
          /\ client.messages[1] =
               [tag |-> tag, left |-> Left(m, k), payload |-> [i \in 1 .. k - 2 |-> m]]
      BY <3>1, HeldOne
    <3>3. k \in 1 .. Length(m) - 1
      BY <3>2, BodiesOf
    <3>4. client.messages[1].left = Left(m, k) /\ Left(m, k) \in Nat
      BY <3>2, <3>3, LeftNat
    <3>5. DOMAIN client.messages = 1 .. 1
      BY <3>2, LenProperties DEF IsSeq
    <3> QED
      BY <3>2, <3>4, <3>5
  <2> QED
    BY <2>3, <2>4
<1>2. CASE ~Delivering
  BY <1>2 DEF DeliveryInv
<1>3. QED
  BY <1>1, <1>2

\* One timer for each fault, and two for a session that the broker closes, which it does
\* once in a life at most.
LEMMA TimersBounded ==
  ASSUME ClientTypes(client), TimersInv
  PROVE  client.timers \in 0 .. 2 * MaxFaults + 2
<1>1. client.timers \in Nat /\ faults \in Nat /\ MaxFaults \in Nat /\ faults <= MaxFaults
  BY MidasAssumption DEF ClientTypes, TimersInv
<1>2. client.timers <= 2 * faults + 2
  BY <1>1 DEF TimersInv
<1>3. QED
  BY <1>1, <1>2

\* Every field of the client, of the broker and of the process has its type in every
\* reachable state; a message is never left with less than nothing to read, and the
\* timers of a life are bounded: connectionFailed() and networkError() start no more of
\* them than the faults and the sessions the broker closes.
THEOREM SessionTypes == Spec => []TypeOK
<1>1. FilesInv /\ SessionInv => TypeOK
  <2> SUFFICES ASSUME FilesInv, SessionInv PROVE TypeOK
    OBVIOUS
  <2>1. ClientTypes(client) /\ BrokerTypes(broker) /\ TimersInv /\ DeliveryInv
    BY DEF SessionInv
  <2>2. output \in 0 .. Len(data)
    BY DEF FilesInv
  <2>3. client.timers \in 0 .. 2 * MaxFaults + 2
    BY <2>1, TimersBounded
  <2>4. \A i \in DOMAIN client.messages : client.messages[i].left \in Nat
    BY <2>1, MessagesHeld
  <2>5. /\ client.sock \in {"unconnected", "connecting", "connected"}
        /\ client.timeOut \in {0, 1000, 5000, 25000, 125000}
        /\ {client.opened, client.declared, client.delayedDeclare} \subseteq [Chan -> BOOLEAN]
    BY <2>1 DEF ClientTypes
  <2>6. broker.phase \in {"none", "start", "tune", "open", "closing"} /\ broker.chans \subseteq Chan
    BY <2>1 DEF BrokerTypes
  <2>7. /\ app \in {"midas", "vps"} /\ proc \in {"down", "up", "create", "close", "rename"}
        /\ checkpoint \in 0 .. Len(data)
    BY DEF FilesInv
  <2>8. published \subseteq Msg
    BY DEF SessionInv
  <2> QED
    BY <2>2, <2>3, <2>4, <2>5, <2>6, <2>7, <2>8 DEF TypeOK
<1>2. QED
  BY <1>1, FilesInvariant, SessionInvariant, PTL

\* A message that midasinput has acknowledged is in a data file, whole, whatever link,
\* broker and process do and wherever they fail: mq_messageReceived() acknowledges what
\* it has written, and an acknowledgement reaches the broker in the session of its
\* delivery or not at all.
THEOREM AckedCorrect == Spec => []AckedIsStored
<1>1. SessionInv => AckedIsStored
  BY DEF SessionInv
<1>2. QED
  BY <1>1, SessionInvariant, PTL

\* The process never holds two messages: mq_declared() asks for a prefetch of one before
\* it consumes, and the next message follows the acknowledgement of the last.
THEOREM OneHeldCorrect == Spec => []OneHeld
<1>1. SessionInv => OneHeld
  BY MessagesHeld DEF SessionInv, OneHeld
<1>2. QED
  BY <1>1, SessionInvariant, PTL

\* mq_declared() runs once in a life and the broker has one consumer at most, however
\* often the client reconnects and a channel is opened or closed.
THEOREM SubscribedCorrect == Spec => []SubscribedOnce
<1>1. SessionInv => SubscribedOnce
  <2> SUFFICES ASSUME SessionInv PROVE SubscribedOnce
    OBVIOUS
  <2>1. subscribed \in {0, 1} /\ listeners = subscribed
    BY DEF SessionInv, DeclareInv
  <2>2. broker.consumer \in {0, 1}
    BY DEF SessionInv, ConsumeInv
  <2> QED
    BY <2>1, <2>2 DEF SubscribedOnce
<1>2. QED
  BY <1>1, SessionInvariant, PTL

=============================================================================
