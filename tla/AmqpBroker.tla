----------------------------- MODULE AmqpBroker -----------------------------
(***************************************************************************)
(* The AMQP broker one process of the daemon talks to.  It is not part of  *)
(* this repository: it is modelled as far as the client library relies on  *)
(* it.  Queue, exchange, binding and messages are durable; a session lives *)
(* as long as its TCP connection, and what was delivered in it and not     *)
(* acknowledged goes back to the head of the queue.  b.out is the TCP      *)
(* stream to the client.                                                   *)
(***************************************************************************)
EXTENDS Amqp

\* Replies carry the method they answer.
Reply(b, f) == [b EXCEPT !.out = Append(@, f)]

NewBroker ==
    [queue |-> << >>, qDeclared |-> FALSE, eDeclared |-> FALSE, bound |-> FALSE, acked |-> {},
     phase |-> "none", noAck |-> FALSE, chans |-> {}, consumer |-> 0, prefetch |-> 0,
     closed |-> {}, unacked |-> << >>, nextTag |-> 1, out |-> << >>]

\* The messages that were delivered and not acknowledged.
Unacked(b) == [i \in 1 .. Len(b.unacked) |-> b.unacked[i].msg]

\* A session that ends gives back what was not acknowledged; what is durable stays.
EndSession(b) ==
    [NewBroker EXCEPT !.queue = Unacked(b) \o b.queue, !.qDeclared = b.qDeclared,
                      !.eDeclared = b.eDeclared, !.bound = b.bound, !.acked = b.acked]

\* An acknowledgement is for one delivery.
Acknowledge(b, tag) ==
    LET taken == {i \in DOMAIN b.unacked : b.unacked[i].tag = tag}
    IN  IF taken = {} THEN b
        ELSE LET i == CHOOSE i \in taken : TRUE
             IN  [b EXCEPT !.acked = @ \union {b.unacked[i].msg}, !.unacked = RemoveAt(@, i)]

\* The session's handshake, and the methods of an open channel.
BrokerHandle(b, f) ==
    CASE f.kind = "Header"         -> Reply([b EXCEPT !.phase = "start"], Method("connection", "Start"))
      [] f.kind = "StartOk"        -> Reply([b EXCEPT !.phase = "tune"], Method("connection", "Tune"))
      [] f.kind = "TuneOk"         -> b
      [] f.kind = "ConnectionOpen" -> Reply([b EXCEPT !.phase = "open"], Method("connection", "ConnectionOpenOk"))
      [] f.kind = "ChannelOpen"    -> Reply([b EXCEPT !.chans = @ \union {f.ch}], Method(f.ch, "ChannelOpenOk"))
      [] f.kind = "QueueDeclare"   -> Reply([b EXCEPT !.qDeclared = TRUE], Method(f.ch, "QueueDeclareOk"))
      [] f.kind = "Qos"            -> Reply([b EXCEPT !.prefetch = f.n], Method(f.ch, "QosOk"))
      [] f.kind = "Consume"        -> Reply([b EXCEPT !.consumer = @ + 1, !.noAck = (f.n = 1)], Frame(f.ch, "ConsumeOk", 0, b.consumer + 1, NoMsg))
      [] f.kind = "ExchangeDeclare" -> Reply([b EXCEPT !.eDeclared = TRUE], Method(f.ch, "ExchangeDeclareOk"))
      [] f.kind = "Bind"           -> Reply([b EXCEPT !.bound = TRUE], Method(f.ch, "BindOk"))
      [] f.kind = "Ack"            -> Acknowledge(b, f.n)

\* A closing session, and a channel whose Close-Ok is awaited, ignore what
\* still arrives.
BrokerIgnores(b, f) == b.phase = "closing" \/ f.ch \in b.closed

\* A method on a channel that was never opened is an error of the connection.
BrokerRefuses(b, f) ==
    f.ch \in Chan \ (b.chans \union b.closed) /\ f.kind # "ChannelOpen"

\* A delivery is the method, the content header and the body frames the
\* message was published with.
CanDeliver(b) ==
    /\ b.consumer > 0
    /\ b.queue # << >>
    /\ b.prefetch = 0 \/ Len(b.unacked) < b.prefetch

Deliver(b) ==
    LET m == Head(b.queue)
        d == Frame("queue", "Deliver", b.nextTag, b.consumer, m)
        content == [i \in 1 .. Len(Publish(m)) - 1 |-> [Publish(m)[i + 1] EXCEPT !.ch = "queue"]]
    IN  [b EXCEPT !.queue = Tail(@), !.nextTag = @ + 1,
                  !.unacked = IF b.noAck THEN @ ELSE Append(@, [tag |-> b.nextTag, msg |-> m]),
                  !.acked = IF b.noAck THEN @ \union {m} ELSE @,
                  !.out = @ \o << d >> \o content]

\* The broker closes the connection (AMQP_CONNECTION_FORCED) and waits for the
\* Close-Ok before it hangs up.
ForceClose(b) ==
    Reply([EndSession(b) EXCEPT !.phase = "closing", !.out = b.out],
          Method("connection", "ConnectionClose"))

\* The broker closes the channel of the queue, after an error on it.
CloseChannel(b) ==
    Reply([b EXCEPT !.chans = @ \ {"queue"}, !.closed = {"queue"}, !.consumer = 0, !.unacked = << >>,
                    !.queue = Unacked(b) \o @],
          Method("queue", "ChannelClose"))

=============================================================================
