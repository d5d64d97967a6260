----------------------------- MODULE AmqpFrames -----------------------------
(***************************************************************************)
(* The frames of qamqp: what toStream() writes, what readyRead() cuts out  *)
(* of the byte stream, and what the constructors make of it.  An abstract  *)
(* frame is a record with the fields of its class.                         *)
(***************************************************************************)
EXTENDS AmqpFields

FrameEnd == 206
HeaderSize == 7
TypeCode == [method |-> 1, header |-> 2, body |-> 3, heartbeat |-> 8]

\* The properties of a content header in the order they are written: name, bit of
\* the flags, field type.
Property(name, bit, t) == [name |-> name, bit |-> bit, t |-> t]
Properties == <<
    Property("ContentType", 15, "s"), Property("ContentEncoding", 7, "s"),
    Property("Headers", 13, "F"), Property("DeliveryMode", 12, "b"),
    Property("Priority", 11, "b"), Property("CorrelationId", 10, "s"),
    Property("ReplyTo", 9, "s"), Property("Expiration", 8, "s"),
    Property("MessageId", 14, "s"), Property("Timestamp", 6, "T"),
    Property("Type", 5, "s"), Property("UserId", 4, "s"), Property("AppId", 3, "s"),
    Property("ClusterID", 2, "s") >>

HasBit(flags, bit) == (flags \div 2 ^ bit) % 2 = 1

\* Content::size(): the flags, then the properties that are set.
WriteProperties(props) ==
    LET set == SelectSeq(Properties, LAMBDA p : p.name \in DOMAIN props)
    IN BE(2, FoldLeft(LAMBDA acc, p : acc + 2 ^ p.bit, 0, set))
       \o FlattenSeq([i \in DOMAIN set |-> WriteTyped(set[i].t, props[set[i].name])])

Payload(f) ==
    CASE f.type = "method" -> BE(2, f.class) \o BE(2, f.id) \o f.arguments
      [] f.type = "header" -> BE(2, f.class) \o BE(2, 0) \o BE(8, f.bodySize)
                              \o WriteProperties(f.props)
      [] f.type = "body" -> f.body
      [] OTHER -> << >>

\* Base::toStream().
ToStream(f) ==
    << TypeCode[f.type] >> \o BE(2, f.channel) \o BE(4, Len(Payload(f))) \o Payload(f)
    \o << FrameEnd >>

\* Content::readPayload(), with the table of properties it goes by.
ReadProperties(flags, s, table) ==
    LET set == SelectSeq(table, LAMBDA p : HasBit(flags, p.bit))
        step(acc, p) ==
            LET r == ReadField(Letter[p.t], acc.rest)
            IN Got((p.name :> r.val.v) @@ acc.val, r.rest)
    IN FoldLeft(step, Got(<< >>, s), set).val

ReadHeader(f, s) ==
    LET size == ReadSigned(8, Drop(s, 4))
        flags == ReadBE(2, size.rest)
    IN f @@ [class |-> ReadBE(2, s).val, bodySize |-> size.val,
             props |-> ReadProperties(flags.val, flags.rest, Properties)]

\* The constructors of the frames, from the bytes of one frame.
FromStream(s) ==
    LET payload == SubSeq(s, HeaderSize + 1, Len(s) - 1)
        f(type) == [type |-> type, channel |-> ReadBE(2, Drop(s, 1)).val]
    IN CASE s[1] = TypeCode.method ->
              f("method") @@ [class |-> ReadBE(2, payload).val,
                              id |-> ReadBE(2, Drop(payload, 2)).val,
                              arguments |-> Drop(payload, 4)]
         [] s[1] = TypeCode.header -> ReadHeader(f("header"), payload)
         [] s[1] = TypeCode.body -> f("body") @@ [body |-> payload]
         [] OTHER -> f("heartbeat")

\* readyRead(): the bytes of the frame at the head of s once they are all there.  The
\* end of the frame is read, and a wrong one only warned about.
FrameSize(s) == HeaderSize + ReadBE(4, Drop(s, 3)).val + 1

\* Mutant: one byte more is waited for.
CompleteLate(s) == Len(s) >= HeaderSize /\ Len(s) > FrameSize(s)

Complete(s) == Len(s) >= HeaderSize /\ Len(s) >= FrameSize(s)

\* Mutant: no message id.
PublishPropsNoId(headers) ==
    [ContentType |-> << 116 >>, ContentEncoding |-> << 117, 56 >>, Headers |-> headers]

\* The header frame of ExchangePrivate::publish().
PublishProps(headers) ==
    [ContentType |-> << 116 >>, ContentEncoding |-> << 117, 56 >>,
     Headers |-> headers, MessageId |-> << 48 >>]

\* How AMQP 0-9-1 reads a header (external): the bits of content encoding and message
\* id are the other way round there.
StandardProperties ==
    [i \in DOMAIN Properties |->
        CASE Properties[i].name = "ContentEncoding" -> [Properties[i] EXCEPT !.bit = 14]
          [] Properties[i].name = "MessageId" -> [Properties[i] EXCEPT !.bit = 7]
          [] OTHER -> Properties[i]]

=============================================================================
