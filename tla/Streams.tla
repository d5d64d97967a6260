------------------------------- MODULE Streams -------------------------------
(***************************************************************************)
(* The five protocols that cut messages out of a TCP stream: the frames of *)
(* qamqp, the packets of bitcoinconnector, the lines of kumoircd and of    *)
(* broadcast, and the relayed packets of rconnect.  Every source sends its *)
(* messages one after the other; the bytes arrive in pieces of any size,   *)
(* and handleBuffer() (readyRead() in qamqp) runs once for every piece.    *)
(***************************************************************************)
EXTENDS AmqpFrames

CONSTANTS
    HashSize,   \* bytes of a hash in bitcoin packets: 32
    IdSize,     \* bytes of a client's identity in rconnect: 16
    LineLimit,  \* longest line: 4096
    Sending,    \* what the sources may send: records of a protocol and messages
    MaxPiece    \* bound on a piece that is not all the rest

B == INSTANCE BitcoinCodec

ASSUME StreamsAssumption == {HashSize, IdSize, LineLimit, MaxPiece} \subseteq Nat \ {0}

VARIABLES
    proto,  \* the protocol spoken
    sent,   \* sent[c]: the messages of source c
    wire,   \* wire[c]: each of them as its bytes
    pos,    \* pos[c]: bytes of them that have arrived
    buf,    \* buf[c]: bytes that have arrived and are not handled
    open,   \* open[c]: the connection of c
    got     \* got[c]: what c's messages were understood as; in broadcast and
            \* rconnect: what was written to c (after its identity in rconnect)

vars == << proto, sent, wire, pos, buf, open, got >>

Source == {1, 2}
Relays == {"broadcast", "rconnect"}
Lines == {"irc", "broadcast"}

-----------------------------------------------------------------------------
\* Lines.
Blank == {" ", "\r", "\n", "\t"}
Trimmed(line) ==
    LET ink == {i \in DOMAIN line : line[i] \notin Blank}
    IN IF ink = {} THEN << >> ELSE SubSeq(line, Min(ink), Max(ink))

\* ModKumoIRCdClient::handleLine(): the words of the line from position i.
RECURSIVE Words(_, _)
Words(line, i) ==
    IF i > Len(line) THEN << >>
    ELSE IF line[i] = ":" /\ i # 1 THEN << Drop(line, i) >>
    ELSE LET spaces == {j \in i .. Len(line) : line[j] = " "}
         IN IF spaces = {} THEN << Drop(line, i - 1) >>
            ELSE LET end == Min(spaces)
                     next == Min({j \in end .. Len(line) + 1 :
                                     j > Len(line) \/ line[j] # " "})
                 IN << SubSeq(line, i, end - 1) >> \o Words(line, next)

\* What is left of the words when the prefix is taken off.
Command(line) ==
    LET words == Words(line, 1)
    IN IF words[1][1] = ":" THEN [prefix |-> words[1], words |-> Tail(words)]
       ELSE [prefix |-> << >>, words |-> words]

-----------------------------------------------------------------------------
\* rconnect: identity of the target, length in two or four bytes, data.
Id(c) == [k \in 1 .. IdSize |-> c]
RConnectPacket(m) ==
    Id(m.to) \o (IF m.wide THEN BE(2, 32768 + Len(m.data) \div 65536)
                               \o BE(2, Len(m.data) % 65536)
                 ELSE BE(2, Len(m.data))) \o m.data

RConnectHeader(s) == IF s[IdSize + 1] >= 128 THEN IdSize + 4 ELSE IdSize + 2
\* Mutant: the length is always the narrow one.
RConnectSizeNarrow(s) == IdSize + 2 + ReadBE(2, Drop(s, IdSize)).val

RConnectSize(s) ==
    LET word(k) == ReadBE(2, Drop(s, IdSize + k)).val
    IN RConnectHeader(s) + IF RConnectHeader(s) = IdSize + 4
                           THEN (word(0) % 32768) * 65536 + word(2) ELSE word(0)
RConnectWhole(s) ==
    Len(s) >= IdSize + 2 /\ Len(s) >= RConnectHeader(s) /\ Len(s) >= RConnectSize(s)

-----------------------------------------------------------------------------
Encoded(p, m) ==
    CASE p = "amqp" -> ToStream(m)
      [] p = "bitcoin" /\ m.type = "noise" -> m.data
      [] p = "bitcoin" /\ m.type = "corrupt" ->
            [B!Packet(m.packet) EXCEPT ![B!PacketHeaderSize] = (@ + 1) % 256]
      [] p = "bitcoin" -> B!Packet(m)
      [] p = "rconnect" -> RConnectPacket(m)
      [] OTHER -> Append(m, "\n")

Stream(c) == FlattenSeq(wire[c])

Init ==
    /\ \E s \in Sending :
          /\ proto = s.proto /\ sent = s.sent
          /\ wire = [c \in Source |-> [i \in DOMAIN s.sent[c] |->
                                          Encoded(s.proto, s.sent[c][i])]]
    /\ pos = [c \in Source |-> 0] /\ buf = [c \in Source |-> << >>]
    /\ open = [c \in Source |-> TRUE] /\ got = [c \in Source |-> << >>]

\* One client's buffer and what everybody gets: the loops of the handlers.
State(b, o, g) == [buf |-> b, open |-> o, got |-> g]
Heard(g, c, x) == [g EXCEPT ![c] = Append(@, x)]
Shut(st) == State(<< >>, FALSE, st.got)

RECURSIVE ReadyRead(_, _), Packets(_, _), BufferLines(_, _), RelayPackets(_, _),
          BufferLinesLate(_, _)

\* QAMQP::Network::readyRead().
ReadyRead(c, st) ==
    IF ~Complete(st.buf) THEN st
    ELSE LET n == FrameSize(st.buf)
         IN ReadyRead(c, State(Drop(st.buf, n), TRUE,
                               Heard(st.got, c, FromStream(Take(st.buf, n)))))

\* ModBitcoinConnectorClient::handleBuffer().
Packets(c, st) ==
    IF B!BadMagic(st.buf) \/ B!BadSum(st.buf) THEN Shut(st)
    ELSE IF ~B!WholePacket(st.buf) THEN st
    ELSE Packets(c, State(Drop(st.buf, B!PacketSize(st.buf)), TRUE,
                          Heard(st.got, c, B!ReadPacket(st.buf))))

\* Mutant: a client of broadcast does not hear itself.
HandleLineOthers(c, line, g) ==
    IF proto = "broadcast"
    THEN [d \in Source |-> IF open[d] /\ d # c THEN Append(g[d], line \o << "\r", "\n" >>)
                           ELSE g[d]]
    ELSE IF line = << >> THEN g ELSE Heard(g, c, Command(line))

\* handleLine() of kumoircd and of broadcast.
HandleLine(c, line, g) ==
    IF proto = "broadcast"
    THEN [d \in Source |-> IF open[d] THEN Append(g[d], line \o << "\r", "\n" >>) ELSE g[d]]
    ELSE IF line = << >> THEN g ELSE Heard(g, c, Command(line))

\* Mutant: a line is found too long only when its end is there.
BufferLinesLate(c, st) ==
    LET ends == {i \in DOMAIN st.buf : st.buf[i] = "\n"}
        p == Min(ends) - 1
    IN IF ends = {} THEN st
       ELSE IF p > LineLimit THEN Shut(st)
       ELSE BufferLinesLate(c, State(Drop(st.buf, p + 1), TRUE,
                                     HandleLine(c, Trimmed(Take(st.buf, p)), st.got)))

\* ClientTcpLine::handleBuffer().
BufferLines(c, st) ==
    LET ends == {i \in DOMAIN st.buf : st.buf[i] = "\n"}
        p == Min(ends) - 1
    IN IF ends = {} THEN IF Len(st.buf) > LineLimit THEN Shut(st) ELSE st
       ELSE IF p > LineLimit THEN Shut(st)
       ELSE BufferLines(c, State(Drop(st.buf, p + 1), TRUE,
                                 HandleLine(c, Trimmed(Take(st.buf, p)), st.got)))

\* ModRConnectClient::handleBuffer(): a packet to an unknown target ends the loop.
RelayPackets(c, st) ==
    IF ~RConnectWhole(st.buf) THEN st
    ELSE LET n == RConnectSize(st.buf)
             target == {d \in Source : open[d] /\ Id(d) = Take(st.buf, IdSize)}
             relayed == Id(c) \o SubSeq(st.buf, IdSize + 1, n)
         IN IF target = {} THEN State(Drop(st.buf, n), TRUE, st.got)
            ELSE RelayPackets(c, State(Drop(st.buf, n), TRUE,
                     [d \in Source |-> IF d \in target THEN Append(st.got[d], relayed)
                                       ELSE st.got[d]]))

HandleBuffer(c, st) ==
    CASE proto = "amqp" -> ReadyRead(c, st)
      [] proto = "bitcoin" -> Packets(c, st)
      [] proto = "rconnect" -> RelayPackets(c, st)
      [] OTHER -> BufferLines(c, st)

\* n more bytes of source c arrive.
Arrive(c, n) ==
    LET piece == SubSeq(Stream(c), pos[c] + 1, pos[c] + n)
        st == HandleBuffer(c, State(buf[c] \o piece, TRUE, got))
    IN /\ open[c]
       /\ pos' = [pos EXCEPT ![c] = @ + n]
       /\ buf' = [buf EXCEPT ![c] = st.buf]
       /\ open' = [open EXCEPT ![c] = st.open]
       /\ got' = st.got
       /\ UNCHANGED << proto, sent, wire >>

\* A client of rconnect goes: its destructor takes it out of the table.
Leave(c) ==
    /\ proto = "rconnect" /\ c = 2 /\ open[c]
    /\ open' = [open EXCEPT ![c] = FALSE]
    /\ UNCHANGED << proto, sent, wire, pos, buf, got >>

Next ==
    \E c \in Source :
        \/ Leave(c)
        \/ LET left == Len(Stream(c)) - pos[c]
               piece == ((1 .. left) \cap (1 .. MaxPiece)) \cup ({left} \ {0})
           IN \E n \in piece : Arrive(c, n)

Spec == Init /\ [][Next]_vars

-----------------------------------------------------------------------------
\* The reference: what the messages mean, without any buffer.

\* The words of an IRC line: those between spaces, and all that follows the first
\* colon after a space as one.
IrcMeaning(line) ==
    LET colons == {i \in 2 .. Len(line) : line[i] = ":" /\ line[i - 1] = " "}
        head == IF colons = {} THEN line ELSE SubSeq(line, 1, Min(colons) - 1)
        starts == {i \in DOMAIN head : head[i] # " " /\ (i = 1 \/ head[i - 1] = " ")}
        word(i) == SubSeq(head, i, Min({j \in i .. Len(head) :
                              j = Len(head) \/ head[j + 1] = " "}))
        words == [k \in 1 .. Cardinality(starts) |->
                     word(SetToSortSeq(starts, <)[k])]
        all == IF colons = {} THEN words ELSE Append(words, Drop(line, Min(colons)))
    IN IF line[1] = ":" THEN [prefix |-> all[1], words |-> Tail(all)]
       ELSE [prefix |-> << >>, words |-> all]

\* What its reader takes an addr packet for: of an IPv4 address, which is written with its
\* highest byte first, it takes the bytes the other way round (10.0.0.1 for 1.0.0.10).
AddrMeaning(m) ==
    LET taken(e) == IF Len(e.addr.addr) = 4 THEN [e EXCEPT !.addr.addr = Reverse(@)] ELSE e
    IN [m EXCEPT !.data = [i \in DOMAIN @ |-> taken(@[i])]]

Meaning(m) ==
    CASE proto = "irc" /\ Trimmed(m) = << >> -> << >>
      [] proto = "irc" /\ Trimmed(m) # << >> -> << IrcMeaning(Trimmed(m)) >>
      [] proto = "bitcoin" /\ m.type = "addr" -> << AddrMeaning(m) >>
      [] OTHER -> << m >>

\* A message that ends the connection, and where in its bytes that shows.
Fatal(m) ==
    CASE proto = "bitcoin" -> m.type \in {"noise", "corrupt"}
      [] proto \in Lines -> Len(m) > LineLimit
      [] OTHER -> FALSE
ShownAt(m) ==
    CASE proto \in Lines -> LineLimit + 1
      [] m.type = "noise" -> B!PacketHeaderSize
      [] OTHER -> Len(Encoded(proto, m))

\* Where the i-th message of c begins, and the messages that have arrived whole with
\* no fatal one before them.
Offset(c, i) == Len(FlattenSeq(Take(wire[c], i - 1)))
Arrived(c) ==
    LET whole == {i \in DOMAIN sent[c] :
                     /\ Offset(c, i + 1) <= pos[c]
                     /\ \A k \in 1 .. i : ~Fatal(sent[c][k])}
    IN SubSeq(sent[c], 1, Cardinality(whole))

\* However the bytes are cut, at every moment exactly the messages that have arrived
\* whole are handled, each as what its sender meant.
Reassembled ==
    proto \notin Relays =>
        \A c \in Source :
            got[c] = FlattenSeq([i \in DOMAIN Arrived(c) |-> Meaning(Arrived(c)[i])])

\* However the bytes are cut, a connection is closed exactly when a line longer than
\* the limit, a wrong magic or a wrong checksum shows.
ClosedWhenFatal ==
    proto # "rconnect" =>
        \A c \in Source :
            ~open[c] <=> \E i \in DOMAIN sent[c] :
                            /\ Fatal(sent[c][i])
                            /\ pos[c] >= Offset(c, i) + ShownAt(sent[c][i])

\* Every client of broadcast gets the same lines: all that have arrived, those of one
\* source in their order.  (A client that has been closed gets no more.)
SameForAll ==
    LET line(m) == Trimmed(m) \o << "\r", "\n" >>
        lines(c) == [i \in DOMAIN Arrived(c) |-> line(Arrived(c)[i])]
    IN proto = "broadcast" =>
        /\ \A c, d \in Source : IsPrefix(got[c], got[d]) \/ IsPrefix(got[d], got[c])
        /\ \A c, d \in Source : open[d] =>
              /\ lines(c) = SelectSeq(got[d], LAMBDA x : x \in ToSet(lines(c)))
              /\ Len(got[d]) = Len(Arrived(1)) + Len(Arrived(2))

\* rconnect hands every packet on whole, in order and with its sender's identity; one
\* that has arrived only waits when a packet to nobody came from the same sender.
Relayed ==
    proto = "rconnect" =>
        \A c, d \in Source : open[d] =>
            LET to(m) == m.to = d
                due == SelectSeq(Arrived(c), to)
                bytes == [i \in DOMAIN due |->
                             Id(c) \o Drop(RConnectPacket(due[i]), IdSize)]
                relayed == SelectSeq(got[d], LAMBDA x : Take(x, IdSize) = Id(c))
            IN /\ IsPrefix(relayed, bytes)
               /\ relayed = bytes \/ \E m \in ToSet(Arrived(c)) :
                                         m.to \notin {x \in Source : open[x]}

\* What publish() puts before a message is what AMQP 0-9-1 reads: content encoding
\* and message id have each other's bit, and are always set together.
HeaderUnderstood ==
    proto = "amqp" =>
        \A m \in UNION {ToSet(sent[c]) : c \in Source} :
            m.type = "header" =>
                LET h == Drop(Payload(m), 12)
                    props == ReadProperties(ReadBE(2, h).val, Drop(h, 2),
                                            StandardProperties)
                IN props = m.props

=============================================================================
