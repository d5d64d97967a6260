------------------------------ MODULE MCStreams ------------------------------
(***************************************************************************)
(* TLC instance of Streams: a few messages of every kind for the binary    *)
(* protocols, all short lines for the textual ones.                        *)
(***************************************************************************)
EXTENDS Streams

One(protocol, messages) == [proto |-> protocol, sent |-> << messages, << >> >>]
Two(protocol, a, b) == [proto |-> protocol, sent |-> << a, b >>]

\* qamqp.
MCTable ==
    {<< << 97 >>, Variant("Bool", TRUE) >>,
     << << 98, 99 >>, Variant("List", << Variant("String", << 120 >>),
                                         Variant("LongLong", -2) >>) >>,
     << << 100 >>, Variant("Hash", {<< << 101 >>, Variant("ULongLong", 300) >>}) >>}
MCMethod(arguments) ==
    [type |-> "method", channel |-> 1, class |-> 50, id |-> 10, arguments |-> arguments]
MCHeader(props) ==
    [type |-> "header", channel |-> 300, class |-> 60, bodySize |-> 3, props |-> props]
MCBody(body) == [type |-> "body", channel |-> 300, body |-> body]
MCHeartbeat == [type |-> "heartbeat", channel |-> 0]
MCAmqp ==
    {One("amqp", << MCMethod(Serialize(MCTable)), MCHeartbeat, MCMethod(<< >>) >>),
     One("amqp", << MCHeader(PublishProps(MCTable)), MCBody(<< 206, 1, 206 >>),
                    MCBody(<< >>) >>),
     One("amqp", << MCHeader(("DeliveryMode" :> 2) @@ ("Timestamp" :> 70000)
                             @@ ("AppId" :> << 112 >>) @@ PublishProps({})) >>)}

\* bitcoinconnector: hashes of two bytes.
MCHash(k) == [i \in 1 .. HashSize |-> k]
MCTx(script) ==
    [version |-> 1, lock_time |-> 0,
     in |-> << [hash |-> MCHash(7), n |-> 2, script |-> << 1, 2 >>, sequence |-> 65535] >>,
     out |-> << [value |-> 5000, script |-> script], [value |-> 1, script |-> << >>] >>]
MCBlock(txs) ==
    [version |-> 1, parent |-> MCHash(1), merkle_root |-> MCHash(2),
     timestamp |-> 1300000000, bits |-> 9, nonce |-> 77777, txs |-> txs]
MCLong == [i \in 1 .. 253 |-> 1]
MCPacket(type, data) == [type |-> type, data |-> data]
MCVersion ==
    MCPacket("version",
             [version |-> 31900, services |-> 1, timestamp |-> 1300000000, height |-> 300,
              nonce |-> << 1, 2, 3, 4, 5, 6, 7, 8 >>, agent |-> << 47, 112 >>])
MCAddr(port) ==
    [stamp |-> 1300000000,
     addr |-> [services |-> 1, addr |-> [i \in 1 .. 16 |-> i], port |-> port]]
\* One of IPv4.
MCV4Addr == [stamp |-> 1300000000,
             addr |-> [services |-> 1, addr |-> << 10, 0, 0, 1 >>, port |-> 8333]]
MCInv ==
    MCPacket("inv", << [type |-> 1, hash |-> MCHash(1)], [type |-> 2, hash |-> MCHash(2)] >>)
MCBitcoin ==
    {One("bitcoin", << MCVersion, MCInv, MCPacket("ping", << >>) >>),
     One("bitcoin", << MCPacket("addr", << MCAddr(18333), MCV4Addr >>),
                       MCPacket("tx", MCTx(<< 118, 169 >>)) >>),
     One("bitcoin", << MCPacket("tx", MCTx(MCLong)), MCInv >>),
     One("bitcoin", << MCPacket("block", MCBlock(<< MCTx(<< 3 >>), MCTx(<< >>) >>)),
                       MCPacket("block", MCBlock(<< >>)) >>),
     One("bitcoin", << MCInv, [type |-> "corrupt", packet |-> MCInv], MCInv >>),
     One("bitcoin", << MCInv, [type |-> "noise", data |-> [i \in 1 .. 30 |-> i]] >>)}

\* Lines.  One of a prefix alone makes handleIrcCommand() look at the first of no words.
MCLines(k) == UNION {[1 .. n -> {"a", ":", " "}] : n \in 0 .. k}
MCIrcLines ==
    {line \in MCLines(LineLimit) :
        LET ink == Trimmed(line)
        IN ink # << >> /\ ink[1] = ":" =>
               \E i \in 2 .. Len(ink) - 1 : ink[i] = " "}
MCOver == [i \in 1 .. LineLimit + 1 |-> "a"]
MCIrc ==
    {One("irc", << line, << "a", "\r" >> >>) : line \in MCIrcLines}
    \cup {One("irc", << << >>, << "a" >>, MCOver, << "a" >> >>)}
MCBroadcast ==
    {Two("broadcast", << << "a" >>, << " ", "b", "\r" >>, << >> >>, << << "c" >>, << "d" >> >>),
     Two("broadcast", << << "a" >>, MCOver, << "b" >> >>, << << "c", " " >>, << "d" >> >>)}

\* rconnect: 3 is the identity of nobody.
MCRelay(to, wide, data) == [to |-> to, wide |-> wide, data |-> data]
MCRConnect ==
    {Two("rconnect",
         << MCRelay(2, FALSE, << 1 >>), MCRelay(2, w, << 2, 2 >>), MCRelay(1, FALSE, << >>) >>,
         << MCRelay(1, TRUE, << 4 >>), MCRelay(t, FALSE, << 5 >>), MCRelay(1, FALSE, << 6 >>) >>) :
         w \in BOOLEAN, t \in {2, 3}}

MCSending == MCAmqp \cup MCBitcoin \cup MCIrc \cup MCBroadcast \cup MCRConnect

=============================================================================
