---------------------------- MODULE BitcoinCodec ----------------------------
(***************************************************************************)
(* The encodings of the bitcoin library: integers of variable length,      *)
(* strings, addresses, transactions, and the packets of the connector.     *)
(* All numbers are little endian.  Hashes have HashSize bytes, and the     *)
(* double SHA-256 is some function of the bytes.                           *)
(***************************************************************************)
EXTENDS Integers, SequencesExt, TLC, Bytes

CONSTANT HashSize  \* bytes of a hash: 32

\* BitcoinStream.  (The form of nine bytes is for 0xffffffff and more.)
WriteInt(i) ==
    IF i < 253 THEN << i >>
    ELSE IF i < 65535 THEN << 253 >> \o LE(2, i)
    ELSE << 254 >> \o LE(4, i)

ReadInt(s) ==
    LET first == ReadLE(1, s)
    IN CASE first.val = 253 -> ReadLE(2, first.rest)
         [] first.val = 254 -> ReadLE(4, first.rest)
         [] first.val = 255 -> ReadLE(8, first.rest)
         [] OTHER -> first

WriteString(x) == WriteInt(Len(x)) \o x
ReadString(s) == LET n == ReadInt(s) IN ReadRaw(n.val, n.rest)

\* A member of a record, in the order they are read.
Field(name, kind) == [name |-> name, kind |-> kind]

WriteList(xs, Op(_)) ==
    WriteInt(Len(xs)) \o FlattenSeq([i \in DOMAIN xs |-> Op(xs[i])])

\* BitcoinTx, BitcoinTxIn, BitcoinTxOut: generate() and parseStream().
WriteTxIn(i) == i.hash \o LE(4, i.n) \o WriteString(i.script) \o LE(4, i.sequence)
TxIn == << Field("hash", "hash"), Field("n", "uint32"), Field("script", "string"),
           Field("sequence", "uint32") >>

WriteTxOut(o) == LE(8, o.value) \o WriteString(o.script)
TxOut == << Field("value", "uint64"), Field("script", "string") >>

WriteTx(tx) ==
    LE(4, tx.version) \o WriteList(tx.in, WriteTxIn) \o WriteList(tx.out, WriteTxOut)
    \o LE(4, tx.lock_time)
Tx == << Field("version", "uint32"), Field("in", "txins"), Field("out", "txouts"),
         Field("lock_time", "uint32") >>

\* BitcoinBlock: a header of the version, two hashes and three numbers, and the
\* transactions behind it.
WriteBlock(b) ==
    LE(4, b.version) \o b.parent \o b.merkle_root \o LE(4, b.timestamp) \o LE(4, b.bits)
    \o LE(4, b.nonce) \o IF b.txs = << >> THEN << >> ELSE WriteList(b.txs, WriteTx)

\* BitcoinNetAddr: decode_hp() and decode_bin().  The address in an IPv4 one is written
\* with its highest byte first and read with its lowest byte first.
V4Mapped == [k \in 1 .. 12 |-> IF k > 10 THEN 255 ELSE 0]
WriteAddr(a) ==
    LE(8, a.services) \o (IF Len(a.addr) = 4 THEN V4Mapped ELSE << >>) \o a.addr
    \o BE(2, a.port)
ReadAddr(s) ==
    LET bin == Take(s, 26)
        addr == SubSeq(bin, 9, 24)
    IN Got([services |-> ReadLE(8, bin).val,
            addr |-> IF Take(addr, 12) = V4Mapped THEN Reverse(Drop(addr, 12)) ELSE addr,
            port |-> ReadBE(2, Drop(bin, 24)).val], Drop(s, 26))

\* An entry of inv, getdata and notfound.
WriteEntry(e) == LE(4, e.type) \o e.hash
Entry == << Field("type", "uint32"), Field("hash", "hash") >>

WriteStampedAddr(e) == LE(4, e.stamp) \o WriteAddr(e.addr)
StampedAddr == << Field("stamp", "uint32"), Field("addr", "addr") >>

\* sendVersion() and bitcoin_packet_version(); the two addresses are skipped.
WriteVersion(v) ==
    LE(4, v.version) \o LE(8, v.services) \o LE(8, v.timestamp)
    \o [k \in 1 .. 52 |-> 0] \o v.nonce \o WriteString(v.agent) \o LE(4, v.height)
Version == << Field("version", "uint32"), Field("services", "uint64"),
              Field("timestamp", "uint64"), Field("addresses", "skipped"),
              Field("nonce", "nonce"), Field("agent", "string"),
              Field("height", "uint32") >>

\* Reading a value of a kind: a list of some element, a record, or a plain value.
Element == [txins |-> "txin", txouts |-> "txout", txs |-> "tx", entries |-> "entry",
            addrs |-> "stamped"]
Record == [txin |-> TxIn, txout |-> TxOut, tx |-> Tx, entry |-> Entry,
           stamped |-> StampedAddr, version |-> Version]

RECURSIVE Decode(_, _)
Decode(kind, s) ==
    LET item(acc, i) == LET r == Decode(Element[kind], acc.rest)
                        IN Got(Append(acc.val, r.val), r.rest)
        field(acc, f) == LET r == Decode(f.kind, acc.rest)
                         IN Got(IF f.kind = "skipped" THEN acc.val
                                ELSE (f.name :> r.val) @@ acc.val, r.rest)
    IN CASE kind \in DOMAIN Element ->
               LET n == ReadInt(s)
               IN FoldLeft(item, Got(<< >>, n.rest), [i \in 1 .. n.val |-> i])
         [] kind \in DOMAIN Record -> FoldLeft(field, Got(<< >>, s), Record[kind])
         [] kind = "uint32" -> ReadLE(4, s)
         [] kind = "uint64" -> ReadLE(8, s)
         [] kind = "hash" -> ReadRaw(HashSize, s)
         [] kind = "nonce" -> ReadRaw(8, s)
         [] kind = "skipped" -> ReadRaw(52, s)
         [] kind = "addr" -> ReadAddr(s)
         [] OTHER -> ReadString(s)

BlockHeaderSize == 16 + 2 * HashSize
ReadBlock(s) ==
    LET at(k) == ReadLE(4, Drop(s, 4 + 2 * HashSize + k)).val
        txns == Drop(s, BlockHeaderSize)
    IN [version |-> ReadLE(4, s).val, parent |-> SubSeq(s, 5, 4 + HashSize),
        merkle_root |-> SubSeq(s, 5 + HashSize, 4 + 2 * HashSize),
        timestamp |-> at(0), bits |-> at(4), nonce |-> at(8),
        txs |-> IF txns = << >> THEN << >> ELSE Decode("txs", txns).val]

-----------------------------------------------------------------------------
\* Packets: magic, name (12 bytes, here one number), length, checksum, data.
Magic == << 249, 190, 180, 217 >>
NameSize == 12
PacketHeaderSize == 12 + NameSize
Name == [version |-> 1, inv |-> 2, addr |-> 3, tx |-> 4, block |-> 5, ping |-> 6]
WriteName(type) == << Name[type] >> \o [k \in 1 .. NameSize - 1 |-> 0]
Checksum(data) == LET n == Len(data)
                  IN [k \in 1 .. 4 |-> (n + IF n >= k THEN data[n + 1 - k] ELSE k) % 256]

Body(p) ==
    CASE p.type = "version" -> WriteVersion(p.data)
      [] p.type = "inv" -> WriteList(p.data, WriteEntry)
      [] p.type = "addr" -> WriteList(p.data, WriteStampedAddr)
      [] p.type = "tx" -> WriteTx(p.data)
      [] p.type = "block" -> WriteBlock(p.data)
      [] OTHER -> p.data

\* sendPacket().
Packet(p) ==
    LET data == Body(p)
    IN Magic \o WriteName(p.type) \o LE(4, Len(data)) \o Checksum(data) \o data

\* handleBuffer(): what it does with the head of the buffer.
PacketSize(s) == PacketHeaderSize + ReadLE(4, Drop(s, 4 + NameSize)).val
PacketData(s) == SubSeq(s, PacketHeaderSize + 1, PacketSize(s))
BadMagic(s) == Len(s) >= PacketHeaderSize /\ Take(s, 4) # Magic
WholePacket(s) == Len(s) >= PacketHeaderSize /\ Len(s) >= PacketSize(s)
BadSum(s) == WholePacket(s) /\ SubSeq(s, PacketHeaderSize - 3, PacketHeaderSize)
                               # Checksum(PacketData(s))

ReadPacket(s) ==
    LET data == PacketData(s)
        is(type) == s[5] = Name[type]
        packet(type, val) == [type |-> type, data |-> val]
    IN CASE is("version") -> packet("version", Decode("version", data).val)
         [] is("inv") -> packet("inv", Decode("entries", data).val)
         [] is("addr") -> packet("addr", Decode("addrs", data).val)
         [] is("tx") -> packet("tx", Decode("tx", data).val)
         [] is("block") -> packet("block", ReadBlock(data))
         [] OTHER -> packet("ping", data)

=============================================================================
