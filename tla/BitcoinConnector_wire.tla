------------------------ MODULE BitcoinConnector_wire ------------------------
(***************************************************************************)
(* More theorems about BitcoinConnector: its types, that it never goes on  *)
(* with a connection to itself, and that what it counts as known is        *)
(* stored.  They need what the packets under way hold, and the handlers in *)
(* the middle of their work.                                               *)
(***************************************************************************)
EXTENDS BitcoinConnector_proofs, FiniteSetTheorems, FunctionTheorems

-----------------------------------------------------------------------------
(* The invariant                                                            *)

\* What is stored or was lost, and what will be as soon as a handler goes on.
Kept == Stored \cup db.tx \cup db.link \cup lost
Safe == Kept \cup UNION {Storing(f) : f \in Frames}

CoveredTx(b, t) == t \in Safe /\ << b, t >> \in Safe
Covered(b) == \A t \in ToSet(TxsOf[b]) : CoveredTx(b, t)

\* An end of a connection of the daemon to itself has not read the version of the other.
ToSelf(c) == conn[c].peer \in Client

SelfInv == \A c \in Client : conn[c].st = "none" \/ ToSelf(c) => ~conn[c].got

\* What is under way to such an end: no verack, and the version of the other end only
\* while its nonce is registered.
SelfPacket(c, m) ==
  ToSelf(c) =>
     /\ m.type # "verack"
     /\ m.type = "version" => m.xs[1] = conn[c].peer /\ conn[c].peer \in nonce

\* The items of a packet are of the kind it is for; a block comes without its
\* transactions only if they are stored.
PacketOK(m) ==
  /\ m.type \in {"inv", "getdata", "notfound"} => m.xs \in Seq(Item)
  /\ m.type = "tx" => m.xs \in Seq(Tx)
  /\ m.type = "getblocks" => m.xs \in Seq(Block) \ {<< >>}
  /\ m.type = "header" /\ m.xs # << >> => Covered(m.xs[1])

\* The packets under way reach as far as those that have arrived.
Buffered == [c \in Client |-> taken[c] + held[c]]

NetOK(bs, nt) ==
  /\ DOMAIN nt = Client /\ bs \in [Client -> Nat]
  /\ \A c \in Client :
        /\ IsSeq(nt[c]) /\ \A m \in ToSet(nt[c]) : PacketOK(m) /\ SelfPacket(c, m)
        /\ bs[c] <= Len(nt[c])
        /\ conn[c].st = "none" => nt[c] = << >>

\* A handler keeps its client from being deleted, and its nonce from being forgotten.
FrameLinked(f) ==
  /\ conn[f.c].st # "none"
  /\ f.at = "height" /\ ToSelf(f.c) => f.job # "packet" /\ f.c \in nonce

\* The items of a handler.
ListCalls == {"inv", "get", "fetch"}
TxCalls == {"txknows", "txstore", "blocktx", "txhas", "txput"}
BlockCalls == BlockWork \cup {"parent"}

FrameTyped(f) ==
  /\ f.at \in BlockCalls \cup TxCalls => f.rest \in Seq(Tx)
  /\ f.at \in ListCalls => f.rest \in Seq(Item) /\ f.got \in Seq(Item)
  /\ f.at \in ListCalls \cup TxCalls => f.rest # << >>
  /\ f.at = "fetch" => Head(f.rest) \in Tx
  /\ f.at = "next" => f.item \in Block
  /\ f.at = "last" /\ f.ans # {} => \E b \in Block : f.ans = {b}

\* The transactions of a block are stored in their order and then the block is, each
\* with its link once it is in the database itself.
FrameStored(f) ==
  /\ f.done => Storing(f) \subseteq Kept
  /\ f.at \in {"txknows", "fetch"} => f.ans \subseteq {Head(f.rest)} \cap db.tx
  /\ f.at \in BlockCalls =>
        \A t \in ToSet(TxsOf[f.item]) : t \in ToSet(f.rest) \/ CoveredTx(f.item, t)
  /\ f.at = "blocktx" => Head(f.rest) \in Safe
  /\ f.at = "store" => f.rest = << >>

FramesInv == \A f \in Frames : FrameLinked(f) /\ FrameTyped(f) /\ FrameStored(f)

DataInv ==
  /\ \A c \in Client : conn[c].todl \in Seq(Block)
  /\ queue \in Seq(Item)
  /\ db.tx \subseteq Tx /\ view \subseteq Stored

CacheOK(ca) == ca \subseteq Item /\ IsFiniteSet(ca) /\ Cardinality(ca) <= CacheSize

KnownInv ==
  /\ CacheOK(cache) /\ cache \cup ToSet(queue) \subseteq Safe
  /\ \A b \in Stored \cup (cache \cap Block) : Covered(b)

WireInv == SelfInv /\ NetOK(Buffered, net) /\ FramesInv /\ DataInv /\ KnownInv
-----------------------------------------------------------------------------
(* Sequences of items                                                       *)

LEMMA SetToSeqElements ==
  ASSUME NEW S, IsFiniteSet(S)
  PROVE  SetToSeq(S) \in Seq(S) /\ (S # {} => SetToSeq(S) # << >>)
<1> DEFINE n == Cardinality(S)
           s == SetToSeq(S)
<1>1. n \in Nat /\ ExistsBijection(1 .. n, S)
  BY FS_CardinalityType
<1>2. PICK f : f \in Bijection(1 .. n, S)
  BY <1>1 DEF ExistsBijection
<1>3. f \in [1 .. n -> S] /\ f \in Injection(1 .. n, S)
  BY <1>2, Fun_BijectionProperties
<1>4. \A a, b \in 1 .. n : f[a] = f[b] => a = b
  BY <1>3, Fun_InjectionProperties, ZenonT(60)
<1>5. IsInjective(f)
  BY <1>3, <1>4 DEF IsInjective
<1>6. s \in [1 .. n -> S]
  BY <1>3, <1>5 DEF SetToSeq
<1> HIDE DEF s
<1>7. s \in Seq(S) /\ Len(s) = n
  BY <1>1, <1>6, FunctionIsSeq
<1>8. S # {} => n # 0
  BY FS_EmptySet
<1>9. QED
  BY <1>7, <1>8, EmptySeq DEF s

\* What knows() finds in the cache comes first.
LEMMA SkipCachedElements ==
  ASSUME NEW ca, NEW xs, IsSeq(xs)
  PROVE  /\ IsSeq(SkipCached(ca, xs)) /\ ToSet(SkipCached(ca, xs)) \subseteq ToSet(xs)
         /\ IsSeq(SubSeq(xs, 1, Len(xs) - Len(SkipCached(ca, xs))))
         /\ ToSet(SubSeq(xs, 1, Len(xs) - Len(SkipCached(ca, xs)))) \subseteq ToSet(xs) \cap ca
<1> DEFINE S == ToSet(xs)
           n == Len(xs)
           unknown == {k \in DOMAIN xs : xs[k] \notin ca}
           C == S \cap ca
<1>1. xs \in Seq(S) /\ n \in Nat /\ DOMAIN xs = 1 .. n
  BY LenProperties DEF IsSeq
<1>2. \A k \in 1 .. n : xs[k] \in S
  BY <1>1 DEF ToSet
<1>3. CASE unknown = {}
  <2>1. SkipCached(ca, xs) = << >>
    BY <1>3 DEF SkipCached
  <2>2. n - Len(<< >>) = n
    BY <1>1
  <2>3. SubSeq(xs, 1, n) = xs
    BY <1>1, SubSeqFull
  <2>4. ToSet(xs) \subseteq ca
    BY <1>3 DEF ToSet
  <2> QED
    BY <2>1, <2>2, <2>3, <2>4, ElementsOfEmpty
<1>4. CASE unknown # {}
  <2> DEFINE k == Min(unknown)
  <2>1. k \in unknown /\ \A x \in unknown : k <= x
    <3>1. unknown \in SUBSET Nat
      BY <1>1
    <3> HIDE DEF unknown
    <3>2. \E x \in unknown : \A y \in unknown : x <= y
      BY <1>4, <3>1, LeastNatural
    <3> QED
      BY <3>2 DEF Min
  <2>2. SkipCached(ca, xs) = SubSeq(xs, k, n)
    BY <1>4 DEF SkipCached
  <2>3. k \in 1 .. n /\ \A j \in 1 .. k - 1 : j \in 1 .. n /\ j \notin unknown
    <3>1. k \in 1 .. n
      BY <1>1, <2>1
    <3> HIDE DEF unknown, k, n
    <3>2. \A j \in 1 .. k - 1 : j \in 1 .. n /\ ~(k <= j)
      BY <1>1, <3>1
    <3> QED
      BY <2>1, <3>1, <3>2
  <2>4. \A j \in 1 .. k - 1 : xs[j] \in C
    BY <1>1, <1>2, <2>3
  <2> HIDE DEF unknown, k, n, S, C
  <2>5. /\ SubSeq(xs, k, n) \in Seq(S) /\ Len(SubSeq(xs, k, n)) = n - k + 1
    <3>1. k \in Int /\ n \in Int /\ k <= n /\ \A i \in k .. n : xs[i] \in S
      BY <1>1, <1>2, <2>3
    <3> QED
      BY <3>1, SubSeqProperties
  <2>6. n - (n - k + 1) = k - 1
    BY <1>1, <2>3
  <2>7. SubSeq(xs, 1, k - 1) \in Seq(C)
    <3>1. k - 1 \in Int
      BY <2>3
    <3> QED
      BY <2>4, <3>1, SubSeqProperties
  <2>8. /\ IsSeq(SubSeq(xs, k, n)) /\ ToSet(SubSeq(xs, k, n)) \subseteq S
        /\ IsSeq(SubSeq(xs, 1, k - 1)) /\ ToSet(SubSeq(xs, 1, k - 1)) \subseteq C
    BY <2>5, <2>7, SeqElements
  <2> QED
    BY <2>2, <2>5, <2>6, <2>8 DEF S, C, n
<1>5. QED
  BY <1>3, <1>4

LEMMA CacheInserted ==
  ASSUME NEW x \in Item, CacheOK(cache), NEW ca \in Insertions(x)
  PROVE  CacheOK(ca) /\ ca \subseteq cache \cup {x}
<1>1. CacheSize \in Nat \ {0} /\ Cardinality(cache) \in Nat
  BY ConnectorAssumption, FS_CardinalityType DEF CacheOK
<1>2. CASE x \in cache \/ Cardinality(cache) < CacheSize
  <2>1. ca = cache \cup {x}
    BY <1>2 DEF Insertions
  <2>2. /\ IsFiniteSet(ca)
        /\ Cardinality(ca) = IF x \in cache THEN Cardinality(cache) ELSE Cardinality(cache) + 1
    BY <2>1, FS_AddElement DEF CacheOK
  <2> QED
    BY <1>1, <1>2, <2>1, <2>2 DEF CacheOK
<1>3. CASE ~(x \in cache \/ Cardinality(cache) < CacheSize)
  <2>1. PICK y \in cache : ca = (cache \ {y}) \cup {x}
    BY <1>3 DEF Insertions
  <2> DEFINE S == cache \ {y}
  <2>2. IsFiniteSet(S) /\ Cardinality(S) = Cardinality(cache) - 1 /\ x \notin S
    BY <1>3, <2>1, FS_RemoveElement DEF CacheOK
  <2> HIDE DEF S
  <2>3. IsFiniteSet(S \cup {x}) /\ Cardinality(S \cup {x}) = Cardinality(S) + 1
    BY <2>2, FS_AddElement
  <2> QED
    BY <1>1, <2>1, <2>2, <2>3 DEF CacheOK, S
<1>4. QED
  BY <1>2, <1>3

-----------------------------------------------------------------------------
(* The packets                                                              *)

LEMMA OneItem ==
  ASSUME NEW S, NEW x \in S
  PROVE  << x >> \in Seq(S) \ {<< >>}
<1>1. IsSeq(<< x >>) /\ ToSet(<< x >>) = {x} /\ << x >> # << >>
  BY ElementsOfOne
<1> DEFINE s == << x >>
<1> HIDE DEF s
<1>2. IsSeq(s) /\ ToSet(s) \subseteq S /\ s # << >>
  BY <1>1 DEF s
<1>3. QED
  BY <1>2, SeqElements DEF s

LEMMA NoItems ==
  ASSUME NEW S
  PROVE  << >> \in Seq(S)
BY EmptySeq

\* Packets of a kind that no handler of the daemon relies on.
LEMMA OtherPacket ==
  ASSUME NEW type, NEW xs,
         type \notin {"inv", "getdata", "notfound", "tx", "getblocks", "header"}
  PROVE  PacketOK(Msg(type, xs))
BY DEF PacketOK, Msg

LEMMA AfterTyped ==
  ASSUME NEW b \in Block
  PROVE  After(b) \in Seq(Block)
<1> DEFINE n == Len(Chain)
           i == CHOOSE i \in DOMAIN Chain : Chain[i] = b
<1>1. Chain \in Seq(Block) /\ n \in Nat /\ DOMAIN Chain = 1 .. n
  BY ConnectorAssumption, LenProperties
<1>2. \E k \in DOMAIN Chain : Chain[k] = b
  BY ConnectorAssumption DEF ToSet
<1>3. i \in 1 .. n
  BY <1>1, <1>2
<1>4. \A k \in 1 .. n : Chain[k] \in Block
  BY <1>1, ElementOfSeq
<1> HIDE DEF i, n
<1>5. i + 1 \in Int /\ n \in Int /\ \A k \in i + 1 .. n : Chain[k] \in Block
  BY <1>1, <1>3, <1>4
<1>6. SubSeq(Chain, i + 1, n) \in Seq(Block)
  BY <1>5, SubSeqProperties
<1>7. QED
  BY <1>6 DEF After, i, n

LEMMA AnswersOK ==
  ASSUME NEW c, NEW m, PacketOK(m)
  PROVE  /\ IsSeq(NodeAnswers(c, m))
         /\ \A a \in ToSet(NodeAnswers(c, m)) : PacketOK(a)
<1>1. CASE m.type = "version"
  <2> DEFINE v == Msg("version", << Node >>)
             w == Msg("verack", << >>)
  <2>1. PacketOK(v) /\ PacketOK(w)
    BY OtherPacket
  <2>2. NodeAnswers(c, m) = << v >> \o << w >> \/ NodeAnswers(c, m) = << w >>
    BY <1>1 DEF NodeAnswers
  <2> HIDE DEF v, w
  <2>3. /\ IsSeq(<< v >>) /\ ToSet(<< v >>) = {v}
        /\ IsSeq(<< w >>) /\ ToSet(<< w >>) = {w}
    BY ElementsOfOne
  <2>4. IsSeq(<< v >> \o << w >>) /\ ToSet(<< v >> \o << w >>) = {v} \cup {w}
    BY <2>3, ElementsOfConcat, ZenonT(60)
  <2> QED
    BY <2>1, <2>2, <2>3, <2>4
<1>2. CASE m.type = "getdata"
  <2> DEFINE n == Len(m.xs)
             f == [i \in DOMAIN m.xs |-> Data(m.xs[i])]
  <2>1. m.xs \in Seq(Item) /\ n \in Nat /\ DOMAIN m.xs = 1 .. n
    BY <1>2, LenProperties DEF PacketOK
  <2>2. NodeAnswers(c, m) = f
    BY <1>2 DEF NodeAnswers
  <2>3. DOMAIN f = 1 .. n /\ \A i \in 1 .. n : f[i] = Data(m.xs[i])
    BY <2>1
  <2>4. f \in [1 .. n -> ToSet(f)]
    BY <2>3 DEF ToSet
  <2> HIDE DEF f
  <2>5. IsSeq(f)
    BY <2>1, <2>4, FunctionIsSeq DEF IsSeq
  <2>6. ASSUME NEW x \in Item PROVE PacketOK(Data(x))
    <3>1. CASE x \in Tx
      <4>1. << x >> \in Seq(Tx)
        BY <3>1, OneItem
      <4> QED
        BY <3>1, <4>1 DEF Data, Msg, PacketOK
    <3>2. CASE x \notin Tx
      BY <3>2 DEF Data, Msg, PacketOK
    <3> QED
      BY <3>1, <3>2
  <2>7. \A i \in 1 .. n : m.xs[i] \in Item
    BY <2>1, ElementOfSeq
  <2>8. \A a \in ToSet(f) : PacketOK(a)
    BY <2>3, <2>6, <2>7 DEF ToSet
  <2> QED
    BY <2>2, <2>5, <2>8
<1>3. CASE m.type = "getblocks" /\ After(m.xs[1]) # << >>
  <2> DEFINE a == Msg("inv", After(m.xs[1]))
  <2>1. NodeAnswers(c, m) = << a >>
    BY <1>3 DEF NodeAnswers
  <2>2. m.xs[1] \in Block
    <3>1. m.xs \in Seq(Block) /\ m.xs # << >>
      BY <1>3 DEF PacketOK
    <3> QED
      BY <3>1, EmptySeq, ElementOfSeq
  <2>3. After(m.xs[1]) \in Seq(Item)
    BY <2>2, AfterTyped, SeqMonotonic DEF Item
  <2>4. PacketOK(a)
    BY <2>3 DEF PacketOK, Msg
  <2> HIDE DEF a
  <2> QED
    BY <2>1, <2>4, ElementsOfOne
<1>4. CASE ~(m.type \in {"version", "getdata"}
             \/ (m.type = "getblocks" /\ After(m.xs[1]) # << >>))
  BY <1>4, ElementsOfEmpty DEF NodeAnswers
<1>5. QED
  BY <1>1, <1>2, <1>3, <1>4

\* The next packet of a client is taken out of its buffer.
LEMMA TookOK ==
  ASSUME ConnectorInv, WireInv, NEW c \in Client, NEW type, Packet(c, type)
  PROVE  /\ NetOK(Buffered', Took(c)) /\ conn[c].st # "none" /\ Head(net[c]).type = type
         /\ PacketOK(Head(net[c])) /\ SelfPacket(c, Head(net[c]))
<1> DEFINE s == net[c]
           rest == Tail(s)
           n == taken[c] + held[c]
<1>1. /\ taken \in [Client -> Nat] /\ held \in [Client -> Nat] /\ taken[c] > 0
      /\ taken' = [taken EXCEPT ![c] = @ - 1] /\ held' = held
      /\ conn[c].st # "none" /\ Head(s).type = type
  BY DEF ConnectorInv, BufInv, Packet, Looping
<1>2. /\ Buffered' \in [Client -> Nat] /\ Buffered'[c] = n - 1 /\ n \in Nat
      /\ \A d \in Client \ {c} : Buffered'[d] = Buffered[d]
  BY <1>1 DEF Buffered
<1>3. IsSeq(s) /\ n <= Len(s) /\ Len(s) \in Nat
  <2>1. IsSeq(s) /\ n <= Len(s)
    BY DEF WireInv, NetOK, Buffered
  <2> QED
    BY <2>1, LenProperties DEF IsSeq
<1>4. s # << >> /\ s \in Seq(ToSet(s))
  BY <1>1, <1>3, EmptySeq DEF IsSeq
<1>5. Len(rest) = Len(s) - 1
  BY <1>4, HeadTailProperties
<1>6. IsSeq(rest) /\ Head(s) \in ToSet(s) /\ ToSet(s) = ToSet(rest) \cup {Head(s)}
  BY <1>3, <1>4, ElementsOfTail
<1> DEFINE nt == Took(c)
<1>7. /\ DOMAIN nt = Client
      /\ \A d \in Client : nt[d] = IF d = c THEN rest ELSE net[d]
  BY DEF WireInv, NetOK, Took
<1>8. \A m \in ToSet(s) : PacketOK(m) /\ SelfPacket(c, m)
  BY DEF WireInv, NetOK
<1> HIDE DEF nt, rest, n
<1>9. ASSUME NEW d \in Client
      PROVE  /\ IsSeq(nt[d]) /\ \A m \in ToSet(nt[d]) : PacketOK(m) /\ SelfPacket(d, m)
             /\ Buffered'[d] <= Len(nt[d])
             /\ conn[d].st = "none" => nt[d] = << >>
  <2>1. CASE d = c
    BY <1>1, <1>2, <1>3, <1>5, <1>6, <1>7, <1>8, <2>1
  <2>2. CASE d # c
    BY <1>2, <1>7, <2>2 DEF WireInv, NetOK
  <2> QED
    BY <2>1, <2>2
<1>10. NetOK(Buffered', nt)
  BY <1>2, <1>7, <1>9 DEF NetOK
<1>11. QED
  BY <1>1, <1>6, <1>8, <1>10 DEF nt

\* The buffers stay.
LEMMA NetStays ==
  ASSUME WireInv, UNCHANGED bufs
  PROVE  Buffered' = Buffered /\ NetOK(Buffered', net)
BY DEF Buffered, WireInv, bufs

\* Packets are added for a client that is not deleted.
LEMMA Delivered ==
  ASSUME NEW bs, NEW nt, NetOK(bs, nt), NEW c \in Client, conn[c].st # "none",
         NEW ms, IsSeq(ms), \A m \in ToSet(ms) : PacketOK(m) /\ SelfPacket(c, m),
         NEW u, u = [nt EXCEPT ![c] = @ \o ms]
  PROVE  NetOK(bs, u)
<1>1. /\ DOMAIN u = Client
      /\ \A d \in Client : u[d] = IF d = c THEN nt[c] \o ms ELSE nt[d]
  BY DEF NetOK
<1>2. IsSeq(nt[c] \o ms) /\ ToSet(nt[c] \o ms) = ToSet(nt[c]) \cup ToSet(ms)
  BY ElementsOfConcat DEF NetOK
<1>3. bs[c] <= Len(nt[c] \o ms)
  <2> DEFINE S == ToSet(nt[c]) \cup ToSet(ms)
             s == nt[c]
  <2>1. s \in Seq(S) /\ ms \in Seq(S)
    BY SeqElements DEF NetOK
  <2> HIDE DEF S, s
  <2>2. Len(s) \in Nat /\ Len(ms) \in Nat /\ Len(s \o ms) = Len(s) + Len(ms)
    BY <2>1
  <2>3. bs[c] \in Nat /\ bs[c] <= Len(s)
    BY DEF NetOK, s
  <2> QED
    BY <2>2, <2>3 DEF s
<1>4. QED
  BY <1>1, <1>2, <1>3 DEF NetOK

LEMMA SentOK ==
  ASSUME ConnInv, NEW bs, NEW nt, NetOK(bs, nt), NEW c \in Client, NEW ms, IsSeq(ms),
         \A m \in ToSet(ms) : PacketOK(m) /\ (ToSelf(c) => SelfPacket(conn[c].peer, m))
  PROVE  NetOK(bs, Sent(nt, c, ms))
<1> DEFINE d == conn[c].peer
<1>1. CASE ~Up(c) \/ d = None \/ ms = << >>
  BY <1>1 DEF Sent
<1>2. CASE ~(~Up(c) \/ d = None \/ ms = << >>) /\ d = Node
  <2> DEFINE as == NodeAnswers(c, ms[1])
  <2>1. ms[1] \in ToSet(ms)
    <3>1. DOMAIN ms = 1 .. Len(ms) /\ Len(ms) \in Nat \ {0}
      BY <1>2, EmptySeq, LenProperties DEF IsSeq
    <3>2. 1 \in DOMAIN ms
      BY <3>1
    <3> QED
      BY <3>2 DEF ToSet
  <2>2. IsSeq(as) /\ \A a \in ToSet(as) : PacketOK(a)
    BY <2>1, AnswersOK
  <2>3. ~ToSelf(c) /\ conn[c].st # "none"
    BY <1>2, ConnectorAssumption DEF ToSelf, Up
  <2>4. Sent(nt, c, ms) = [nt EXCEPT ![c] = @ \o as]
    BY <1>2 DEF Sent
  <2> HIDE DEF as
  <2>5. \A a \in ToSet(as) : PacketOK(a) /\ SelfPacket(c, a)
    BY <2>2, <2>3 DEF SelfPacket
  <2> QED
    BY <2>2, <2>3, <2>4, <2>5, Delivered
<1>3. CASE ~(~Up(c) \/ d = None \/ ms = << >>) /\ d # Node
  <2>1. ToSelf(c) /\ d \in Client /\ conn[d].st # "none"
    <3>1. d \in Client
      BY <1>3 DEF ConnInv, ConnShape, ClientIn
    <3>2. conn[d].peer = c
      BY <3>1 DEF ConnInv, Paired
    <3>3. conn[d].st # "none"
      BY <3>1, <3>2, ConnectorAssumption DEF ConnInv, Paired
    <3> QED
      BY <3>1, <3>3 DEF ToSelf
  <2>2. Sent(nt, c, ms) = [nt EXCEPT ![d] = @ \o ms]
    BY <1>3 DEF Sent
  <2> HIDE DEF d
  <2>3. \A m \in ToSet(ms) : PacketOK(m) /\ SelfPacket(d, m)
    BY <2>1 DEF d
  <2> QED
    BY <2>1, <2>2, <2>3, Delivered
<1>4. QED
  BY <1>1, <1>2, <1>3

\* Neither version nor verack: any end may get it.
Plain(m) == m.type \notin {"version", "verack"}

LEMMA PlainSent ==
  ASSUME ConnInv, NEW bs, NEW nt, NetOK(bs, nt), NEW c \in Client, NEW ms, IsSeq(ms),
         \A m \in ToSet(ms) : PacketOK(m) /\ Plain(m)
  PROVE  NetOK(bs, Sent(nt, c, ms))
BY SentOK DEF Plain, SelfPacket

LEMMA OneSent ==
  ASSUME ConnInv, NEW bs, NEW nt, NetOK(bs, nt), NEW c \in Client, NEW m, PacketOK(m), Plain(m)
  PROVE  NetOK(bs, Sent(nt, c, << m >>))
<1>1. IsSeq(<< m >>) /\ ToSet(<< m >>) = {m}
  BY ElementsOfOne
<1> DEFINE ms == << m >>
<1> HIDE DEF ms
<1>2. NetOK(bs, Sent(nt, c, ms))
  BY <1>1, PlainSent DEF ms
<1>3. QED
  BY <1>2 DEF ms

LEMMA ListSent ==
  ASSUME ConnInv, NEW bs, NEW nt, NetOK(bs, nt), NEW c \in Client,
         NEW type \in {"getdata", "notfound"}, NEW xs \in Seq(Item)
  PROVE  NetOK(bs, Sent(nt, c, List(type, xs)))
<1>1. CASE xs = << >>
  BY <1>1, PlainSent, ElementsOfEmpty DEF List
<1>2. CASE xs # << >>
  <2>1. PacketOK(Msg(type, xs)) /\ Plain(Msg(type, xs))
    BY DEF PacketOK, Plain, Msg
  <2>2. List(type, xs) = << Msg(type, xs) >>
    BY <1>2 DEF List
  <2> QED
    BY <2>1, <2>2, OneSent
<1>3. QED
  BY <1>1, <1>2

\* What a cache holds is sent; a block of it has its transactions stored.
LEMMA ServedSent ==
  ASSUME ConnInv, NEW bs, NEW nt, NetOK(bs, nt), NEW c \in Client, NEW xs, IsSeq(xs),
         ToSet(xs) \subseteq Item, \A b \in ToSet(xs) \cap Block : Covered(b)
  PROVE  NetOK(bs, Sent(nt, c, [i \in DOMAIN xs |-> Served(xs[i])]))
<1> DEFINE n == Len(xs)
           f == [i \in DOMAIN xs |-> Served(xs[i])]
<1>1. n \in Nat /\ DOMAIN xs = 1 .. n
  BY LenProperties DEF IsSeq
<1>2. DOMAIN f = 1 .. n /\ \A i \in 1 .. n : f[i] = Served(xs[i]) /\ xs[i] \in ToSet(xs)
  BY <1>1 DEF ToSet
<1>3. f \in [1 .. n -> ToSet(f)]
  BY <1>2 DEF ToSet
<1> HIDE DEF f
<1>4. IsSeq(f)
  BY <1>1, <1>3, FunctionIsSeq DEF IsSeq
<1>5. ASSUME NEW x \in ToSet(xs) PROVE PacketOK(Served(x)) /\ Plain(Served(x))
  <2>1. CASE x \in Tx
    <3>1. << x >> \in Seq(Tx)
      BY <2>1, OneItem
    <3> QED
      BY <2>1, <3>1 DEF Served, Msg, PacketOK, Plain
  <2>2. CASE x \notin Tx
    <3>1. Covered(x) /\ << x >>[1] = x
      BY <2>2 DEF Item
    <3> QED
      BY <2>2, <3>1 DEF Served, Msg, PacketOK, Plain
  <2> QED
    BY <2>1, <2>2
<1>6. \A m \in ToSet(f) : PacketOK(m) /\ Plain(m)
  BY <1>2, <1>5 DEF ToSet
<1>7. NetOK(bs, Sent(nt, c, f))
  BY <1>4, <1>6, PlainSent
<1>8. QED
  BY <1>7 DEF f

-----------------------------------------------------------------------------
(* The handlers                                                             *)

\* A handler is called, goes on to its next call, or returns; F is what comes on the
\* stack.
Moves(F) ==
  \/ stack' = stack /\ F = {}
  \/ \E g : F = {g} /\ stack' = Append(stack, g)
  \/ /\ stack # << >> /\ Top.done
     /\ \/ F = {} /\ stack' = Front(stack)
        \/ \E g : F = {g} /\ stack' = Append(Front(stack), g)

LEMMA MovesFrames ==
  ASSUME IsSeq(stack), NEW F, Moves(F)
  PROVE  /\ F \subseteq Frames' /\ Frames' \subseteq Frames \cup F
         /\ \A f \in Frames : f \in Frames' \/ f.done
<1>1. CASE stack' = stack /\ F = {}
  BY <1>1 DEF Frames
<1>2. CASE \E g : F = {g} /\ stack' = Append(stack, g)
  BY <1>2, ElementsOfAppend DEF Frames
<1>3. ASSUME stack # << >>
      PROVE  IsSeq(Front(stack)) /\ Frames = ToSet(Front(stack)) \cup {Top}
  BY <1>3, ElementsOfFront DEF Frames, Top
<1>4. CASE stack # << >> /\ Top.done /\ F = {} /\ stack' = Front(stack)
  BY <1>3, <1>4 DEF Frames
<1>5. CASE stack # << >> /\ Top.done /\ \E g : F = {g} /\ stack' = Append(Front(stack), g)
  BY <1>3, <1>5, ElementsOfAppend DEF Frames
<1>6. QED
  BY <1>1, <1>2, <1>4, <1>5 DEF Moves

\* What is stored or will be stays so.
LEMMA SafeMoves ==
  ASSUME FramesInv, IsSeq(stack), NEW F, Moves(F),
         UNCHANGED << db, lost >>
  PROVE  /\ Kept' = Kept /\ Safe \subseteq Safe'
         /\ \A g \in F : Storing(g) \subseteq Safe'
<1>1. /\ F \subseteq Frames'
      /\ \A f \in Frames : f \in Frames' \/ f.done
  BY MovesFrames
<1>2. Kept' = Kept
  BY DEF Kept, Stored
<1>3. \A f \in Frames : Storing(f) \subseteq Safe'
  BY <1>1, <1>2 DEF Safe, FramesInv, FrameStored
<1>4. \A g \in F : Storing(g) \subseteq Safe'
  BY <1>1 DEF Safe
<1>5. QED
  BY <1>2, <1>3, <1>4 DEF Safe

LEMMA StoredKept ==
  ASSUME Safe \subseteq Safe', Kept \subseteq Kept', db.tx \subseteq db'.tx
  PROVE  /\ \A b : Covered(b) => Covered(b)'
         /\ \A b, t : CoveredTx(b, t) => CoveredTx(b, t)'
         /\ \A f : FrameStored(f) => FrameStored(f)'
         /\ \A m : PacketOK(m) => PacketOK(m)'
<1>1. \A b, t : CoveredTx(b, t) => CoveredTx(b, t)'
  BY DEF CoveredTx
<1>2. \A b : Covered(b) => Covered(b)'
  BY <1>1 DEF Covered
<1>3. \A f : FrameStored(f) => FrameStored(f)'
  BY <1>1 DEF FrameStored
<1>4. \A m : PacketOK(m) => PacketOK(m)'
  BY <1>2 DEF PacketOK
<1>5. QED
  BY <1>1, <1>2, <1>3, <1>4

\* The connections and the nonces stay as they are.
Calm ==
  /\ nonce' = nonce
  /\ \A c \in Client : /\ conn'[c].st = conn[c].st /\ conn'[c].peer = conn[c].peer
                       /\ conn'[c].got = conn[c].got

LEMMA CalmKept ==
  ASSUME Calm, SelfInv, \A m : PacketOK(m) => PacketOK(m)'
  PROVE  /\ SelfInv'
         /\ NetOK(Buffered', net') => NetOK(Buffered, net)'
         /\ \A f : f.c \in Client => (FrameLinked(f) => FrameLinked(f)')
<1>1. \A c \in Client : ToSelf(c)' <=> ToSelf(c)
  BY DEF Calm, ToSelf
<1>2. SelfInv'
  BY <1>1 DEF Calm, SelfInv, ToSelf
<1>3. \A c \in Client : \A m : SelfPacket(c, m) => SelfPacket(c, m)'
  BY <1>1 DEF Calm, SelfPacket
<1>4. NetOK(Buffered', net') => NetOK(Buffered, net)'
  BY <1>3 DEF NetOK, Calm
<1>5. \A f : f.c \in Client => (FrameLinked(f) => FrameLinked(f)')
  BY <1>1 DEF FrameLinked, Calm
<1>6. QED
  BY <1>2, <1>4, <1>5

\* A step that leaves the database alone, and the connections but for their lists.
LEMMA CalmStep ==
  ASSUME ConnectorInv, WireInv, Calm, UNCHANGED storeVars, NetOK(Buffered', net'),
         NEW F, Moves(F),
         \A f \in F : f.c \in Client /\ FrameLinked(f) /\ FrameTyped(f) /\ FrameStored(f)',
         \A c \in Client : conn'[c].todl \in Seq(Block),
         CacheOK(cache'), queue' \in Seq(Item),
         cache' \cup ToSet(queue') \subseteq Safe',
         \A b \in cache' \cap Block : b \in cache \/ Covered(b)'
  PROVE  WireInv'
<1>1. /\ IsSeq(stack) /\ FramesInv /\ SelfInv
      /\ UNCHANGED << db, lost, view >>
      /\ \A f \in Frames : f.c \in Client
  <2>1. \A f \in Frames : f.c \in Client
    BY DEF ConnectorInv, HandlersInv, StackOK, FrameOK, Frames, ToSet
  <2> QED
    BY <2>1 DEF ConnectorInv, HandlersInv, StackOK, WireInv, DataInv, storeVars
<1>2. Kept' = Kept /\ Safe \subseteq Safe'
  BY <1>1, SafeMoves
<1>3. Frames' \subseteq Frames \cup F
  BY <1>1, MovesFrames
<1>4. /\ \A b : Covered(b) => Covered(b)'
      /\ \A f : FrameStored(f) => FrameStored(f)'
      /\ \A m : PacketOK(m) => PacketOK(m)'
  BY <1>1, <1>2, StoredKept
<1>5. /\ SelfInv' /\ NetOK(Buffered, net)'
      /\ \A f : f.c \in Client => (FrameLinked(f) => FrameLinked(f)')
  BY <1>1, <1>4, CalmKept
<1>6. FramesInv'
  <2> SUFFICES ASSUME NEW f \in Frames'
               PROVE  FrameLinked(f)' /\ FrameTyped(f) /\ FrameStored(f)'
    BY DEF FramesInv, FrameTyped
  <2>1. CASE f \in Frames
    BY <2>1, <1>1, <1>4, <1>5 DEF FramesInv
  <2>2. CASE f \in F
    BY <2>2, <1>5
  <2> QED
    BY <1>3, <2>1, <2>2
<1>7. DataInv'
  BY <1>1, <1>3 DEF WireInv, DataInv, Stored
<1>8. KnownInv'
  BY <1>1, <1>4 DEF WireInv, KnownInv, Stored, CacheOK
<1>9. QED
  BY <1>5, <1>6, <1>7, <1>8 DEF WireInv

\* The fields of the handlers.
LEMMA FrameIs ==
  ASSUME NEW c, NEW job, NEW at, NEW item, NEW f, f = Frame(c, job, at, item)
  PROVE  /\ DOMAIN f = FrameFields /\ f.c = c /\ f.job = job /\ f.at = at /\ f.item = item
         /\ f.rest = << >> /\ f.got = << >> /\ ~f.done /\ f.ans = {}
BY DEF Frame, FrameFields

LEMMA CallIs ==
  ASSUME NEW f, DOMAIN f = FrameFields, NEW at, NEW g, g = Call(f, at)
  PROVE  /\ DOMAIN g = FrameFields /\ g.c = f.c /\ g.job = f.job /\ g.at = at
         /\ g.item = f.item /\ g.rest = f.rest /\ g.got = f.got /\ g.h = f.h
         /\ ~g.done /\ g.ans = {}
BY DEF Call, FrameFields

\* A handler that waits in a call for something other than a block.
NewFrame(f) ==
  /\ f.c \in Client /\ FrameLinked(f) /\ FrameTyped(f)
  /\ f.at \notin BlockCalls /\ ~f.done /\ f.ans = {}

LEMMA NewStored ==
  ASSUME NEW f, NewFrame(f)
  PROVE  FrameStored(f)'
BY DEF NewFrame, FrameStored, BlockCalls, BlockWork

\* Nothing is stored, announced or cached.
LEMMA CalmQuiet ==
  ASSUME ConnectorInv, WireInv, Calm, UNCHANGED << cache, queue, storeVars >>, NetOK(Buffered', net'),
         NEW F, Moves(F), \A f \in F : NewFrame(f),
         \A c \in Client : conn'[c].todl \in Seq(Block)
  PROVE  WireInv'
<1>1. Safe \subseteq Safe'
  BY SafeMoves DEF ConnectorInv, HandlersInv, StackOK, WireInv, DataInv, storeVars
<1>2. \A f \in F : f.c \in Client /\ FrameLinked(f) /\ FrameTyped(f) /\ FrameStored(f)'
  BY NewStored DEF NewFrame
<1>3. /\ CacheOK(cache') /\ queue' \in Seq(Item)
      /\ cache' \cup ToSet(queue') \subseteq Safe'
      /\ \A b \in cache' \cap Block : b \in cache \/ Covered(b)'
  BY <1>1 DEF WireInv, DataInv, KnownInv
<1>4. UNCHANGED storeVars
  OBVIOUS
<1>5. QED
  BY <1>2, <1>3, <1>4, CalmStep

\* Where a handler begins, or goes on from its last call.
Base(base) ==
  \/ base = stack
  \/ base = Front(stack) /\ stack # << >> /\ Top.done

\* What it does to the stack and to the packets.
Advance == NetOK(Buffered', net') /\ \E F : Moves(F) /\ \A f \in F : NewFrame(f)

LEMMA AdvanceQuiet ==
  ASSUME ConnectorInv, WireInv, Advance, UNCHANGED << conn, nonce, cache, queue, storeVars >>
  PROVE  WireInv'
<1>1. Calm /\ \A c \in Client : conn'[c].todl \in Seq(Block)
  BY DEF Calm, WireInv, DataInv
<1>2. PICK F : Moves(F) /\ \A f \in F : NewFrame(f)
  BY DEF Advance
<1>3. QED
  BY <1>1, <1>2, CalmQuiet DEF Advance

LEMMA BaseEnds ==
  ASSUME NEW base, Base(base), stack' = base
  PROVE  Moves({})
BY DEF Base, Moves

LEMMA BaseGoes ==
  ASSUME NEW base, Base(base), NEW g, stack' = Append(base, g)
  PROVE  Moves({g})
BY DEF Base, Moves

LEMMA LoopGoes ==
  ASSUME NEW base, Base(base), NEW f, DOMAIN f = FrameFields, f.c \in Client,
         conn[f.c].st # "none", NEW at \in {"inv", "get"},
         NEW rest \in Seq(Item), rest # << >>, NEW got \in Seq(Item),
         stack' = Append(base, [Call(f, at) EXCEPT !.rest = rest, !.got = got]),
         NetOK(Buffered', net')
  PROVE  Advance
<1> DEFINE g == [Call(f, at) EXCEPT !.rest = rest, !.got = got]
<1>0. stack' = Append(base, g)
  OBVIOUS
<1>1. /\ g.c = f.c /\ g.at = at /\ g.rest = rest /\ g.got = got /\ ~g.done /\ g.ans = {}
  <2> DEFINE k == Call(f, at)
  <2>1. g = [k EXCEPT !.rest = rest, !.got = got] /\ k = Call(f, at)
    OBVIOUS
  <2> HIDE DEF g, k
  <2>2. /\ DOMAIN k = FrameFields /\ k.c = f.c /\ k.at = at /\ ~k.done /\ k.ans = {}
    BY <2>1, CallIs
  <2> QED
    BY <2>1, <2>2 DEF FrameFields
<1> HIDE DEF g
<1>2. NewFrame(g)
  BY <1>1 DEF NewFrame, FrameLinked, FrameTyped, BlockCalls, BlockWork, TxCalls, ListCalls
<1>3. Moves({g})
  BY <1>0, BaseGoes
<1>4. QED
  BY <1>2, <1>3 DEF Advance

LEMMA InvLoopOK ==
  ASSUME ConnInv, NEW base, Base(base), NEW f, DOMAIN f = FrameFields, f.c \in Client,
         conn[f.c].st # "none", NEW nt, NetOK(Buffered', nt),
         NEW rest \in Seq(Item), NEW got \in Seq(Item), InvLoop(base, f, nt, rest, got)
  PROVE  Advance
<1>1. CASE rest = << >>
  <2>1. stack' = base /\ net' = Sent(nt, f.c, List("getdata", got))
    BY <1>1 DEF InvLoop
  <2> QED
    BY <2>1, BaseEnds, ListSent DEF Advance
<1>2. CASE rest # << >>
  <2>1. /\ stack' = Append(base, [Call(f, "inv") EXCEPT !.rest = rest, !.got = got])
        /\ net' = nt
    BY <1>2 DEF InvLoop
  <2> QED
    BY <1>2, <2>1, LoopGoes
<1>3. QED
  BY <1>1, <1>2

LEMMA GetLoopOK ==
  ASSUME ConnInv, NEW base, Base(base), NEW f, DOMAIN f = FrameFields, f.c \in Client,
         conn[f.c].st # "none", NEW nt, NetOK(Buffered', nt),
         NEW ca, \A b \in ca \cap Block : Covered(b),
         NEW rest \in Seq(Item), NEW missing \in Seq(Item),
         GetLoop(ca, base, f, nt, rest, missing)
  PROVE  Advance
<1> DEFINE unknown == SkipCached(ca, rest)
           known == SubSeq(rest, 1, Len(rest) - Len(unknown))
           sent == Sent(nt, f.c, [i \in DOMAIN known |-> Served(known[i])])
<1>1. IsSeq(rest) /\ ToSet(rest) \subseteq Item
  BY SeqElements
<1>2. /\ IsSeq(unknown) /\ ToSet(unknown) \subseteq Item
      /\ IsSeq(known) /\ ToSet(known) \subseteq Item \cap ca
  BY <1>1, SkipCachedElements
<1>3. IF unknown = << >>
      THEN stack' = base /\ net' = Sent(sent, f.c, List("notfound", missing))
      ELSE /\ stack' = Append(base, [Call(f, "get") EXCEPT !.rest = unknown, !.got = missing])
           /\ net' = sent
  BY DEF GetLoop
<1> HIDE DEF unknown, known
<1>4. NetOK(Buffered', sent)
  BY <1>2, ServedSent
<1> HIDE DEF sent
<1>5. unknown \in Seq(Item)
  BY <1>2, SeqElements
<1>6. CASE unknown = << >>
  BY <1>3, <1>4, <1>6, BaseEnds, ListSent, SMTT(60) DEF Advance
<1>7. CASE unknown # << >>
  BY <1>3, <1>4, <1>5, <1>7, LoopGoes
<1>8. QED
  BY <1>6, <1>7

LEMMA TopWire ==
  ASSUME ConnectorInv, WireInv, stack # << >>
  PROVE  /\ DOMAIN Top = FrameFields /\ Top.c \in Client /\ conn[Top.c].st # "none"
         /\ FrameOK(Top) /\ FrameLinked(Top) /\ FrameTyped(Top) /\ FrameStored(Top)
<1>1. Top \in Frames
  BY ElementsOfFront DEF ConnectorInv, HandlersInv, StackOK, Frames, Top
<1>2. QED
  BY <1>1, TopFrame DEF WireInv, FramesInv, FrameLinked

LEMMA TodlCalm ==
  ASSUME ConnInv, NEW c \in Client, NEW x \in Seq(Block), nonce' = nonce,
         conn' = [conn EXCEPT ![c].todl = x], \A d \in Client : conn[d].todl \in Seq(Block)
  PROVE  Calm /\ \A d \in Client : conn'[d].todl \in Seq(Block)
<1>1. PICK T : conn \in [Client -> ClientIn(T)]
  BY DEF ConnInv, ConnShape
<1>2. \A d \in Client :
         /\ conn'[d].st = conn[d].st /\ conn'[d].peer = conn[d].peer
         /\ conn'[d].got = conn[d].got
         /\ conn'[d].todl = IF d = c THEN x ELSE conn[d].todl
  BY <1>1 DEF ClientIn
<1>3. QED
  BY <1>2 DEF Calm

\* The handlers that end with a packet, or without one.
LEMMA PopWire ==
  ASSUME ConnectorInv, WireInv, stack # << >>, Top.done, Ends, NetOK(Buffered', net'),
         UNCHANGED << conn, nonce, cache, queue, storeVars >>
  PROVE  WireInv'
<1>1. Moves({})
  BY DEF Moves, Ends
<1>2. QED
  BY <1>1, AdvanceQuiet DEF Advance

LEMMA SendVersionWire ==
  ASSUME ConnectorInv, WireInv, SendVersion
  PROVE  WireInv'
<1>1. /\ stack # << >> /\ Top.done /\ Top.at = "height" /\ Ends
      /\ UNCHANGED << bufs, conn, nonce, cache, queue, storeVars >>
  BY DEF SendVersion, Resumes, peerVars
<1> DEFINE c == Top.c
           v == Msg("version", << c >>)
           w == Msg("verack", << >>)
           d == conn[c].peer
           more == IF Top.job = "packet" THEN << w >> ELSE << >>
           ms == << v >> \o more
<1>2. c \in Client /\ FrameLinked(Top)
  BY <1>1, TopWire
<1>3. PacketOK(v) /\ PacketOK(w)
  BY OtherPacket
<1>4. ToSelf(c) => SelfPacket(d, v) /\ Top.job # "packet"
  <2> SUFFICES ASSUME ToSelf(c) PROVE SelfPacket(d, v) /\ Top.job # "packet"
    OBVIOUS
  <2>1. c \in nonce /\ Top.job # "packet"
    BY <1>1, <1>2 DEF FrameLinked
  <2>2. conn[d].peer = c
    BY <1>2 DEF ToSelf, ConnectorInv, ConnInv, Paired
  <2>3. v.type = "version" /\ v.xs[1] = c
    BY DEF Msg
  <2> QED
    BY <2>1, <2>2, <2>3 DEF SelfPacket
<1>5. net' = Sent(net, c, ms)
  BY DEF SendVersion, Send
<1> HIDE DEF v, w, d
<1>6. IsSeq(<< v >>) /\ ToSet(<< v >>) = {v} /\ IsSeq(<< w >>) /\ ToSet(<< w >>) = {w}
  BY ElementsOfOne
<1>7. IsSeq(more) /\ ToSet(more) = IF Top.job = "packet" THEN {w} ELSE {}
  BY <1>6, ElementsOfEmpty
<1> HIDE DEF more
<1>8. IsSeq(ms) /\ ToSet(ms) = {v} \cup ToSet(more)
  BY <1>6, <1>7, ElementsOfConcat
<1> HIDE DEF ms
<1>9. \A m \in ToSet(ms) : PacketOK(m) /\ (ToSelf(c) => SelfPacket(d, m))
  BY <1>3, <1>4, <1>7, <1>8
<1>10. NetOK(Buffered', net')
  BY <1>1, <1>2, <1>5, <1>8, <1>9, NetStays, SentOK DEF ConnectorInv, d
<1>11. QED
  BY <1>1, <1>10, PopWire

LEMMA SendGetBlocksWire ==
  ASSUME ConnectorInv, WireInv, SendGetBlocks
  PROVE  WireInv'
<1>1. /\ stack # << >> /\ Top.done /\ Top.at = "last" /\ Ends
      /\ UNCHANGED << bufs, conn, nonce, cache, queue, storeVars >>
  BY DEF SendGetBlocks, Resumes, peerVars
<1>2. Top.c \in Client /\ FrameTyped(Top)
  BY <1>1, TopWire
<1>3. \E m : net' = Sent(net, Top.c, << m >>) /\ PacketOK(m) /\ Plain(m)
  <2>1. CASE Top.ans = {}
    <3>1. Chain[1] \in Item
      <4>1. Chain \in Seq(Block) /\ Chain # << >>
        BY ConnectorAssumption
      <4> QED
        BY <4>1, EmptySeq, ElementOfSeq DEF Item
    <3>2. << Chain[1] >> \in Seq(Item)
      BY <3>1, OneItem
    <3>3. PacketOK(Msg("getdata", << Chain[1] >>)) /\ Plain(Msg("getdata", << Chain[1] >>))
      BY <3>2 DEF PacketOK, Plain, Msg
    <3> QED
      BY <2>1, <3>3 DEF SendGetBlocks, Send
  <2>2. CASE Top.ans # {}
    <3>1. PICK b \in Block : Top.ans = {b}
      BY <1>1, <1>2, <2>2 DEF FrameTyped
    <3>2. SetToSeq(Top.ans) \in Seq(Top.ans) /\ SetToSeq(Top.ans) # << >>
      BY <2>2, <3>1, FS_Singleton, SetToSeqElements
    <3>3. SetToSeq(Top.ans) \in Seq(Block) \ {<< >>}
      BY <3>1, <3>2, SeqMonotonic
    <3>4. /\ PacketOK(Msg("getblocks", SetToSeq(Top.ans)))
          /\ Plain(Msg("getblocks", SetToSeq(Top.ans)))
      BY <3>3 DEF PacketOK, Plain, Msg
    <3> QED
      BY <2>2, <3>4 DEF SendGetBlocks, Send
  <2> QED
    BY <2>1, <2>2
<1>4. NetOK(Buffered', net')
  BY <1>1, <1>2, <1>3, NetStays, OneSent DEF ConnectorInv
<1>5. QED
  BY <1>1, <1>4, PopWire

LEMMA TxPutWire ==
  ASSUME ConnectorInv, WireInv, TxPut
  PROVE  WireInv'
<1>1. /\ stack # << >> /\ Top.done /\ Ends
      /\ UNCHANGED << bufs, conn, nonce, cache, queue, storeVars, net >>
  BY DEF TxPut, Resumes, peerVars
<1>2. NetOK(Buffered', net')
  BY <1>1, NetStays
<1>3. QED
  BY <1>1, <1>2, PopWire

LEMMA InvNextWire ==
  ASSUME ConnectorInv, WireInv, InvNext
  PROVE  WireInv'
<1> DEFINE x == Head(Top.rest)
           c == Top.c
           got == IF Top.ans = {} /\ Wanted(conn[c].todl, x) THEN Append(Top.got, x) ELSE Top.got
           rest == SkipCached(cache, Tail(Top.rest))
<1>1. /\ stack # << >> /\ Top.done /\ Top.at = "inv"
      /\ UNCHANGED << bufs, nonce, cache, queue, storeVars >>
      /\ InvLoop(Front(stack), Top, net, rest, got)
      /\ \/ conn' = conn
         \/ x \in Block /\ conn' = [conn EXCEPT ![c].todl = Append(@, x)]
  BY DEF InvNext, Resumes
<1>2. /\ c \in Client /\ DOMAIN Top = FrameFields /\ conn[c].st # "none"
      /\ Top.rest \in Seq(Item) /\ Top.got \in Seq(Item) /\ Top.rest # << >>
  BY <1>1, TopWire DEF FrameTyped, ListCalls
<1>3. x \in Item /\ Tail(Top.rest) \in Seq(Item)
  BY <1>2, HeadTailProperties
<1>4. got \in Seq(Item)
  BY <1>2, <1>3, AppendProperties
<1>5. rest \in Seq(Item)
  BY <1>3, SkipCachedElements, SeqElements
<1> HIDE DEF got, rest
<1>6. Base(Front(stack))
  BY <1>1 DEF Base
<1>7. Advance
  BY <1>1, <1>2, <1>4, <1>5, <1>6, NetStays, InvLoopOK DEF ConnectorInv
<1>8. Calm /\ \A d \in Client : conn'[d].todl \in Seq(Block)
  <2>1. CASE conn' = conn
    BY <1>1, <2>1 DEF Calm, WireInv, DataInv
  <2>2. CASE x \in Block /\ conn' = [conn EXCEPT ![c].todl = Append(@, x)]
    <3>1. Append(conn[c].todl, x) \in Seq(Block)
      BY <1>2, <2>2, AppendProperties DEF WireInv, DataInv
    <3> DEFINE y == Append(conn[c].todl, x)
    <3>2. conn' = [conn EXCEPT ![c].todl = y]
      BY <2>2
    <3> HIDE DEF y, x
    <3>3. y \in Seq(Block)
      BY <3>1 DEF y
    <3> QED
      BY <1>1, <1>2, <3>2, <3>3, TodlCalm DEF ConnectorInv, WireInv, DataInv
  <2> QED
    BY <1>1, <2>1, <2>2
<1>9. QED
  BY <1>1, <1>7, <1>8, CalmQuiet DEF Advance

LEMMA GetNextWire ==
  ASSUME ConnectorInv, WireInv, GetNext
  PROVE  WireInv'
<1> DEFINE x == Head(Top.rest)
<1>1. /\ stack # << >> /\ Top.done /\ Top.at = "get"
      /\ UNCHANGED << bufs, conn, nonce, cache, queue, storeVars >>
  BY DEF GetNext, Resumes, peerVars
<1>2. /\ Top.c \in Client /\ DOMAIN Top = FrameFields /\ conn[Top.c].st # "none"
      /\ FrameLinked(Top)
      /\ Top.rest \in Seq(Item) /\ Top.got \in Seq(Item) /\ Top.rest # << >>
  BY <1>1, TopWire DEF FrameTyped, ListCalls
<1>3. x \in Item /\ Tail(Top.rest) \in Seq(Item)
  BY <1>2, HeadTailProperties
<1>4. Append(Top.got, x) \in Seq(Item)
  BY <1>2, <1>3, AppendProperties
<1>5. /\ Base(Front(stack)) /\ ConnInv /\ NetOK(Buffered', net)
      /\ \A b \in cache \cap Block : Covered(b)
  BY <1>1, NetStays DEF Base, WireInv, ConnectorInv, KnownInv
<1>6. CASE GetLoop(cache, Front(stack), Top, net, Tail(Top.rest), Append(Top.got, x))
  BY <1>1, <1>2, <1>3, <1>4, <1>5, <1>6, GetLoopOK, AdvanceQuiet
<1>7. CASE GetLoop(cache, Front(stack), Top, Sent(net, Top.c, << Msg("header", << >>) >>),
                   Tail(Top.rest), Top.got)
  <2>1. PacketOK(Msg("header", << >>)) /\ Plain(Msg("header", << >>))
    BY DEF PacketOK, Plain, Msg
  <2>2. NetOK(Buffered', Sent(net, Top.c, << Msg("header", << >>) >>))
    BY <1>2, <1>5, <2>1, OneSent
  <2> QED
    BY <1>1, <1>2, <1>3, <1>5, <1>7, <2>2, GetLoopOK, AdvanceQuiet
<1>8. CASE GetLoop(cache, Front(stack), Top, net, Top.rest, Top.got)
  BY <1>1, <1>2, <1>5, <1>8, GetLoopOK, AdvanceQuiet
<1>9. CASE x \in Tx /\ Waits(Call(Top, "fetch")) /\ UNCHANGED net
  <2> DEFINE g == Call(Top, "fetch")
  <2>1. /\ g.c = Top.c /\ g.at = "fetch" /\ g.rest = Top.rest /\ g.got = Top.got
        /\ ~g.done /\ g.ans = {}
    BY <1>2, CallIs
  <2>2. stack' = Append(Front(stack), g)
    BY <1>9 DEF Waits
  <2> HIDE DEF g
  <2>3. NewFrame(g)
    BY <1>2, <1>9, <2>1
       DEF NewFrame, FrameLinked, FrameTyped, BlockCalls, BlockWork, TxCalls, ListCalls
  <2>4. Moves({g}) /\ NetOK(Buffered', net')
    BY <1>5, <1>9, <2>2, BaseGoes
  <2> QED
    BY <1>1, <2>3, <2>4, AdvanceQuiet DEF Advance
<1>10. QED
  BY <1>6, <1>7, <1>8, <1>9 DEF GetNext

\* What a handler caches or announces is stored, or it is storing it now.
LEMMA FetchedWire ==
  ASSUME ConnectorInv, WireInv, Fetched
  PROVE  WireInv'
<1> DEFINE x == Head(Top.rest)
           c == Top.c
           xs == IF Top.ans = {} THEN << >> ELSE << x >>
           nt == Sent(net, c, << Msg("tx", xs) >>)
<1>1. /\ stack # << >> /\ Top.done /\ Top.at = "fetch"
      /\ UNCHANGED << bufs, conn, nonce, queue, storeVars >>
  BY DEF Fetched, Resumes, peerVars
<1>2. PICK ca \in IF Top.ans = {} THEN {cache} ELSE Insertions(x) :
        cache' = ca /\ GetLoop(ca, Front(stack), Top, nt, Tail(Top.rest), Top.got)
  BY DEF Fetched
<1>3. /\ c \in Client /\ DOMAIN Top = FrameFields /\ conn[c].st # "none"
      /\ Top.rest \in Seq(Item) /\ Top.got \in Seq(Item) /\ Top.rest # << >>
      /\ x \in Tx /\ Top.ans \subseteq {x} \cap db.tx
  BY <1>1, TopWire DEF FrameTyped, FrameStored, ListCalls
<1>4. Tail(Top.rest) \in Seq(Item) /\ x \in Item /\ x \notin Block
  BY <1>3, HeadTailProperties, ConnectorAssumption DEF Item
<1>5. /\ CacheOK(ca) /\ ca \subseteq cache \cup (Top.ans \cap {x})
  <2>1. CASE Top.ans = {}
    BY <2>1 DEF WireInv, KnownInv
  <2>2. CASE Top.ans # {}
    <3>1. ca \in Insertions(x) /\ CacheOK(cache)
      BY <2>2 DEF WireInv, KnownInv
    <3> HIDE DEF x
    <3> QED
      BY <1>3, <1>4, <2>2, <3>1, CacheInserted
  <2> QED
    BY <2>1, <2>2
<1>6. \A b \in ca \cap Block : b \in cache /\ Covered(b)
  BY <1>4, <1>5 DEF WireInv, KnownInv
<1>7. NetOK(Buffered', nt)
  <2>1. xs \in Seq(Tx)
    BY <1>3, OneItem, NoItems
  <2> HIDE DEF xs
  <2>2. PacketOK(Msg("tx", xs)) /\ Plain(Msg("tx", xs))
    BY <2>1 DEF PacketOK, Plain, Msg
  <2> QED
    BY <1>1, <1>3, <2>2, NetStays, OneSent DEF ConnectorInv
<1> HIDE DEF nt
<1>8. Advance
  <2>1. Base(Front(stack)) /\ ConnInv
    BY <1>1 DEF Base, ConnectorInv
  <2> QED
    BY <1>2, <1>3, <1>4, <1>6, <1>7, <2>1, GetLoopOK
<1>9. PICK F : Moves(F) /\ \A f \in F : NewFrame(f)
  BY <1>8 DEF Advance
<1>10. Safe \subseteq Safe'
  BY <1>1, <1>9, SafeMoves DEF ConnectorInv, HandlersInv, StackOK, WireInv, DataInv, storeVars
<1>11. ca \cup ToSet(queue) \subseteq Safe
  BY <1>3, <1>5 DEF WireInv, KnownInv, Safe, Kept
<1>12. Calm /\ \A d \in Client : conn'[d].todl \in Seq(Block)
  BY <1>1 DEF Calm, WireInv, DataInv
<1>13. /\ CacheOK(cache') /\ queue' \in Seq(Item) /\ cache' \cup ToSet(queue') \subseteq Safe'
       /\ \A b \in cache' \cap Block : b \in cache \/ Covered(b)'
  BY <1>1, <1>2, <1>5, <1>6, <1>10, <1>11 DEF WireInv, DataInv
<1>14. \A f \in F : f.c \in Client /\ FrameLinked(f) /\ FrameTyped(f) /\ FrameStored(f)'
  BY <1>9, NewStored DEF NewFrame
<1>15. NetOK(Buffered', net') /\ UNCHANGED storeVars
  BY <1>1, <1>8 DEF Advance
<1>16. QED
  BY <1>9, <1>12, <1>13, <1>14, <1>15, CalmStep

\* An item goes to the cache and the queue as a handler g starts to store it; if it is a
\* block, its transactions are stored.
LEMMA InsertWire ==
  ASSUME ConnectorInv, WireInv, UNCHANGED << bufs, conn, net, nonce, storeVars >>,
         NEW g, Moves({g}), NEW x \in Item, Storing(g) = {x},
         x \in Block => Covered(x),
         g.c \in Client, FrameLinked(g), FrameTyped(g), FrameStored(g)',
         cache' \in Insertions(x), queue' = Append(queue, x)
  PROVE  WireInv'
<1>1. Safe \subseteq Safe' /\ x \in Safe' /\ Kept' = Kept
  BY SafeMoves DEF ConnectorInv, HandlersInv, StackOK, WireInv, DataInv, storeVars
<1>2. \A b : Covered(b) => Covered(b)'
  <2>1. db' = db
    BY DEF storeVars
  <2> QED
    BY <1>1, <2>1, StoredKept
<1>3. CacheOK(cache') /\ cache' \subseteq cache \cup {x}
  BY CacheInserted DEF WireInv, KnownInv
<1>4. /\ queue \in Seq(Item) /\ IsSeq(queue)
  BY SeqElements DEF WireInv, DataInv
<1>5. queue' \in Seq(Item) /\ ToSet(queue') = ToSet(queue) \cup {x}
  BY <1>4, AppendProperties, ElementsOfAppend
<1>6. cache' \cup ToSet(queue') \subseteq Safe'
  BY <1>1, <1>3, <1>5 DEF WireInv, KnownInv
<1>7. \A b \in cache' \cap Block : b \in cache \/ Covered(b)'
  BY <1>2, <1>3
<1>8. Calm /\ (\A d \in Client : conn'[d].todl \in Seq(Block)) /\ NetOK(Buffered', net')
  BY NetStays DEF Calm, WireInv, DataInv
<1>9. \A f \in {g} : f.c \in Client /\ FrameLinked(f) /\ FrameTyped(f) /\ FrameStored(f)'
  OBVIOUS
<1>10. UNCHANGED storeVars
  OBVIOUS
<1>11. QED
  BY <1>3, <1>5, <1>6, <1>7, <1>8, <1>9, <1>10, CalmStep

LEMMA TxHasWire ==
  ASSUME ConnectorInv, WireInv, TxHas
  PROVE  WireInv'
<1> DEFINE x == Head(Top.rest)
<1>1. /\ stack # << >> /\ Top.done /\ Top.at = "txhas"
      /\ UNCHANGED << bufs, conn, net, nonce, storeVars >>
  BY DEF TxHas, Resumes, peerVars
<1>2. CASE Ends /\ UNCHANGED << cache, queue >>
  BY <1>1, <1>2, PopWire, NetStays
<1>3. CASE PutTx(Top, Front(stack))
  <2>1. /\ Top.c \in Client /\ DOMAIN Top = FrameFields /\ conn[Top.c].st # "none"
        /\ Top.rest \in Seq(Tx) /\ Top.rest # << >>
    BY <1>1, TopWire DEF FrameTyped, TxCalls
  <2>2. x \in Tx /\ x \notin Block
    BY <2>1, HeadTailProperties, ConnectorAssumption
  <2> PICK g : g = Call(Top, "txput")
    OBVIOUS
  <2>3. /\ g.c = Top.c /\ g.at = "txput" /\ g.rest = Top.rest /\ ~g.done /\ g.ans = {}
    BY <2>1, CallIs
  <2>4. /\ stack' = Append(Front(stack), g)
        /\ cache' \in Insertions(x) /\ queue' = Append(queue, x)
    BY <1>3 DEF PutTx
  <2>5. NewFrame(g)
    BY <2>1, <2>3
       DEF NewFrame, FrameLinked, FrameTyped, BlockCalls, BlockWork, TxCalls, ListCalls
  <2>6. FrameStored(g)' /\ g.c \in Client /\ FrameLinked(g) /\ FrameTyped(g)
    BY <2>5, NewStored DEF NewFrame
  <2>7. Moves({g}) /\ Storing(g) = {x}
    BY <1>1, <2>3, <2>4, BaseGoes DEF Base, Storing
  <2> HIDE DEF x
  <2>8. x \in Item
    BY <2>2 DEF Item
  <2> QED
    BY <1>1, <2>2, <2>4, <2>6, <2>7, <2>8, InsertWire
<1>4. QED
  BY <1>2, <1>3 DEF TxHas

LEMMA QueuedWire ==
  ASSUME ConnectorInv, WireInv, SendQueuedInventory
  PROVE  WireInv'
<1>1. UNCHANGED << bufs, conn, nonce, stack, cache, storeVars >> /\ queue' = << >>
  BY DEF SendQueuedInventory, peerVars
<1> DEFINE m == Msg("inv", queue)
           Told(d) == \E c \in Client : Up(c) /\ conn[c].peer = d
<1>2. PacketOK(m) /\ \A d \in Client : SelfPacket(d, m)
  BY DEF PacketOK, SelfPacket, Msg, WireInv, DataInv
<1>3. /\ DOMAIN net' = Client
      /\ \A d \in Client : net'[d] = IF Told(d) THEN Append(net[d], m) ELSE net[d]
  BY DEF SendQueuedInventory
<1> HIDE DEF m
<1>4. \A d \in Client : Told(d) => conn[d].st # "none"
  BY ConnectorAssumption DEF ConnectorInv, ConnInv, Paired
<1> HIDE DEF Told
<1>5. \A d \in Client : /\ IsSeq(Append(net[d], m)) /\ Len(net[d]) \in Nat
                        /\ Len(Append(net[d], m)) = Len(net[d]) + 1
                        /\ ToSet(Append(net[d], m)) = ToSet(net[d]) \cup {m}
  BY AppendIsSeq, ElementsOfAppend DEF WireInv, NetOK
<1>6. NetOK(Buffered', net')
  <2>1. NetOK(Buffered', net)
    BY <1>1, NetStays
  <2>2. \A d \in Client : Buffered'[d] \in Nat /\ Buffered'[d] <= Len(net[d])
    BY <2>1 DEF NetOK
  <2>3. \A d \in Client : Buffered'[d] <= Len(net'[d])
    BY <1>3, <1>5, <2>2
  <2> QED
    BY <1>2, <1>3, <1>4, <1>5, <2>1, <2>3 DEF NetOK
<1>7. Moves({}) /\ Calm /\ \A d \in Client : conn'[d].todl \in Seq(Block)
  BY <1>1 DEF Moves, Calm, WireInv, DataInv
<1>8. Safe \subseteq Safe'
  BY <1>1 DEF Safe, Kept, Stored, Frames, storeVars
<1>9. /\ CacheOK(cache') /\ queue' \in Seq(Item) /\ cache' \cup ToSet(queue') \subseteq Safe'
      /\ \A b \in cache' \cap Block : b \in cache \/ Covered(b)'
  BY <1>1, <1>8, ElementsOfEmpty, NoItems DEF WireInv, KnownInv
<1>10. QED
  BY <1>1, <1>6, <1>7, <1>9, CalmStep

\* The next block of the list of a client is asked for, unless it is known.
LEMMA NextTodlWire ==
  ASSUME ConnectorInv, WireInv, stack # << >>, Top.done, NextTodl(Top, Front(stack)),
         UNCHANGED << bufs, net, nonce, cache, queue, storeVars >>
  PROVE  WireInv'
<1> DEFINE c == Top.c
           todl == SkipCached(cache, conn[c].todl)
<1>1. c \in Client /\ conn[c].st # "none" /\ IsSeq(conn[c].todl) /\ todl \in Seq(Block)
  <2>1. c \in Client /\ conn[c].st # "none" /\ conn[c].todl \in Seq(Block)
    BY TopWire DEF WireInv, DataInv
  <2>2. IsSeq(todl) /\ ToSet(todl) \subseteq ToSet(conn[c].todl)
    BY <2>1, SkipCachedElements, SeqElements
  <2> HIDE DEF todl
  <2>3. todl \in Seq(Block)
    BY <2>1, <2>2, SeqElements
  <2> QED
    BY <2>1, <2>3, SeqElements
<1>2. /\ NetOK(Buffered', net') /\ ConnInv /\ nonce' = nonce
      /\ \A d \in Client : conn[d].todl \in Seq(Block)
  BY NetStays DEF WireInv, ConnectorInv, DataInv
<1>3. CASE todl = << >>
  <2>1. conn' = [conn EXCEPT ![c].todl = << >>] /\ stack' = Front(stack)
    BY <1>3 DEF NextTodl
  <2>2. Calm /\ \A d \in Client : conn'[d].todl \in Seq(Block)
    BY <1>1, <1>2, <2>1, TodlCalm, NoItems
  <2>3. Moves({})
    BY <2>1 DEF Moves
  <2> QED
    BY <1>2, <2>2, <2>3, CalmQuiet
<1>4. CASE todl # << >>
  <2>1. PICK g : g = Frame(c, Top.job, "next", Head(todl))
    OBVIOUS
  <2>2. conn' = [conn EXCEPT ![c].todl = Tail(todl)] /\ stack' = Append(Front(stack), g)
    BY <1>4, <2>1 DEF NextTodl
  <2>3. Head(todl) \in Block /\ Tail(todl) \in Seq(Block)
    BY <1>1, <1>4, HeadTailProperties
  <2>4. Calm /\ \A d \in Client : conn'[d].todl \in Seq(Block)
    <3> DEFINE x == Tail(todl)
    <3>1. x \in Seq(Block) /\ conn' = [conn EXCEPT ![c].todl = x]
      BY <2>2, <2>3
    <3> HIDE DEF x
    <3> QED
      BY <1>1, <1>2, <3>1, TodlCalm
  <2>5. g.c = c /\ g.at = "next" /\ g.item = Head(todl) /\ ~g.done /\ g.ans = {}
    BY <2>1, FrameIs
  <2>6. NewFrame(g)
    BY <1>1, <2>3, <2>5
       DEF NewFrame, FrameLinked, FrameTyped, BlockCalls, BlockWork, TxCalls, ListCalls
  <2>7. Moves({g})
    BY <2>2 DEF Moves
  <2> QED
    BY <1>2, <2>4, <2>6, <2>7, CalmQuiet
<1>5. QED
  BY <1>3, <1>4

\* A handler of a block goes on to a call other than the last; of a transaction that is
\* to be linked to it, the transaction is stored.
BlockCall(g) ==
  /\ g.c \in Client /\ conn[g.c].st # "none"
  /\ g.at \in BlockCalls \ {"store"} /\ ~g.done /\ g.ans = {}
  /\ g.rest \in Seq(Tx) /\ (g.at \in TxCalls => g.rest # << >>)
  /\ \A t \in ToSet(TxsOf[g.item]) : t \in ToSet(g.rest) \/ CoveredTx(g.item, t)

LEMMA BlockCallWire ==
  ASSUME ConnectorInv, WireInv, UNCHANGED << conn, nonce, queue, storeVars >>, NetOK(Buffered', net'),
         NEW g, Moves({g}), BlockCall(g),
         g.at = "blocktx" => Head(g.rest) \in Safe',
         CacheOK(cache'), cache' \subseteq Safe', cache' \cap Block \subseteq cache
  PROVE  WireInv'
<1>1. Safe \subseteq Safe' /\ Kept' = Kept /\ db' = db
  BY SafeMoves DEF ConnectorInv, HandlersInv, StackOK, WireInv, DataInv, storeVars
<1>2. \A b, t : CoveredTx(b, t) => CoveredTx(b, t)'
  BY <1>1, StoredKept
<1>3. FrameLinked(g) /\ FrameTyped(g)
  BY DEF BlockCall, FrameLinked, FrameTyped, BlockCalls, BlockWork, ListCalls, TxCalls
<1>4. FrameStored(g)'
  BY <1>2 DEF BlockCall, FrameStored
<1>5. Calm /\ \A d \in Client : conn'[d].todl \in Seq(Block)
  BY DEF Calm, WireInv, DataInv
<1>6. queue' \in Seq(Item) /\ cache' \cup ToSet(queue') \subseteq Safe'
  BY <1>1 DEF WireInv, DataInv, KnownInv
<1>7. \A f \in {g} : f.c \in Client /\ FrameLinked(f) /\ FrameTyped(f) /\ FrameStored(f)'
  BY <1>3, <1>4 DEF BlockCall
<1>8. UNCHANGED storeVars
  OBVIOUS
<1>9. QED
  BY <1>5, <1>6, <1>7, <1>8, CalmStep

\* The handler of a block.
LEMMA BlockTop ==
  ASSUME ConnectorInv, WireInv, stack # << >>, Top.at \in BlockCalls
  PROVE  /\ DOMAIN Top = FrameFields /\ Top.c \in Client /\ conn[Top.c].st # "none"
         /\ Top.item \in Block /\ Top.rest \in Seq(Tx)
         /\ (Top.at \in TxCalls => Top.rest # << >>)
         /\ FrameStored(Top)
         /\ \A t \in ToSet(TxsOf[Top.item]) : t \in ToSet(Top.rest) \/ CoveredTx(Top.item, t)
BY TopWire DEF FrameOK, FrameTyped, FrameStored, BlockCalls

\* It goes on with the same transactions.
LEMMA BlockOn ==
  ASSUME ConnectorInv, WireInv, stack # << >>, Top.at \in BlockCalls,
         NEW at \in BlockCalls \ {"store"}, at \in TxCalls => Top.at \in TxCalls,
         NEW g, g = Call(Top, at)
  PROVE  BlockCall(g) /\ g.at = at /\ g.rest = Top.rest /\ g.item = Top.item
<1>1. /\ g.c = Top.c /\ g.at = at /\ g.item = Top.item /\ g.rest = Top.rest
      /\ ~g.done /\ g.ans = {}
  BY BlockTop, CallIs
<1>2. QED
  BY <1>1, BlockTop DEF BlockCall

LEMMA AddBlockWire ==
  ASSUME ConnectorInv, WireInv, stack # << >>, Top.done, Top.at \in BlockWork,
         NEW rest \in Seq(Tx), AddBlock(Top, rest),
         UNCHANGED << bufs, conn, net, nonce, storeVars >>,
         \A t \in ToSet(TxsOf[Top.item]) : t \in ToSet(rest) \/ CoveredTx(Top.item, t)
  PROVE  WireInv'
<1> DEFINE k == [Top EXCEPT !.rest = rest]
<1>1. /\ DOMAIN Top = FrameFields /\ Top.c \in Client /\ conn[Top.c].st # "none"
      /\ Top.item \in Block
  BY BlockTop DEF BlockCalls
<1>2. /\ DOMAIN k = FrameFields /\ k.c = Top.c /\ k.item = Top.item /\ k.rest = rest
  BY <1>1 DEF FrameFields
<1> DEFINE at == IF rest = << >> THEN "store"
                 ELSE IF Head(rest) \in cache THEN "blocktx" ELSE "txknows"
<1>3. PICK g : g = Call(k, at)
  OBVIOUS
<1>4. /\ stack' = Append(Front(stack), g)
      /\ rest = << >> => cache' \in Insertions(Top.item) /\ queue' = Append(queue, Top.item)
      /\ rest # << >> => UNCHANGED << cache, queue >>
  BY <1>2, <1>3 DEF AddBlock, Waits
<1> HIDE DEF k
<1>5. /\ g.c = Top.c /\ g.at = at /\ g.item = Top.item /\ g.rest = rest
      /\ ~g.done /\ g.ans = {}
  BY <1>2, <1>3, CallIs
<1>6. Moves({g})
  BY <1>4 DEF Moves
<1>7. Safe \subseteq Safe' /\ db' = db
  BY <1>6, SafeMoves DEF ConnectorInv, HandlersInv, StackOK, WireInv, DataInv, storeVars
<1>8. CASE rest = << >>
  <2>1. Covered(Top.item)
    BY <1>8, ElementsOfEmpty DEF Covered
  <2>2. g.at = "store"
    BY <1>5, <1>8
  <2>3. FrameLinked(g) /\ FrameTyped(g)
    BY <1>1, <1>5, <2>2, ElementsOfEmpty
       DEF FrameLinked, FrameTyped, BlockCalls, BlockWork, ListCalls, TxCalls
  <2>4. \A t \in ToSet(TxsOf[g.item]) : CoveredTx(g.item, t)'
    <3>1. \A t \in ToSet(TxsOf[g.item]) : CoveredTx(g.item, t)
      BY <1>5, <2>1 DEF Covered
    <3> QED
      BY <1>7, <3>1 DEF CoveredTx
  <2>5. FrameStored(g)'
    BY <1>5, <1>8, <2>2, <2>4 DEF FrameStored
  <2>6. Storing(g) = {Top.item} /\ Top.item \in Item
    BY <1>1, <1>5, <2>2 DEF Storing, Item
  <2> QED
    BY <1>1, <1>4, <1>5, <1>6, <1>8, <2>1, <2>3, <2>5, <2>6, InsertWire
<1>9. CASE rest # << >>
  <2>1. g.at \in {"blocktx", "txknows"} /\ (g.at = "blocktx" => Head(g.rest) \in cache)
    BY <1>5, <1>9
  <2>2. BlockCall(g)
    BY <1>1, <1>5, <1>9, <2>1 DEF BlockCall, BlockCalls, BlockWork, TxCalls
  <2>3. CacheOK(cache') /\ cache' \subseteq Safe'
    BY <1>4, <1>7, <1>9 DEF WireInv, KnownInv
  <2>4. g.at = "blocktx" => Head(g.rest) \in Safe'
    BY <1>4, <1>9, <2>1, <2>3
  <2>5. NetOK(Buffered', net') /\ cache' \cap Block \subseteq cache
    BY <1>4, <1>9, NetStays
  <2> QED
    BY <1>4, <1>6, <1>9, <2>2, <2>3, <2>4, <2>5, BlockCallWire
<1>10. QED
  BY <1>8, <1>9

LEMMA GotParentWire ==
  ASSUME ConnectorInv, WireInv, GotParent
  PROVE  WireInv'
<1>1. /\ stack # << >> /\ Top.done /\ Top.at = "parent"
      /\ UNCHANGED << bufs, net, nonce, cache, queue, storeVars >>
  BY DEF GotParent, Resumes
<1>2. CASE NextTodl(Top, Front(stack))
  BY <1>1, <1>2, NextTodlWire
<1>3. ASSUME UNCHANGED conn, NEW h, Waits([Call(Top, "knows") EXCEPT !.h = h])
      PROVE  WireInv'
  <2>1. PICK k : k = Call(Top, "knows")
    OBVIOUS
  <2>2. PICK g : g = [k EXCEPT !.h = h]
    OBVIOUS
  <2>3. stack' = Append(Front(stack), g)
    BY <1>3, <2>1, <2>2 DEF Waits
  <2>4. BlockCall(k) /\ k.at = "knows" /\ DOMAIN k = FrameFields
    <3>1. Top.at \in BlockCalls /\ "knows" \in BlockCalls \ {"store"} /\ "knows" \notin TxCalls
      BY <1>1 DEF BlockCalls, BlockWork, TxCalls
    <3>2. DOMAIN Top = FrameFields
      BY <1>1, TopWire
    <3> QED
      BY <1>1, <2>1, <3>1, <3>2, BlockOn, CallIs
  <2>5. /\ g.c = k.c /\ g.at = k.at /\ g.item = k.item /\ g.rest = k.rest
        /\ g.done = k.done /\ g.ans = k.ans
    BY <2>2, <2>4 DEF FrameFields
  <2>6. BlockCall(g) /\ g.at # "blocktx"
    BY <2>4, <2>5 DEF BlockCall
  <2>7. Moves({g}) /\ NetOK(Buffered', net')
    BY <1>1, <2>3, NetStays DEF Moves
  <2>8. Safe \subseteq Safe'
    BY <1>1, <2>7, SafeMoves
       DEF ConnectorInv, HandlersInv, StackOK, WireInv, DataInv, storeVars
  <2>9. CacheOK(cache') /\ cache' \subseteq Safe' /\ cache' \cap Block \subseteq cache
    BY <1>1, <2>8 DEF WireInv, KnownInv
  <2> QED
    BY <1>1, <1>3, <2>6, <2>7, <2>9, BlockCallWire
<1>4. QED
  BY <1>2, <1>3 DEF GotParent

LEMMA GotKnowsWire ==
  ASSUME ConnectorInv, WireInv, GotKnows
  PROVE  WireInv'
<1>1. /\ stack # << >> /\ Top.done /\ Top.at = "knows" /\ Top.at \in BlockWork
      /\ UNCHANGED << bufs, net, nonce, storeVars >>
  BY DEF GotKnows, Resumes, BlockWork
<1>2. CASE NextTodl(Top, Front(stack)) /\ UNCHANGED << cache, queue >>
  BY <1>1, <1>2, NextTodlWire
<1>3. CASE AddBlock(Top, Top.rest) /\ UNCHANGED conn
  <2>1. /\ Top.rest \in Seq(Tx)
        /\ \A t \in ToSet(TxsOf[Top.item]) : t \in ToSet(Top.rest) \/ CoveredTx(Top.item, t)
    BY <1>1, BlockTop DEF BlockCalls
  <2> QED
    BY <1>1, <1>3, <2>1, AddBlockWire
<1>4. QED
  BY <1>2, <1>3 DEF GotKnows

\* A transaction that is linked to the block is behind it.
LEMMA LinkedWire ==
  ASSUME ConnectorInv, WireInv, Linked
  PROVE  WireInv'
<1> DEFINE t1 == Head(Top.rest)
<1>1. /\ stack # << >> /\ Top.done /\ Top.at = "blocktx" /\ Top.at \in BlockWork
      /\ UNCHANGED << bufs, conn, net, nonce, storeVars >> /\ AddBlock(Top, Tail(Top.rest))
  BY DEF Linked, Resumes, BlockWork, peerVars
<1>2. /\ Top.rest \in Seq(Tx) /\ Top.rest # << >> /\ FrameStored(Top)
      /\ \A t \in ToSet(TxsOf[Top.item]) : t \in ToSet(Top.rest) \/ CoveredTx(Top.item, t)
  BY <1>1, BlockTop DEF BlockCalls, TxCalls
<1>3. CoveredTx(Top.item, t1)
  BY <1>1, <1>2 DEF FrameStored, Storing, CoveredTx, Safe
<1>4. Tail(Top.rest) \in Seq(Tx) /\ ToSet(Top.rest) = ToSet(Tail(Top.rest)) \cup {t1}
  BY <1>2, HeadTailProperties, ElementsOfTail, SeqElements
<1>5. \A t \in ToSet(TxsOf[Top.item]) : t \in ToSet(Tail(Top.rest)) \/ CoveredTx(Top.item, t)
  BY <1>2, <1>3, <1>4
<1> DEFINE r == Tail(Top.rest)
<1>6. r \in Seq(Tx) /\ AddBlock(Top, r)
      /\ \A t \in ToSet(TxsOf[Top.item]) : t \in ToSet(r) \/ CoveredTx(Top.item, t)
  BY <1>1, <1>4, <1>5
<1> HIDE DEF r
<1>7. QED
  BY <1>1, <1>6, AddBlockWire

LEMMA TxsWire ==
  ASSUME ConnectorInv, WireInv, GotTxKnows \/ TxStored
  PROVE  WireInv'
<1> DEFINE x == Head(Top.rest)
<1>1. /\ stack # << >> /\ Top.done /\ Top.at \in {"txknows", "txstore"}
      /\ UNCHANGED << bufs, conn, net, nonce, queue, storeVars >>
  BY DEF GotTxKnows, TxStored, Resumes, peerVars
<1>2. Top.at \in BlockCalls /\ Top.at \in TxCalls
  BY <1>1 DEF BlockCalls, BlockWork, TxCalls
<1>3. x \in Item /\ x \notin Block /\ FrameStored(Top)
  <2>1. Top.rest \in Seq(Tx) /\ Top.rest # << >> /\ FrameStored(Top)
    BY <1>1, <1>2, BlockTop
  <2> QED
    BY <2>1, HeadTailProperties, ConnectorAssumption DEF Item
<1>4. CacheOK(cache) /\ cache \subseteq Safe /\ NetOK(Buffered', net')
  BY <1>1, NetStays DEF WireInv, KnownInv
<1>5. CASE /\ Waits(Call(Top, "blocktx")) /\ UNCHANGED cache
           /\ Top.at = "txstore" \/ Top.ans # {}
  <2>1. PICK g : g = Call(Top, "blocktx")
    OBVIOUS
  <2>2. BlockCall(g) /\ g.at = "blocktx" /\ g.rest = Top.rest
    <3>1. "blocktx" \in BlockCalls \ {"store"}
      BY DEF BlockCalls, BlockWork
    <3> QED
      BY <1>1, <1>2, <2>1, <3>1, BlockOn
  <2>3. Moves({g})
    BY <1>1, <1>5, <2>1 DEF Moves, Waits
  <2>4. Safe \subseteq Safe'
    BY <1>1, <2>3, SafeMoves
       DEF ConnectorInv, HandlersInv, StackOK, WireInv, DataInv, storeVars
  <2>5. x \in Kept
    <3>1. CASE Top.at = "txstore"
      BY <1>1, <1>3, <3>1 DEF FrameStored, Storing
    <3>2. CASE Top.at = "txknows" /\ Top.ans # {}
      BY <1>3, <3>2 DEF FrameStored, Kept
    <3> QED
      BY <1>1, <1>5, <3>1, <3>2
  <2>6. Head(g.rest) \in Safe'
    BY <2>2, <2>4, <2>5 DEF Safe
  <2>7. CacheOK(cache') /\ cache' \subseteq Safe' /\ cache' \cap Block \subseteq cache
    BY <1>4, <1>5, <2>4
  <2> QED
    BY <1>1, <1>4, <2>2, <2>3, <2>6, <2>7, BlockCallWire
<1>6. CASE cache' \in Insertions(x) /\ Waits(Call(Top, "txstore"))
  <2>1. PICK g : g = Call(Top, "txstore")
    OBVIOUS
  <2>2. BlockCall(g) /\ g.at = "txstore" /\ g.rest = Top.rest
    <3>1. "txstore" \in BlockCalls \ {"store"}
      BY DEF BlockCalls, BlockWork
    <3> QED
      BY <1>1, <1>2, <2>1, <3>1, BlockOn
  <2>3. Moves({g})
    BY <1>1, <1>6, <2>1 DEF Moves, Waits
  <2>4. Safe \subseteq Safe' /\ Storing(g) \subseteq Safe'
    BY <1>1, <2>3, SafeMoves
       DEF ConnectorInv, HandlersInv, StackOK, WireInv, DataInv, storeVars
  <2>5. x \in Safe'
    BY <2>2, <2>4 DEF Storing
  <2> HIDE DEF x
  <2>6. CacheOK(cache') /\ cache' \subseteq cache \cup {x}
    BY <1>3, <1>4, <1>6, CacheInserted
  <2>7. cache' \subseteq Safe' /\ cache' \cap Block \subseteq cache
    BY <1>3, <1>4, <2>4, <2>5, <2>6
  <2>8. NetOK(Buffered', net') /\ g.at # "blocktx"
    BY <1>4, <2>2
  <2> QED
    BY <1>1, <2>2, <2>3, <2>6, <2>7, <2>8, BlockCallWire
<1>7. QED
  BY <1>5, <1>6 DEF GotTxKnows, TxStored, Resumes, peerVars

LEMMA AskNextWire ==
  ASSUME ConnectorInv, WireInv, AskNext \/ BlockStored
  PROVE  WireInv'
<1>1. stack # << >> /\ Top.done /\ UNCHANGED << bufs, nonce, cache, queue, storeVars >>
  BY DEF AskNext, BlockStored, Resumes
<1>2. CASE NextTodl(Top, Front(stack)) /\ UNCHANGED net
  BY <1>1, <1>2, NextTodlWire
<1>3. CASE /\ Top.at = "next" /\ Send(Top.c, << Msg("getdata", << Top.item >>) >>)
           /\ Ends /\ UNCHANGED conn
  <2>1. Top.c \in Client /\ Top.item \in Block
    BY <1>1, <1>3, TopWire DEF FrameTyped
  <2>2. << Top.item >> \in Seq(Item)
    BY <2>1, OneItem DEF Item
  <2>3. PacketOK(Msg("getdata", << Top.item >>)) /\ Plain(Msg("getdata", << Top.item >>))
    BY <2>2 DEF PacketOK, Plain, Msg
  <2>4. NetOK(Buffered', Sent(net, Top.c, << Msg("getdata", << Top.item >>) >>))
    BY <1>1, <2>1, <2>3, NetStays, OneSent DEF ConnectorInv
  <2>5. NetOK(Buffered', net')
    BY <1>3, <2>4 DEF Send
  <2> QED
    BY <1>1, <1>3, <2>5, PopWire
<1>4. QED
  BY <1>2, <1>3 DEF AskNext, BlockStored, Resumes

-----------------------------------------------------------------------------
(* The packets and the events from outside                                  *)

LEMMA PacketRead ==
  ASSUME ConnectorInv, WireInv, UNCHANGED << conn, nonce, stack, cache, queue, storeVars >>,
         NetOK(Buffered', net')
  PROVE  WireInv'
<1>1. Moves({})
  BY DEF Moves
<1>2. Advance
  BY <1>1 DEF Advance
<1>3. QED
  BY <1>2, AdvanceQuiet

LEMMA PingWire ==
  ASSUME ConnectorInv, WireInv, NEW c \in Client, Ping(c) \/ Ignored(c)
  PROVE  WireInv'
<1>1. /\ stack' = stack /\ \E type : Packet(c, type)
      /\ UNCHANGED << conn, nonce, cache, queue, storeVars >>
  BY DEF Ping, Ignored, peerVars
<1>2. NetOK(Buffered', Took(c)) /\ ConnInv
  BY <1>1, TookOK DEF ConnectorInv
<1>3. CASE net' = Sent(Took(c), c, << Msg("pong", << >>) >>)
  <2>1. PacketOK(Msg("pong", << >>)) /\ Plain(Msg("pong", << >>))
    BY DEF PacketOK, Plain, Msg
  <2>2. NetOK(Buffered', net')
    BY <1>2, <1>3, <2>1, OneSent
  <2> QED
    BY <1>1, <2>2, PacketRead
<1>4. CASE net' = Took(c)
  BY <1>1, <1>2, <1>4, PacketRead
<1>5. QED
  BY <1>3, <1>4 DEF Ping, Ignored

LEMMA ListWire ==
  ASSUME ConnectorInv, WireInv, NEW c \in Client, Inv(c) \/ GetData(c)
  PROVE  WireInv'
<1>1. /\ \E type \in {"inv", "getdata"} : Packet(c, type)
      /\ UNCHANGED << conn, nonce, cache, queue, storeVars >>
  BY DEF Inv, GetData, peerVars
<1>2. /\ NetOK(Buffered', Took(c)) /\ ConnInv /\ Xs(c) \in Seq(Item)
      /\ conn[c].st # "none"
      /\ Base(stack) /\ \A b \in cache \cap Block : Covered(b)
  BY <1>1, TookOK DEF WireInv, ConnectorInv, PacketOK, Xs, Base, KnownInv
<1>3. << >> \in Seq(Item)
  BY NoItems
<1>4. CASE Inv(c)
  <2> DEFINE f == Handler(c, "inv", None)
             rest == SkipCached(cache, Xs(c))
  <2>1. DOMAIN f = FrameFields /\ f.c = c
    BY FrameNew DEF Handler
  <2>2. InvLoop(stack, f, Took(c), rest, << >>)
    BY <1>4 DEF Inv
  <2>3. rest \in Seq(Item)
    BY <1>2, SkipCachedElements, SeqElements
  <2> HIDE DEF f, rest
  <2>4. Advance
    BY <1>1, <1>2, <1>3, <2>1, <2>2, <2>3, InvLoopOK
  <2> QED
    BY <1>1, <2>4, AdvanceQuiet
<1>5. CASE GetData(c)
  <2> DEFINE f == Handler(c, "get", None)
  <2>1. DOMAIN f = FrameFields /\ f.c = c
    BY FrameNew DEF Handler
  <2>2. GetLoop(cache, stack, f, Took(c), Xs(c), << >>)
    BY <1>5 DEF GetData
  <2> HIDE DEF f
  <2>4. Advance
    BY <1>1, <1>2, <1>3, <2>1, <2>2, GetLoopOK
  <2> QED
    BY <1>1, <2>4, AdvanceQuiet
<1>6. QED
  BY <1>4, <1>5

LEMMA TxPacketWire ==
  ASSUME ConnectorInv, WireInv, NEW c \in Client, TxPacket(c)
  PROVE  WireInv'
<1>1. /\ Packet(c, "tx")
      /\ net' = Took(c) /\ UNCHANGED << conn, nonce, cache, queue, storeVars >>
  BY DEF TxPacket, peerVars
<1>2. NetOK(Buffered', net') /\ Xs(c) \in Seq(Tx) /\ conn[c].st # "none"
  BY <1>1, TookOK DEF PacketOK, Xs
<1>3. CASE stack' = stack
  BY <1>1, <1>2, <1>3, PacketRead
<1>4. CASE /\ SkipCached(cache, Xs(c)) # << >>
           /\ stack' = Append(stack, [Handler(c, "txhas", None) EXCEPT !.rest = Xs(c)])
  <2>1. PICK k : k = Frame(c, "packet", "txhas", None)
    OBVIOUS
  <2>2. PICK g : g = [k EXCEPT !.rest = Xs(c)]
    OBVIOUS
  <2>3. /\ DOMAIN k = FrameFields /\ k.c = c /\ k.at = "txhas" /\ ~k.done /\ k.ans = {}
    BY <2>1, FrameIs
  <2>4. /\ g.c = c /\ g.at = "txhas" /\ ~g.done /\ g.ans = {} /\ g.rest = Xs(c)
    BY <2>2, <2>3 DEF FrameFields
  <2>5. Xs(c) # << >>
    <3>1. IsSeq(<< >>) /\ ToSet(<< >>) = {}
      BY ElementsOfEmpty
    <3>2. DOMAIN << >> = {}
      BY <3>1 DEF ToSet
    <3>3. SkipCached(cache, << >>) = << >>
      BY <3>2 DEF SkipCached
    <3> QED
      BY <1>4, <3>3
  <2>6. NewFrame(g)
    BY <1>1, <1>2, <2>4, <2>5
       DEF NewFrame, FrameLinked, FrameTyped, BlockCalls, BlockWork, TxCalls, ListCalls
  <2>7. Moves({g})
    BY <1>1, <1>4, <2>1, <2>2 DEF Moves, Handler
  <2> QED
    BY <1>1, <1>2, <2>6, <2>7, AdvanceQuiet DEF Advance
<1>5. QED
  BY <1>3, <1>4 DEF TxPacket

LEMMA BlockPacketWire ==
  ASSUME ConnectorInv, WireInv, NEW c \in Client, BlockPacket(c)
  PROVE  WireInv'
<1>1. net' = Took(c) /\ UNCHANGED << conn, nonce, cache, queue, storeVars >>
  BY DEF BlockPacket, peerVars
<1>2. PICK type \in {"block", "header"}, b \in Block :
        /\ Packet(c, type) /\ Xs(c) # << >> /\ b = Xs(c)[1]
        /\ stack' = Append(stack, IF type = "block"
                                  THEN [Frame(c, "packet", "parent", b) EXCEPT !.rest = TxsOf[b]]
                                  ELSE Frame(c, "packet", "parent", b))
  BY DEF BlockPacket, Handler
<1>3. NetOK(Buffered', net') /\ conn[c].st # "none" /\ (type = "header" => Covered(b))
  BY <1>1, <1>2, TookOK DEF PacketOK, Xs
<1>4. PICK k : k = Frame(c, "packet", "parent", b)
  OBVIOUS
<1>5. PICK g : g = IF type = "block" THEN [k EXCEPT !.rest = TxsOf[b]] ELSE k
  OBVIOUS
<1>6. /\ DOMAIN k = FrameFields /\ k.c = c /\ k.at = "parent" /\ k.item = b
      /\ k.rest = << >> /\ ~k.done /\ k.ans = {}
  BY <1>4, FrameIs
<1>7. /\ g.c = c /\ g.at = "parent" /\ g.item = b /\ ~g.done /\ g.ans = {}
      /\ g.rest = IF type = "block" THEN TxsOf[b] ELSE << >>
  BY <1>5, <1>6 DEF FrameFields
<1>8. g.rest \in Seq(Tx)
  BY <1>7, ConnectorAssumption, NoItems
<1>9. \A t \in ToSet(TxsOf[b]) : t \in ToSet(g.rest) \/ CoveredTx(b, t)
  BY <1>2, <1>3, <1>7 DEF Covered
<1>10. BlockCall(g)
  BY <1>3, <1>7, <1>8, <1>9 DEF BlockCall, BlockCalls, BlockWork, TxCalls
<1>11. Moves({g})
  BY <1>1, <1>2, <1>4, <1>5 DEF Moves
<1>12. Safe \subseteq Safe'
  BY <1>1, <1>11, SafeMoves
     DEF ConnectorInv, HandlersInv, StackOK, WireInv, DataInv, storeVars
<1>13. CacheOK(cache') /\ cache' \subseteq Safe' /\ cache' \cap Block \subseteq cache
  BY <1>1, <1>12 DEF WireInv, KnownInv
<1>14. QED
  BY <1>1, <1>3, <1>7, <1>10, <1>11, <1>13, BlockCallWire

LEMMA TickWire ==
  ASSUME ConnectorInv, WireInv, NEW c \in Client, Tick(c)
  PROVE  WireInv'
<1>1. /\ conn[c].st # "none" /\ NetOK(Buffered', net')
      /\ UNCHANGED << conn, nonce, cache, queue, storeVars >>
  BY NetStays DEF Tick, peerVars, WireInv, SelfInv
<1>2. PICK g : g = Frame(c, "timer", "last", None)
  OBVIOUS
<1>3. g.c = c /\ g.at = "last" /\ ~g.done /\ g.ans = {}
  BY <1>2, FrameIs
<1>4. NewFrame(g)
  BY <1>1, <1>3
     DEF NewFrame, FrameLinked, FrameTyped, BlockCalls, BlockWork, TxCalls, ListCalls
<1>5. Moves({g})
  BY <1>1, <1>2 DEF Moves, Tick
<1>6. QED
  BY <1>1, <1>4, <1>5, AdvanceQuiet DEF Advance

LEMMA ArriveWire ==
  ASSUME ConnectorInv, WireInv, NEW c \in Client, Arrive(c)
  PROVE  WireInv'
<1>1. UNCHANGED << conn, net, nonce, stack, cache, queue, storeVars >>
  BY DEF Arrive, peerVars
<1>2. /\ taken \in [Client -> Nat] /\ held \in [Client -> Nat]
      /\ Len(net[c]) \in Nat /\ taken[c] + held[c] <= Len(net[c])
  BY LenProperties DEF ConnectorInv, BufInv, WireInv, NetOK, Buffered, IsSeq
<1>3. PICK n \in 1 .. Len(net[c]) - taken[c] - held[c] :
         \/ taken' = [taken EXCEPT ![c] = held[c] + n] /\ held' = [held EXCEPT ![c] = 0]
         \/ taken' = taken /\ held' = [held EXCEPT ![c] = @ + n]
  BY DEF Arrive
<1>4. /\ taken' \in [Client -> Nat] /\ held' \in [Client -> Nat]
      /\ taken'[c] + held'[c] <= Len(net[c])
      /\ \A d \in Client \ {c} : taken'[d] = taken[d] /\ held'[d] = held[d]
  <2>1. PICK t \in Nat, h \in Nat, l \in Nat : t = taken[c] /\ h = held[c] /\ l = Len(net[c])
    BY <1>2
  <2>2. /\ n \in 1 .. l - t - h /\ n \in Nat /\ h + n \in Nat /\ 0 \in Nat
        /\ (h + n) + 0 <= l /\ t + (h + n) <= l
    BY <2>1, SMTT(60)
  <2>3. CASE taken' = [taken EXCEPT ![c] = held[c] + n] /\ held' = [held EXCEPT ![c] = 0]
    BY <1>2, <2>1, <2>2, <2>3
  <2>4. CASE taken' = taken /\ held' = [held EXCEPT ![c] = @ + n]
    BY <1>2, <2>1, <2>2, <2>4
  <2> QED
    BY <1>3, <2>3, <2>4
<1>5. /\ Buffered' \in [Client -> Nat] /\ Buffered'[c] <= Len(net[c])
      /\ \A d \in Client \ {c} : Buffered'[d] = Buffered[d]
  BY <1>4 DEF Buffered
<1>6. NetOK(Buffered', net')
  BY <1>1, <1>5 DEF WireInv, NetOK
<1>7. QED
  BY <1>1, <1>6, PacketRead

LEMMA TalkOK ==
  ASSUME NEW m \in Talk
  PROVE  PacketOK(m)
<1>1. ASSUME NEW x \in Item PROVE PacketOK(Msg("inv", << x >>))
  <2>1. << x >> \in Seq(Item)
    BY OneItem
  <2> QED
    BY <2>1 DEF PacketOK, Msg
<1>2. Last(Chain) \in Item
  <2>1. IsSeq(Chain) /\ Chain # << >> /\ ToSet(Chain) = Block
    BY ConnectorAssumption, SeqElements
  <2> QED
    BY <2>1, ElementsOfFront DEF Item
<1>3. IsFiniteSet(Item)
  <2> DEFINE n == Len(Chain)
  <2>1. n \in Nat /\ Chain \in [1 .. n -> Block]
    BY ConnectorAssumption, LenProperties
  <2>2. Chain \in Surjection(1 .. n, Block)
    BY <2>1, ConnectorAssumption DEF Surjection, ToSet
  <2>3. IsFiniteSet(1 .. n)
    BY <2>1, FS_Interval
  <2> HIDE DEF n
  <2>4. IsFiniteSet(Block)
    BY <2>2, <2>3, FS_Surjection
  <2> QED
    BY <2>4, FS_Union, ConnectorAssumption DEF Item
<1>4. SetToSeq(Item) \in Seq(Item)
  BY <1>3, SetToSeqElements
<1>5. PacketOK(Msg("getdata", SetToSeq(Item)))
  BY <1>4 DEF PacketOK, Msg
<1>6. PacketOK(Msg("ping", << >>)) /\ PacketOK(Msg("addr", << >>))
  BY OtherPacket
<1>7. \A t \in Tx : PacketOK(Msg("inv", << t >>))
  BY <1>1 DEF Item
<1>8. PacketOK(Msg("inv", << Last(Chain) >>))
  BY <1>1, <1>2
<1>9. QED
  BY <1>5, <1>6, <1>7, <1>8 DEF Talk

LEMMA NodeTalksWire ==
  ASSUME ConnectorInv, WireInv, NEW c \in Client, NodeTalks(c)
  PROVE  WireInv'
<1>1. /\ Up(c) /\ conn[c].peer = Node
      /\ UNCHANGED << bufs, conn, nonce, stack, cache, queue, storeVars >>
  BY DEF NodeTalks, peerVars
<1>2. PICK m \in Talk : net' = [net EXCEPT ![c] = Append(@, m)]
  BY DEF NodeTalks
<1>3. PacketOK(m) /\ SelfPacket(c, m) /\ conn[c].st # "none"
  BY <1>1, TalkOK, ConnectorAssumption DEF SelfPacket, ToSelf, Up
<1>4. /\ DOMAIN net' = Client
      /\ \A d \in Client : net'[d] = IF d = c THEN Append(net[c], m) ELSE net[d]
  BY <1>2 DEF WireInv, NetOK
<1>5. /\ IsSeq(Append(net[c], m)) /\ ToSet(Append(net[c], m)) = ToSet(net[c]) \cup {m}
      /\ Len(net[c]) \in Nat /\ Len(Append(net[c], m)) = Len(net[c]) + 1
  BY AppendIsSeq, ElementsOfAppend DEF WireInv, NetOK
<1>6. NetOK(Buffered', net')
  <2>1. NetOK(Buffered', net)
    BY <1>1, NetStays
  <2>2. Buffered'[c] \in Nat /\ Buffered'[c] <= Len(net[c])
    BY <2>1 DEF NetOK
  <2>3. Buffered'[c] <= Len(Append(net[c], m))
    BY <1>5, <2>2
  <2> QED
    BY <1>3, <1>4, <1>5, <2>1, <2>3 DEF NetOK
<1>7. QED
  BY <1>1, <1>6, PacketRead

-----------------------------------------------------------------------------
(* Connections                                                              *)

\* An end of a connection of the daemon to itself that was one keeps the nonces.
EndsKept ==
  \A d \in Client :
     ToSelf(d)' /\ conn[d].st # "none" =>
        /\ ToSelf(d) /\ conn'[d].peer = conn[d].peer
        /\ conn[d].peer \in nonce => conn[d].peer \in nonce'
        /\ d \in nonce => d \in nonce'

\* The packets under way stay, but for those of a client that is not such an end.
NetKept(bs, nt) ==
  /\ DOMAIN net' = Client /\ Buffered' \in [Client -> Nat]
  /\ \A d \in Client :
        /\ \/ net'[d] = nt[d] /\ Buffered'[d] = bs[d]
           \/ /\ ~ToSelf(d)' /\ IsSeq(net'[d]) /\ Buffered'[d] <= Len(net'[d])
              /\ \A m \in ToSet(net'[d]) : PacketOK(m)
        /\ conn'[d].st = "none" => net'[d] = << >>

LEMMA LinkStep ==
  ASSUME ConnectorInv, WireInv, UNCHANGED << cache, queue, db, lost >>, view' \subseteq Stored,
         SelfInv', EndsKept, NEW bs, NEW nt, NetOK(bs, nt), NetKept(bs, nt),
         \A f \in Frames : conn'[f.c].st # "none",
         \A c \in Client : conn'[c].todl \in Seq(Block),
         NEW F, Moves(F),
         \A f \in F : /\ f.c \in Client /\ FrameLinked(f)' /\ FrameTyped(f)
                      /\ f.at \notin BlockCalls /\ ~f.done /\ f.ans = {}
  PROVE  WireInv'
<1>1. /\ IsSeq(stack) /\ FramesInv /\ UNCHANGED << db, lost >>
      /\ \A f \in Frames : f.c \in Client
  <2>1. \A f \in Frames : f.c \in Client
    BY DEF ConnectorInv, HandlersInv, StackOK, FrameOK, Frames, ToSet
  <2> QED
    BY <2>1 DEF ConnectorInv, HandlersInv, StackOK, WireInv, DataInv
<1>2. Kept' = Kept /\ Safe \subseteq Safe'
  BY <1>1, SafeMoves
<1>3. Frames' \subseteq Frames \cup F
  BY <1>1, MovesFrames
<1>4. /\ \A b : Covered(b) => Covered(b)'
      /\ \A f : FrameStored(f) => FrameStored(f)'
      /\ \A m : PacketOK(m) => PacketOK(m)'
  BY <1>1, <1>2, StoredKept
<1>5. NetOK(Buffered, net)'
  <2> SUFFICES ASSUME NEW d \in Client
               PROVE  /\ IsSeq(net'[d])
                      /\ \A m \in ToSet(net'[d]) : PacketOK(m)' /\ SelfPacket(d, m)'
                      /\ Buffered'[d] <= Len(net'[d])
                      /\ conn'[d].st = "none" => net'[d] = << >>
    BY DEF NetOK, NetKept
  <2>1. CASE /\ ~ToSelf(d)' /\ IsSeq(net'[d]) /\ Buffered'[d] <= Len(net'[d])
             /\ \A m \in ToSet(net'[d]) : PacketOK(m)
    <3>1. \A m \in ToSet(net'[d]) : PacketOK(m)' /\ SelfPacket(d, m)'
      BY <1>4, <2>1 DEF SelfPacket
    <3> QED
      BY <2>1, <3>1 DEF NetKept
  <2>2. CASE net'[d] = nt[d] /\ Buffered'[d] = bs[d]
    <3>1. IsSeq(nt[d]) /\ bs[d] <= Len(nt[d]) /\ \A m \in ToSet(nt[d]) : PacketOK(m) /\ SelfPacket(d, m)
      BY DEF NetOK
    <3>2. ASSUME NEW m \in ToSet(nt[d]) PROVE SelfPacket(d, m)'
      <4>1. CASE conn[d].st = "none"
        BY <4>1, ElementsOfEmpty DEF NetOK
      <4>2. CASE conn[d].st # "none"
        BY <3>1, <4>2 DEF EndsKept, SelfPacket
      <4> QED
        BY <4>1, <4>2
    <3> QED
      BY <1>4, <2>2, <3>1, <3>2 DEF NetKept
  <2> QED
    BY <2>1, <2>2 DEF NetKept
<1>6. ASSUME NEW f \in Frames PROVE FrameLinked(f)'
  BY <1>1 DEF FramesInv, FrameLinked, EndsKept
<1>7. FramesInv'
  <2> SUFFICES ASSUME NEW f \in Frames'
               PROVE  FrameLinked(f)' /\ FrameTyped(f) /\ FrameStored(f)'
    BY DEF FramesInv, FrameTyped
  <2>1. CASE f \in Frames
    BY <2>1, <1>1, <1>4, <1>6 DEF FramesInv
  <2>2. CASE f \in F
    BY <2>2 DEF FrameStored, BlockCalls, BlockWork
  <2> QED
    BY <1>3, <2>1, <2>2
<1>8. DataInv'
  BY <1>1 DEF WireInv, DataInv, Stored
<1>9. KnownInv'
  BY <1>1, <1>2, <1>4 DEF WireInv, KnownInv, Stored, CacheOK
<1>10. QED
  BY <1>5, <1>7, <1>8, <1>9 DEF WireInv

\* A client keeps its connection, and an end of one to itself has not read more.
Lasts(d) ==
  /\ conn'[d].peer = conn[d].peer /\ conn'[d].todl = conn[d].todl
  /\ conn'[d].st = "none" <=> conn[d].st = "none"
  /\ ToSelf(d) \/ conn[d].st = "none" => conn'[d].got = conn[d].got

\* Connections break, or their handshake goes on.
LEMMA Loosen ==
  ASSUME ConnInv, SelfInv, \A d \in Client : Lasts(d),
         \A n \in nonce \ nonce' : n \in Client /\ conn[n].peer \notin Client
  PROVE  SelfInv' /\ EndsKept
<1>1. \A d \in Client : ToSelf(d)' => ToSelf(d)
  BY DEF ToSelf, Lasts
<1>2. SelfInv'
  BY <1>1 DEF SelfInv, ToSelf, Lasts
<1>3. ASSUME NEW d \in Client, ToSelf(d)'
      PROVE  /\ conn[d].peer \in nonce => conn[d].peer \in nonce'
             /\ d \in nonce => d \in nonce'
  BY <1>1, <1>3 DEF ConnInv, Paired, ToSelf
<1>4. QED
  BY <1>1, <1>2, <1>3 DEF EndsKept, Lasts

\* What a step changes in one client.
LEMMA Closing ==
  ASSUME ConnInv, NEW c \in Client, conn' = [conn EXCEPT ![c].st = "closing"]
  PROVE  \A d \in Client :
            /\ conn'[d].peer = conn[d].peer /\ conn'[d].todl = conn[d].todl
            /\ conn'[d].got = conn[d].got
            /\ conn'[d].st = IF d = c THEN "closing" ELSE conn[d].st
<1>1. PICK T : conn \in [Client -> ClientIn(T)]
  BY DEF ConnInv, ConnShape
<1>2. QED
  BY <1>1 DEF ClientIn

LEMMA Accepted ==
  ASSUME ConnInv, NEW c \in Client, conn' = [conn EXCEPT ![c].st = "up"]
  PROVE  \A d \in Client :
            /\ conn'[d].peer = conn[d].peer /\ conn'[d].todl = conn[d].todl
            /\ conn'[d].got = conn[d].got
            /\ conn'[d].st = IF d = c THEN "up" ELSE conn[d].st
<1>1. PICK T : conn \in [Client -> ClientIn(T)]
  BY DEF ConnInv, ConnShape
<1>2. QED
  BY <1>1 DEF ClientIn

LEMMA VersionGot ==
  ASSUME ConnInv, NEW c \in Client,
         \/ conn' = [conn EXCEPT ![c].got = TRUE]
         \/ conn' = [conn EXCEPT ![c].got = TRUE, ![c].sent = TRUE]
  PROVE  \A d \in Client :
            /\ conn'[d].peer = conn[d].peer /\ conn'[d].todl = conn[d].todl
            /\ conn'[d].st = conn[d].st
            /\ d # c => conn'[d].got = conn[d].got
<1>1. PICK T : conn \in [Client -> ClientIn(T)]
  BY DEF ConnInv, ConnShape
<1>2. CASE conn' = [conn EXCEPT ![c].got = TRUE]
  <2>1. \A d \in Client \ {c} : conn'[d] = conn[d]
    BY <1>1, <1>2
  <2>2. conn'[c] = [conn[c] EXCEPT !.got = TRUE]
    BY <1>1, <1>2
  <2>3. DOMAIN conn[c] = {"st", "peer", "out", "sent", "got", "todl"}
    BY <1>1 DEF ClientIn
  <2>4. conn'[c].peer = conn[c].peer /\ conn'[c].todl = conn[c].todl /\ conn'[c].st = conn[c].st
    BY <2>2, <2>3
  <2> QED
    BY <2>1, <2>4
<1>3. CASE conn' = [conn EXCEPT ![c].got = TRUE, ![c].sent = TRUE]
  BY <1>1, <1>3, ZenonT(60) DEF ClientIn
<1>4. QED
  BY <1>2, <1>3

\* Connections break, or their handshake goes on, as a packet is read.
LEMMA LoosenWire ==
  ASSUME ConnectorInv, WireInv, UNCHANGED << cache, queue, storeVars >>, NetOK(Buffered', net'),
         \A d \in Client : Lasts(d),
         \A n \in nonce \ nonce' : n \in Client /\ conn[n].peer \notin Client,
         NEW F, Moves(F),
         \A f \in F : /\ f.c \in Client /\ FrameLinked(f)' /\ FrameTyped(f)
                      /\ f.at \notin BlockCalls /\ ~f.done /\ f.ans = {}
  PROVE  WireInv'
<1>1. SelfInv' /\ EndsKept
  BY Loosen DEF ConnectorInv, WireInv
<1>2. PICK nt : nt = net'
  OBVIOUS
<1>3. PICK bs : bs = Buffered'
  OBVIOUS
<1>4. NetOK(bs, nt) /\ NetKept(bs, nt)
  BY <1>2, <1>3 DEF NetOK, NetKept, Lasts
<1>5. \A f \in Frames : conn'[f.c].st # "none"
  <2>1. \A f \in Frames : f.c \in Client
    BY DEF ConnectorInv, HandlersInv, StackOK, FrameOK, Frames, ToSet
  <2> QED
    BY <2>1 DEF WireInv, FramesInv, FrameLinked, Lasts
<1>6. /\ \A c \in Client : conn'[c].todl \in Seq(Block)
      /\ view' \subseteq Stored /\ UNCHANGED << cache, queue, db, lost >>
  BY DEF WireInv, DataInv, storeVars, Lasts
<1>7. QED
  BY <1>1, <1>4, <1>5, <1>6, LinkStep

LEMMA LinkLossWire ==
  ASSUME ConnectorInv, WireInv, NEW c \in Client, LinkLoss(c) \/ PeerClosed(c)
  PROVE  WireInv'
<1>1. /\ conn[c].st = "up" /\ conn' = [conn EXCEPT ![c].st = "closing"]
      /\ UNCHANGED << bufs, cache, queue, storeVars, net, nonce, stack >>
  BY DEF LinkLoss, PeerClosed, Up
<1>2. \A d \in Client : Lasts(d)
  BY <1>1, Closing DEF ConnectorInv, Lasts
<1>3. NetOK(Buffered', net')
  BY <1>1, NetStays
<1>4. Moves({}) /\ nonce \ nonce' = {}
  BY <1>1 DEF Moves
<1>5. QED
  BY <1>1, <1>2, <1>3, <1>4, LoosenWire

LEMMA VerackWire ==
  ASSUME ConnectorInv, WireInv, NEW c \in Client, Verack(c)
  PROVE  WireInv'
<1>1. /\ Packet(c, "verack") /\ net' = Took(c) /\ nonce' = nonce \ {c}
      /\ UNCHANGED << conn, cache, queue, storeVars, stack >>
  BY DEF Verack, peerVars
<1>2. NetOK(Buffered', net') /\ ~ToSelf(c)
  BY <1>1, TookOK DEF SelfPacket
<1>3. \A n \in nonce \ nonce' : n \in Client /\ conn[n].peer \notin Client
  BY <1>1, <1>2 DEF ToSelf
<1>4. Moves({}) /\ \A d \in Client : Lasts(d)
  BY <1>1 DEF Moves, Lasts
<1>5. QED
  BY <1>1, <1>2, <1>3, <1>4, LoosenWire

\* A version that is not from the daemon itself.
LEMMA VersionWire ==
  ASSUME ConnectorInv, WireInv, NEW c \in Client, Version(c)
  PROVE  WireInv'
<1>1. Packet(c, "version") /\ UNCHANGED << cache, queue, storeVars >>
  BY DEF Version
<1>2. NetOK(Buffered', Took(c)) /\ conn[c].st # "none" /\ SelfPacket(c, Head(net[c]))
      /\ Head(net[c]).type = "version"
  BY <1>1, TookOK
<1>3. Xs(c)[1] \notin nonce => ~ToSelf(c)
  BY <1>2 DEF SelfPacket, Xs
<1>4. CASE /\ conn' = [conn EXCEPT ![c].st = "closing"]
           /\ net' = Took(c) /\ UNCHANGED << nonce, stack >>
  <2>1. \A d \in Client : Lasts(d)
    BY <1>2, <1>4, Closing DEF ConnectorInv, Lasts
  <2>2. Moves({}) /\ NetOK(Buffered', net') /\ nonce \ nonce' = {}
    BY <1>2, <1>4 DEF Moves
  <2> QED
    BY <1>1, <2>1, <2>2, LoosenWire
<1>5. ASSUME Xs(c)[1] \notin nonce,
             \/ conn' = [conn EXCEPT ![c].got = TRUE]
             \/ conn' = [conn EXCEPT ![c].got = TRUE, ![c].sent = TRUE]
      PROVE  /\ ~ToSelf(c) /\ conn'[c].st # "none" /\ (ToSelf(c)' => ToSelf(c))
             /\ \A d \in Client : Lasts(d)
  BY <1>2, <1>3, <1>5, VersionGot DEF ConnectorInv, ToSelf, Lasts
<1>6. CASE /\ Xs(c)[1] \notin nonce /\ conn' = [conn EXCEPT ![c].got = TRUE]
           /\ net' = Sent(Took(c), c, << Msg("verack", << >>) >>)
           /\ UNCHANGED << nonce, stack >>
  <2> DEFINE m == Msg("verack", << >>)
             ms == << m >>
  <2>1. PacketOK(m) /\ ~ToSelf(c) /\ IsSeq(ms) /\ ToSet(ms) = {m}
    BY <1>5, <1>6, OtherPacket, ElementsOfOne
  <2>2. net' = Sent(Took(c), c, ms)
    BY <1>6
  <2> HIDE DEF m, ms
  <2>3. NetOK(Buffered', net')
    BY <1>2, <2>1, <2>2, SentOK DEF ConnectorInv
  <2>4. Moves({}) /\ nonce \ nonce' = {}
    BY <1>6 DEF Moves
  <2> QED
    BY <1>1, <1>5, <1>6, <2>3, <2>4, LoosenWire
<1>7. CASE /\ Xs(c)[1] \notin nonce
           /\ conn' = [conn EXCEPT ![c].got = TRUE, ![c].sent = TRUE]
           /\ net' = Took(c) /\ RegisterNonce(c)
           /\ stack' = Append(stack, Handler(c, "height", None))
  <2>1. PICK g : g = Frame(c, "packet", "height", None)
    OBVIOUS
  <2>2. g.c = c /\ g.at = "height" /\ ~g.done /\ g.ans = {}
    BY <2>1, FrameIs
  <2>3. FrameLinked(g)'
    BY <1>5, <1>7, <2>2 DEF FrameLinked
  <2>4. FrameTyped(g) /\ g.at \notin BlockCalls
    BY <2>2 DEF FrameTyped, BlockCalls, BlockWork, TxCalls, ListCalls
  <2>5. Moves({g}) /\ nonce \ nonce' = {} /\ NetOK(Buffered', net')
    BY <1>2, <1>7, <2>1 DEF Moves, RegisterNonce, Handler
  <2> QED
    BY <1>1, <1>5, <1>7, <2>2, <2>3, <2>4, <2>5, LoosenWire
<1>8. QED
  BY <1>4, <1>6, <1>7 DEF Version

\* The handlers are of clients that are not deleted.
LEMMA FramesLive ==
  ASSUME ConnectorInv, WireInv
  PROVE  \A f \in Frames : f.c \in Client /\ conn[f.c].st # "none"
<1>1. \A f \in Frames : f.c \in Client
  BY DEF ConnectorInv, HandlersInv, StackOK, FrameOK, Frames, ToSet
<1>2. QED
  BY <1>1 DEF WireInv, FramesInv, FrameLinked

\* New clients: what was there stays.
LEMMA Joined ==
  ASSUME ConnectorInv, WireInv, UNCHANGED << cache, queue, storeVars >>, nonce \subseteq nonce',
         NEW N \in SUBSET Client, \A c \in N : conn[c].st = "none" /\ conn'[c].st # "none",
         \A c \in Client \ N : conn'[c] = conn[c],
         \A c \in N : conn'[c].todl = << >> /\ ~conn'[c].got,
         NetKept(Buffered, net),
         NEW F, Moves(F),
         \A f \in F : /\ f.c \in Client /\ FrameLinked(f)' /\ FrameTyped(f)
                      /\ f.at \notin BlockCalls /\ ~f.done /\ f.ans = {}
  PROVE  WireInv'
<1>1. \A d \in Client \ N : ToSelf(d)' <=> ToSelf(d)
  BY DEF ToSelf
<1>2. SelfInv'
  BY <1>1 DEF WireInv, SelfInv, ToSelf
<1>3. EndsKept
  BY <1>1 DEF EndsKept
<1>4. \A f \in Frames : conn'[f.c].st # "none"
  BY FramesLive
<1>5. \A c \in Client : conn'[c].todl \in Seq(Block)
  <2>1. << >> \in Seq(Block)
    BY NoItems
  <2> QED
    BY <2>1, ZenonT(60) DEF WireInv, DataInv
<1>6. PICK bs : bs = Buffered
  OBVIOUS
<1>7. /\ NetOK(bs, net) /\ NetKept(bs, net) /\ view' \subseteq Stored
      /\ UNCHANGED << cache, queue, db, lost >>
  BY <1>6 DEF WireInv, DataInv, storeVars
<1>8. QED
  BY <1>2, <1>3, <1>4, <1>5, <1>7, LinkStep

LEMMA OutgoingWire ==
  ASSUME ConnectorInv, WireInv, NEW c \in Client, NEW a \in {Node, Self}, OutgoingTcp(c, a)
  PROVE  WireInv'
<1>1. /\ c \in Free /\ conn[c].st = "none" /\ nonce' = nonce \cup {c}
      /\ UNCHANGED << bufs, net, cache, queue, storeVars >>
      /\ stack' = Append(stack, Frame(c, "out", "height", None))
  BY DEF OutgoingTcp, First, Free, RegisterNonce
<1>2. DOMAIN conn = Client
  BY DEF ConnectorInv, ConnInv, ConnShape
<1>3. PICK g : g = Frame(c, "out", "height", None)
  OBVIOUS
<1>4. g.c = c /\ g.job = "out" /\ g.at = "height" /\ ~g.done /\ g.ans = {}
  BY <1>3, FrameIs
<1>5. FrameTyped(g) /\ g.at \notin BlockCalls
  BY <1>4 DEF FrameTyped, BlockCalls, BlockWork, TxCalls, ListCalls
<1>6. ASSUME conn'[c].st # "none" PROVE FrameLinked(g)'
  BY <1>1, <1>4, <1>6 DEF FrameLinked
<1>7. Moves({g})
  BY <1>1, <1>3 DEF Moves
<1>8. /\ DOMAIN net = Client /\ \A d \in Client : conn[d].st = "none" => net[d] = << >>
      /\ Buffered' = Buffered /\ Buffered' \in [Client -> Nat]
  BY <1>1, NetStays DEF WireInv, NetOK
<1>9. CASE conn' = [conn EXCEPT ![c] = NewPeer(Node, TRUE)]
  <2>1. PICK p : p = NewPeer(Node, TRUE)
    OBVIOUS
  <2>2. p.st = "up" /\ p.peer = Node /\ ~p.got /\ p.todl = << >>
    BY <2>1 DEF NewPeer, NoClient
  <2>3. conn'[c] = p /\ \A d \in Client \ {c} : conn'[d] = conn[d]
    BY <1>2, <1>9, <2>1
  <2>4. NetKept(Buffered, net)
    BY <1>1, <1>8, <2>2, <2>3 DEF NetKept
  <2> DEFINE N == {c}
  <2>5. /\ \A d \in N : conn[d].st = "none" /\ conn'[d].st # "none"
        /\ \A d \in Client \ N : conn'[d] = conn[d]
        /\ \A d \in N : conn'[d].todl = << >> /\ ~conn'[d].got
        /\ N \in SUBSET Client
    BY <1>1, <2>2, <2>3
  <2> HIDE DEF N
  <2>6. FrameLinked(g)'
    BY <1>6, <2>2, <2>3
  <2> QED
    BY <1>1, <1>4, <1>5, <1>7, <2>4, <2>5, <2>6, Joined
<1>10. ASSUME NEW d \in Client, First(d, Free \ {c}),
              conn' = [conn EXCEPT ![c] = NewPeer(d, TRUE),
                                   ![d] = [NewPeer(c, FALSE) EXCEPT !.st = "accept"]]
       PROVE  WireInv'
  <2>1. PICK p : p = NewPeer(d, TRUE)
    OBVIOUS
  <2>2. PICK q : q = [NewPeer(c, FALSE) EXCEPT !.st = "accept"]
    OBVIOUS
  <2>3. /\ p.st = "up" /\ p.peer = d /\ ~p.got /\ p.todl = << >>
        /\ q.st = "accept" /\ q.peer = c /\ ~q.got /\ q.todl = << >>
    BY <2>1, <2>2 DEF NewPeer, NoClient
  <2>4. d # c /\ conn[d].st = "none"
    BY <1>10 DEF First, Free
  <2>5. /\ conn'[c] = p /\ conn'[d] = q
        /\ \A e \in Client \ {c, d} : conn'[e] = conn[e]
    BY <1>2, <1>10, <2>1, <2>2, <2>4
  <2>6. NetKept(Buffered, net)
    BY <1>1, <1>8, <2>3, <2>4, <2>5 DEF NetKept
  <2> DEFINE N == {c, d}
  <2>7. /\ \A e \in N : conn[e].st = "none" /\ conn'[e].st # "none"
        /\ \A e \in Client \ N : conn'[e] = conn[e]
        /\ \A e \in N : conn'[e].todl = << >> /\ ~conn'[e].got
        /\ N \in SUBSET Client
    BY <1>1, <2>3, <2>4, <2>5
  <2> HIDE DEF N
  <2>8. FrameLinked(g)'
    BY <1>6, <2>3, <2>5
  <2> QED
    BY <1>1, <1>4, <1>5, <1>7, <2>6, <2>7, <2>8, Joined, ZenonT(60)
<1>11. QED
  BY <1>9, <1>10 DEF OutgoingTcp

LEMMA IncomingWire ==
  ASSUME ConnectorInv, WireInv, NEW c \in Client, IncomingTcp(c)
  PROVE  WireInv'
<1>1. UNCHANGED << bufs, nonce, stack, cache, queue, storeVars >> /\ Moves({})
  BY DEF IncomingTcp, Moves
<1>2. CASE conn[c].st = "accept" /\ conn' = [conn EXCEPT ![c].st = "up"] /\ UNCHANGED net
  <2>1. \A d \in Client : Lasts(d)
    BY <1>2, Accepted DEF ConnectorInv, Lasts
  <2>2. NetOK(Buffered', net') /\ nonce \ nonce' = {}
    BY <1>1, <1>2, NetStays
  <2> QED
    BY <1>1, <2>1, <2>2, LoosenWire
<1>3. CASE /\ First(c, Free) /\ conn' = [conn EXCEPT ![c] = NewPeer(Node, FALSE)]
           /\ net' = [net EXCEPT ![c] = << Msg("version", << Node >>) >>]
  <2>1. PICK p : p = NewPeer(Node, FALSE)
    OBVIOUS
  <2>2. p.st = "up" /\ p.peer = Node /\ ~p.got /\ p.todl = << >>
    BY <2>1 DEF NewPeer, NoClient
  <2>3. conn[c].st = "none" /\ DOMAIN conn = Client
    BY <1>3 DEF First, Free, ConnectorInv, ConnInv, ConnShape
  <2>4. conn'[c] = p /\ \A d \in Client \ {c} : conn'[d] = conn[d]
    BY <1>3, <2>1, <2>3
  <2>5. NetKept(Buffered, net)
    <3> DEFINE m == Msg("version", << Node >>)
               s == << m >>
    <3>1. IsSeq(s) /\ ToSet(s) = {m} /\ PacketOK(m) /\ Len(s) = 1
      BY ElementsOfOne, OtherPacket
    <3>2. /\ DOMAIN net = Client /\ \A d \in Client : conn[d].st = "none" => net[d] = << >>
          /\ Buffered' = Buffered /\ Buffered' \in [Client -> Nat]
      BY <1>1, NetStays DEF WireInv, NetOK
    <3>5. Buffered[c] = 0
      BY <2>3 DEF ConnectorInv, BufInv, Buffered
    <3>3. /\ DOMAIN net' = Client /\ net'[c] = s
          /\ \A d \in Client \ {c} : net'[d] = net[d]
      BY <1>3, <3>2
    <3> HIDE DEF s, m
    <3>4. ~ToSelf(c)' /\ conn'[c].st # "none"
      BY <2>2, <2>4, ConnectorAssumption DEF ToSelf
    <3> QED
      BY <2>4, <3>1, <3>2, <3>3, <3>4, <3>5 DEF NetKept
  <2> DEFINE N == {c}
  <2>6. /\ \A d \in N : conn[d].st = "none" /\ conn'[d].st # "none"
        /\ \A d \in Client \ N : conn'[d] = conn[d]
        /\ \A d \in N : conn'[d].todl = << >> /\ ~conn'[d].got
        /\ N \in SUBSET Client
    BY <2>2, <2>3, <2>4
  <2> HIDE DEF N
  <2> QED
    BY <1>1, <2>5, <2>6, Joined
<1>4. QED
  BY <1>2, <1>3 DEF IncomingTcp

\* The packets of a client whose other end is gone.
LEMMA OrphanedOK ==
  ASSUME NEW s, IsSeq(s), \A m \in ToSet(s) : PacketOK(m), NEW c
  PROVE  /\ IsSeq(Orphaned(s, c)) /\ Len(Orphaned(s, c)) = Len(s)
         /\ \A m \in ToSet(Orphaned(s, c)) : PacketOK(m)
<1> DEFINE n == Len(s)
           w == Msg("version", << None >>)
           f == Orphaned(s, c)
<1>1. n \in Nat /\ DOMAIN s = 1 .. n
  BY LenProperties DEF IsSeq
<1>2. PacketOK(w)
  BY OtherPacket
<1>3. DOMAIN f = 1 .. n /\ \A i \in 1 .. n : f[i] = w \/ f[i] = s[i]
  BY <1>1 DEF Orphaned
<1>4. f \in [1 .. n -> ToSet(f)]
  BY <1>3 DEF ToSet, Orphaned
<1> HIDE DEF f, w
<1>5. IsSeq(f) /\ Len(f) = n
  BY <1>1, <1>4, FunctionIsSeq DEF IsSeq
<1>6. \A m \in ToSet(f) : PacketOK(m)
  BY <1>1, <1>2, <1>3 DEF ToSet
<1>7. QED
  BY <1>5, <1>6 DEF f

\* The other end of a connection to itself lives on, with what is under way to it.
LEMMA DeleteWire ==
  ASSUME ConnectorInv, WireInv, NEW c \in Client, Delete(c)
  PROVE  WireInv'
<1> DEFINE d == conn[c].peer
<1>1. /\ nonce' = nonce \ {c} /\ \A f \in Frames : f.c # c
      /\ UNCHANGED << stack, cache, queue, storeVars >>
  BY DEF Delete, Frames
<1>2. /\ None \notin Client /\ c # None
      /\ d \in Client => d # c /\ conn[d].peer = c
      /\ \A e \in Client : conn[e].peer = c => e = d
      /\ \A e \in Client : conn[e].st = "none" => conn[e].peer = None
  BY ConnectorAssumption DEF ConnectorInv, ConnInv, Paired
<1>3. /\ conn'[c].st = "none" /\ conn'[c].peer = None /\ ~conn'[c].got /\ conn'[c].todl = << >>
      /\ \A e \in Client \ {c} :
            /\ conn'[e].st = conn[e].st /\ conn'[e].got = conn[e].got
            /\ conn'[e].todl = conn[e].todl
            /\ conn'[e].peer = IF e = d THEN None ELSE conn[e].peer
  BY GoneFields DEF Delete, NoClient, ConnectorInv
<1>4. /\ DOMAIN net' = Client /\ net'[c] = << >>
      /\ \A e \in Client \ {c} : net'[e] = IF e = d THEN Orphaned(net[e], c) ELSE net[e]
  <2>1. DOMAIN net = Client
    BY DEF WireInv, NetOK
  <2>2. net' = IF d \in Client
               THEN [[net EXCEPT ![c] = << >>] EXCEPT ![d] = Orphaned(@, c)]
               ELSE [net EXCEPT ![c] = << >>]
    BY DEF Delete, Gone
  <2> QED
    BY <1>2, <2>1, <2>2
<1>5. /\ Buffered' \in [Client -> Nat] /\ Buffered'[c] = 0
      /\ \A e \in Client \ {c} : Buffered'[e] = Buffered[e]
  <2>1. BufInv'
    BY ConnDelete, BufDelete DEF ConnectorInv
  <2>2. taken' = taken /\ held' = [held EXCEPT ![c] = 0]
    BY DEF Delete, Gone
  <2>3. \A e \in Client : taken'[e] \in Nat /\ held'[e] \in Nat
    BY <2>1 DEF BufInv
  <2>4. taken'[c] = 0 /\ held'[c] = 0
    BY <1>3, <2>1 DEF BufInv
  <2>5. \A e \in Client \ {c} : taken'[e] = taken[e] /\ held'[e] = held[e]
    BY <2>2 DEF ConnectorInv, BufInv
  <2> QED
    BY <2>3, <2>4, <2>5 DEF Buffered
<1> HIDE DEF d
<1>6. \A e \in Client : ToSelf(e)' => ToSelf(e) /\ e # c /\ e # d /\ conn'[e].peer = conn[e].peer
  BY <1>2, <1>3 DEF ToSelf
<1>7. SelfInv'
  BY <1>3, <1>6 DEF WireInv, SelfInv
<1>8. EndsKept
  BY <1>1, <1>2, <1>6 DEF EndsKept
<1>9. NetKept(Buffered, net)
  <2> SUFFICES ASSUME NEW e \in Client
               PROVE  /\ \/ net'[e] = net[e] /\ Buffered'[e] = Buffered[e]
                         \/ /\ ~ToSelf(e)' /\ IsSeq(net'[e]) /\ Buffered'[e] <= Len(net'[e])
                            /\ \A m \in ToSet(net'[e]) : PacketOK(m)
                      /\ conn'[e].st = "none" => net'[e] = << >>
    BY <1>4, <1>5 DEF NetKept
  <2>1. CASE e = c
    <3> DEFINE s == << >>
    <3>1. IsSeq(s) /\ ToSet(s) = {} /\ Len(s) = 0
      BY ElementsOfEmpty, EmptySeq
    <3>2. net'[e] = s
      BY <1>4, <2>1
    <3> HIDE DEF s
    <3>3. ~ToSelf(e)' /\ IsSeq(net'[e]) /\ Buffered'[e] <= Len(net'[e])
      BY <1>5, <1>6, <2>1, <3>1, <3>2
    <3> QED
      BY <1>4, <2>1, <3>1, <3>2, <3>3
  <2>2. CASE e # c /\ e = d
    <3>1. IsSeq(net[e]) /\ (\A m \in ToSet(net[e]) : PacketOK(m)) /\ Buffered[e] <= Len(net[e])
      BY DEF WireInv, NetOK
    <3>2. net'[e] = Orphaned(net[e], c) /\ Buffered'[e] = Buffered[e]
      BY <1>4, <1>5, <2>2
    <3>3. conn'[e].st # "none" /\ ~ToSelf(e)'
      BY <1>2, <1>3, <1>6, <2>2
    <3> QED
      BY <3>1, <3>2, <3>3, OrphanedOK
  <2>3. CASE e # c /\ e # d
    BY <1>3, <1>4, <1>5, <2>3 DEF WireInv, NetOK
  <2> QED
    BY <2>1, <2>2, <2>3
<1>10. \A f \in Frames : conn'[f.c].st # "none"
  BY <1>1, <1>3, FramesLive
<1>11. \A e \in Client : conn'[e].todl \in Seq(Block)
  BY <1>3, NoItems DEF WireInv, DataInv
<1>12. PICK bs : bs = Buffered
  OBVIOUS
<1>13. /\ UNCHANGED << cache, queue, db, lost >> /\ view' \subseteq Stored
       /\ NetOK(bs, net) /\ NetKept(bs, net) /\ Moves({})
  BY <1>1, <1>9, <1>12 DEF WireInv, DataInv, storeVars, Moves
<1>14. QED
  BY <1>7, <1>8, <1>10, <1>11, <1>13, LinkStep

-----------------------------------------------------------------------------
(* The database                                                             *)

\* A step that touches none of what the invariant is about, but for the refreshed index.
LEMMA QuietWire ==
  ASSUME WireInv, UNCHANGED << bufs, conn, net, nonce, stack, cache, queue, db, lost >>,
         view' \subseteq Stored
  PROVE  WireInv'
<1>1. Stored' = Stored /\ Frames' = Frames
  BY DEF Stored, Frames
<1>2. Safe' = Safe /\ Kept' = Kept
  BY <1>1 DEF Safe, Kept
<1>3. /\ \A b : Covered(b)' <=> Covered(b)
      /\ \A f : FrameStored(f)' <=> FrameStored(f)
      /\ \A m : PacketOK(m)' <=> PacketOK(m)
  <2>1. \A b, t : CoveredTx(b, t)' <=> CoveredTx(b, t)
    BY <1>2 DEF CoveredTx
  <2>2. \A b : Covered(b)' <=> Covered(b)
    BY <2>1 DEF Covered
  <2> QED
    BY <1>2, <2>1, <2>2 DEF FrameStored, PacketOK
<1>4. Buffered' = Buffered /\ \A c \in Client : ToSelf(c)' <=> ToSelf(c)
  BY NetStays DEF ToSelf
<1>5. SelfInv'
  BY <1>4 DEF WireInv, SelfInv
<1>6. \A c \in Client : \A m : SelfPacket(c, m)' <=> SelfPacket(c, m)
  BY <1>4 DEF SelfPacket
<1>7. NetOK(Buffered, net)'
  BY <1>3, <1>4, <1>6 DEF WireInv, NetOK
<1>8. FramesInv'
  <2>1. \A f : FrameLinked(f)' <=> FrameLinked(f)
    BY DEF FrameLinked, ToSelf
  <2> QED
    BY <1>1, <1>3, <2>1 DEF WireInv, FramesInv, FrameTyped
<1>9. DataInv' /\ KnownInv'
  BY <1>1, <1>2, <1>3 DEF WireInv, DataInv, KnownInv, CacheOK
<1>10. QED
  BY <1>5, <1>7, <1>8, <1>9 DEF WireInv

LEMMA RefreshWire ==
  ASSUME ConnectorInv, WireInv, Reload \/ Refresh
  PROVE  WireInv'
<1>1. UNCHANGED << bufs, conn, net, nonce, stack, cache, queue, db, lost >>
  BY DEF Reload, Refresh, peerVars, storeVars
<1>2. view' \subseteq Stored
  BY DEF Reload, Refresh, storeVars, WireInv, DataInv
<1>3. QED
  BY <1>1, <1>2, QuietWire

\* A call of handler f ends: f becomes g.  What it was storing is stored, or lost.
LEMMA ReplyStep ==
  ASSUME ConnectorInv, WireInv, UNCHANGED << bufs, conn, net, nonce, cache, queue, view >>,
         NEW i \in DOMAIN stack, ~stack[i].done, NEW ans, Reply(i, ans),
         Kept \subseteq Kept', Storing(stack[i]) \subseteq Kept', db.tx \subseteq db'.tx,
         db'.tx \subseteq Tx, Stored \subseteq Stored',
         \A b \in Stored' : b \in Stored \/ Covered(b),
         stack[i].at = "last" /\ ans # {} => \E b \in Block : ans = {b},
         stack[i].at \in {"txknows", "fetch"} => ans \subseteq {Head(stack[i].rest)} \cap db'.tx
  PROVE  WireInv'
<1>1. PICK f : f = stack[i]
  OBVIOUS
<1>2. PICK g : g = [f EXCEPT !.done = TRUE, !.ans = ans]
  OBVIOUS
<1>3. IsSeq(stack) /\ DOMAIN f = FrameFields /\ f.c \in Client /\ f \in Frames
  BY <1>1 DEF ConnectorInv, HandlersInv, StackOK, FrameOK, Frames, ToSet
<1>4. /\ g.c = f.c /\ g.job = f.job /\ g.at = f.at /\ g.item = f.item
      /\ g.rest = f.rest /\ g.got = f.got /\ g.done /\ g.ans = ans
  BY <1>2, <1>3 DEF FrameFields
<1>5. stack' = [stack EXCEPT ![i] = g]
  BY <1>1, <1>2 DEF Reply
<1>6. /\ Frames' \subseteq Frames \cup {g} /\ Frames \subseteq Frames' \cup {f}
      /\ Len(stack') = Len(stack)
  <2>1. DOMAIN stack = 1 .. Len(stack)
    BY <1>3, AppendIsSeq
  <2> QED
    BY <1>1, <1>3, <1>5, <2>1, ElementsOfExcept, ExceptIsSeq DEF Frames
<1>7. Safe \subseteq Safe'
  BY <1>1, <1>6 DEF Safe
<1>8. /\ \A b : Covered(b) => Covered(b)'
      /\ \A h : FrameStored(h) => FrameStored(h)'
      /\ \A m : PacketOK(m) => PacketOK(m)'
  BY <1>7, StoredKept
<1>9. /\ SelfInv' /\ NetOK(Buffered, net)'
      /\ \A h : h.c \in Client => (FrameLinked(h) => FrameLinked(h)')
  <2>1. Calm /\ SelfInv /\ NetOK(Buffered', net')
    BY NetStays DEF Calm, WireInv
  <2> QED
    BY <1>8, <2>1, CalmKept
<1>10. FrameLinked(f) /\ FrameTyped(f) /\ FrameStored(f)
  BY <1>3 DEF WireInv, FramesInv
<1>11. FrameLinked(g)'
  BY <1>3, <1>4, <1>9, <1>10 DEF FrameLinked
<1>12. FrameTyped(g)
  BY <1>1, <1>4, <1>10 DEF FrameTyped
<1>13. FrameStored(g)'
  <2>1. FrameStored(f)'
    BY <1>8, <1>10
  <2>2. Storing(g) = Storing(f)
    BY <1>4 DEF Storing
  <2> QED
    BY <1>1, <1>4, <2>1, <2>2 DEF FrameStored
<1>14. FramesInv'
  <2> SUFFICES ASSUME NEW h \in Frames'
               PROVE  FrameLinked(h)' /\ FrameTyped(h) /\ FrameStored(h)'
    BY DEF FramesInv, FrameTyped
  <2>1. CASE h \in Frames
    <3>1. h.c \in Client
      BY <2>1, FramesLive
    <3> QED
      BY <2>1, <3>1, <1>8, <1>9 DEF WireInv, FramesInv
  <2>2. CASE h = g
    BY <2>2, <1>11, <1>12, <1>13
  <2> QED
    BY <1>6, <2>1, <2>2
<1>15. DataInv'
  BY <1>6 DEF WireInv, DataInv
<1>16. KnownInv'
  <2>1. CacheOK(cache') /\ cache' \cup ToSet(queue') \subseteq Safe'
    BY <1>7 DEF WireInv, KnownInv
  <2>2. \A b \in Stored' \cup (cache' \cap Block) : Covered(b)'
    BY <1>8 DEF WireInv, KnownInv
  <2> QED
    BY <2>1, <2>2 DEF KnownInv, CacheOK
<1>17. QED
  BY <1>9, <1>14, <1>15, <1>16 DEF WireInv

LEMMA AnswerWire ==
  ASSUME ConnectorInv, WireInv, NEW i \in DOMAIN stack, Answer(i)
  PROVE  WireInv'
<1> DEFINE f == stack[i]
<1>1. /\ ~f.done /\ db' = Indexed(f)
      /\ UNCHANGED << bufs, conn, net, nonce, cache, queue, view, lost >>
  BY DEF Answer, peerVars
<1>2. PICK ans \in Found(f) : Reply(i, ans)
  BY DEF Answer
<1>3. FrameTyped(f) /\ FrameStored(f) /\ FrameOK(f)
  BY DEF WireInv, FramesInv, Frames, ToSet, ConnectorInv, HandlersInv, StackOK
<1>4. DOMAIN db = {"depth", "tx", "link"} /\ db.tx \subseteq Tx /\ view \subseteq Block
  BY DEF ConnectorInv, HandlersInv, DepthsOK, WireInv, DataInv
<1>5. f.at = "last" /\ ans # {} => \E b \in Block : ans = {b}
  BY <1>2, <1>4 DEF Found, Tallest
<1>6. f.at \in {"txknows", "fetch"} => ans \subseteq {Head(f.rest)} \cap db.tx
  BY <1>2 DEF Found
<1> HIDE DEF f
<1>7. CASE f.at = "store"
  <2>1. /\ db'.tx = db.tx /\ db'.link = db.link
        /\ DOMAIN db'.depth = Stored \cup {f.item}
    BY <1>1, <1>4, <1>7 DEF Indexed
  <2>2. Stored' = Stored \cup {f.item} /\ Storing(f) = {f.item}
    BY <1>7, <2>1 DEF Stored, Storing
  <2>3. Kept' = Kept \cup {f.item}
    BY <1>1, <2>1, <2>2 DEF Kept
  <2>4. Covered(f.item)
    BY <1>3, <1>7, ElementsOfEmpty DEF FrameStored, Covered, BlockCalls, BlockWork
  <2> QED
    BY <1>1, <1>2, <1>4, <1>5, <1>7, <2>1, <2>2, <2>3, <2>4, ReplyStep DEF f
<1>8. CASE f.at \in {"txstore", "txput"}
  <2> DEFINE x == Head(f.rest)
  <2>1. db' = [db EXCEPT !.tx = @ \cup {x}] /\ Storing(f) = {x}
    BY <1>1, <1>8 DEF Indexed, Storing
  <2>2. x \in Tx
    <3>1. f.rest \in Seq(Tx) /\ f.rest # << >>
      BY <1>3, <1>8 DEF FrameTyped, TxCalls
    <3> QED
      BY <3>1, HeadTailProperties
  <2> HIDE DEF x
  <2>3. db'.tx = db.tx \cup {x} /\ db'.link = db.link /\ db'.depth = db.depth
    BY <1>4, <2>1
  <2>4. Stored' = Stored
    BY <2>3 DEF Stored
  <2>5. Kept' = Kept \cup {x}
    BY <1>1, <2>3, <2>4 DEF Kept
  <2> QED
    BY <1>1, <1>2, <1>4, <1>5, <1>8, <2>1, <2>2, <2>3, <2>4, <2>5, ReplyStep DEF f
<1>9. CASE f.at = "blocktx"
  <2> DEFINE x == << f.item, Head(f.rest) >>
  <2>1. db' = [db EXCEPT !.link = @ \cup {x}] /\ Storing(f) = {x}
    BY <1>1, <1>9 DEF Indexed, Storing
  <2> HIDE DEF x
  <2>2. db'.tx = db.tx /\ db'.link = db.link \cup {x} /\ db'.depth = db.depth
    BY <1>4, <2>1
  <2>3. Stored' = Stored
    BY <2>2 DEF Stored
  <2>4. Kept' = Kept \cup {x}
    BY <1>1, <2>2, <2>3 DEF Kept
  <2> QED
    BY <1>1, <1>2, <1>4, <1>5, <1>9, <2>1, <2>2, <2>3, <2>4, ReplyStep DEF f
<1>10. CASE f.at \notin {"store", "txstore", "txput", "blocktx"}
  <2>1. db' = db /\ Storing(f) = {}
    BY <1>1, <1>10 DEF Indexed, Storing
  <2>2. Stored' = Stored
    BY <2>1 DEF Stored
  <2>3. Kept' = Kept
    BY <1>1, <2>1, <2>2 DEF Kept
  <2> QED
    BY <1>1, <1>2, <1>4, <1>5, <1>6, <2>1, <2>2, <2>3, ReplyStep DEF f
<1>11. QED
  BY <1>7, <1>8, <1>9, <1>10

LEMMA FailWire ==
  ASSUME ConnectorInv, WireInv, NEW i \in DOMAIN stack, Fail(i)
  PROVE  WireInv'
<1>1. /\ ~stack[i].done /\ Reply(i, {}) /\ lost' = lost \cup Storing(stack[i])
      /\ UNCHANGED << bufs, conn, net, nonce, cache, queue, view, db >>
  BY DEF Fail, peerVars
<1>2. Stored' = Stored
  BY <1>1 DEF Stored
<1>3. Kept' = Kept \cup Storing(stack[i])
  BY <1>1, <1>2 DEF Kept
<1>4. db.tx \subseteq Tx
  BY DEF WireInv, DataInv
<1>5. QED
  BY <1>1, <1>2, <1>3, <1>4, ReplyStep

-----------------------------------------------------------------------------
(* The theorems                                                             *)

LEMMA WireInit == Init => WireInv
<1> SUFFICES ASSUME Init PROVE WireInv
  OBVIOUS
<1>1. \A c \in Client : /\ conn[c].st = "none" /\ conn[c].todl = << >> /\ ~conn[c].got
                        /\ net[c] = << >>
  BY DEF Init, NoClient
<1>2. stack = << >> /\ queue = << >> /\ cache = {} /\ view = {} /\ db.tx = {}
  BY DEF Init
<1>3. Stored = {}
  <2>1. IsSeq(<< >>) /\ ToSet(<< >>) = {}
    BY ElementsOfEmpty
  <2> QED
    BY <2>1 DEF Init, Stored, ToSet
<1>4. SelfInv
  BY <1>1 DEF SelfInv
<1>5. NetOK(Buffered, net)
  <2> DEFINE s == << >>
  <2>1. IsSeq(s) /\ ToSet(s) = {} /\ Len(s) = 0
    BY ElementsOfEmpty, EmptySeq
  <2>2. DOMAIN net = Client /\ \A c \in Client : net[c] = s
    BY <1>1 DEF Init
  <2>3. Buffered \in [Client -> Nat] /\ \A c \in Client : Buffered[c] = 0
    BY DEF Init, Buffered
  <2> HIDE DEF s
  <2> QED
    BY <1>1, <2>1, <2>2, <2>3 DEF NetOK, s
<1>6. FramesInv
  BY <1>2, ElementsOfEmpty DEF FramesInv, Frames
<1>7. DataInv
  <2>1. << >> \in Seq(Block) /\ << >> \in Seq(Item)
    BY NoItems
  <2> QED
    BY <1>1, <1>2, <1>3, <2>1 DEF DataInv
<1>8. KnownInv
  <2>1. CacheOK({})
    BY FS_EmptySet, ConnectorAssumption DEF CacheOK
  <2> QED
    BY <1>2, <1>3, <2>1, ElementsOfEmpty DEF KnownInv
<1>9. QED
  BY <1>4, <1>5, <1>6, <1>7, <1>8 DEF WireInv

LEMMA WireNext ==
  ASSUME ConnectorInv, WireInv, [Next]_vars
  PROVE  WireInv'
<1>1. CASE UNCHANGED vars
  <2>1. /\ UNCHANGED << bufs, conn, net, nonce, stack, cache, queue, db, lost >>
        /\ view' \subseteq Stored
    BY <1>1 DEF vars, bufs, WireInv, DataInv
  <2> QED
    BY <2>1, QuietWire
<1>2. CASE Resume
  BY <1>2, SendVersionWire, InvNextWire, GetNextWire, FetchedWire, TxHasWire, TxPutWire,
     GotParentWire, GotKnowsWire, TxsWire, LinkedWire, AskNextWire, SendGetBlocksWire
     DEF Resume
<1>3. CASE Reload \/ SendQueuedInventory \/ Refresh
  BY <1>3, RefreshWire, QueuedWire
<1>4. CASE \E i \in DOMAIN stack : Answer(i) \/ Fail(i)
  BY <1>4, AnswerWire, FailWire
<1>5. ASSUME NEW c \in Client, Receive(c)
      PROVE  WireInv'
  BY <1>5, PingWire, VersionWire, VerackWire, ListWire, TxPacketWire, BlockPacketWire
     DEF Receive
<1>6. ASSUME NEW c \in Client,
             \/ Arrive(c) \/ Tick(c) \/ NodeTalks(c)
             \/ IncomingTcp(c) \/ LinkLoss(c) \/ PeerClosed(c) \/ Delete(c)
             \/ \E a \in {Node, Self} : OutgoingTcp(c, a)
      PROVE  WireInv'
  BY <1>6, ArriveWire, TickWire, IncomingWire, LinkLossWire, DeleteWire, NodeTalksWire, OutgoingWire
<1>7. QED
  BY <1>1, <1>2, <1>3, <1>4, <1>5, <1>6 DEF Next

LEMMA WireInvariant == Spec => [](ConnectorInv /\ WireInv)
<1>1. ConnectorInv /\ WireInv /\ [Next]_vars => WireInv'
  BY WireNext
<1>2. QED
  BY <1>1, WireInit, ConnectorInvariant, PTL DEF Spec

\* The clients and their lists, what is announced and what is stored are of their types;
\* the cache never holds more than its entries, and no buffer more than is under way.
THEOREM ConnectorTypes == Spec => []TypeOK
<1>1. ConnectorInv /\ WireInv => TypeOK
  <2> SUFFICES ASSUME ConnectorInv, WireInv PROVE TypeOK
    OBVIOUS
  <2>1. \A c \in Client : /\ conn[c].st \in {"none", "accept", "up", "closing"}
                          /\ conn[c].peer \in Client \cup {Node, None}
    BY DEF ConnectorInv, ConnInv, ConnShape, ClientIn
  <2>2. nonce \subseteq Client /\ peers \subseteq Client \cup {Node, Self}
    <3>1. \A p \in peers : \E c \in Client : Key(c) = p
      BY StaleElim DEF ConnectorInv
    <3>2. \A c \in Client : Key(c) \in Client \cup {Node, Self}
      BY DEF Key
    <3> QED
      BY <3>1, <3>2, StaleElim DEF ConnectorInv
  <2>3. \A f \in Frames : f.c \in Client
    BY FramesLive
  <2>4. Stored \subseteq Block
    BY DEF ConnectorInv, HandlersInv, DepthsOK
  <2>5. \A c \in Client : /\ {taken[c], held[c]} \subseteq Nat
                          /\ taken[c] + held[c] <= Len(net[c])
    BY DEF ConnectorInv, BufInv, WireInv, NetOK, Buffered
  <2> QED
    BY <2>1, <2>2, <2>3, <2>4, <2>5 DEF TypeOK, WireInv, DataInv, KnownInv, CacheOK
<1>2. QED
  BY <1>1, WireInvariant, PTL

\* Whatever the order of its two clients' packets and handlers, the daemon does not go on
\* with a connection to itself.
THEOREM NoSelfPeerCorrect == Spec => []NoSelfPeer
<1>1. WireInv => NoSelfPeer
  BY DEF WireInv, SelfInv, ToSelf, NoSelfPeer, Up
<1>2. QED
  BY <1>1, WireInvariant, PTL

\* However many handlers of blocks and transactions nest, what is counted as known is in
\* the database, or being stored, or the database failed to store it.
THEOREM KnownCorrect == Spec => []KnownIsStored
<1>1. WireInv => KnownIsStored
  <2> SUFFICES ASSUME WireInv PROVE Known \subseteq Safe
    BY DEF KnownIsStored, Safe, Kept
  <2>1. cache \cup ToSet(queue) \subseteq Safe
    BY DEF WireInv, KnownInv
  <2>2. ASSUME NEW b \in Stored
        PROVE  ToSet(TxsOf[b]) \cup {<< b, t >> : t \in ToSet(TxsOf[b])} \subseteq Safe
    BY <2>2 DEF WireInv, KnownInv, Covered, CoveredTx
  <2> QED
    BY <2>1, <2>2 DEF Known
<1>2. QED
  BY <1>1, WireInvariant, PTL

=============================================================================
