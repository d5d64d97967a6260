----------------------- MODULE BitcoinConnector_proofs -----------------------
(***************************************************************************)
(* Theorems about BitcoinConnector, for any clients, chain of blocks and   *)
(* bounds: however deep the handlers nest and whatever the database fails  *)
(* to do, the depths in it are right, and nothing stays of a dead client.  *)
(***************************************************************************)
EXTENDS BitcoinConnector, SequenceFacts

-----------------------------------------------------------------------------
(* The clients                                                              *)

ClientIn(T) ==
  [st : {"none", "accept", "up", "closing"}, peer : Client \cup {Node, None},
   out : BOOLEAN, sent : BOOLEAN, got : BOOLEAN, todl : T]

ConnShape == \E T : conn \in [Client -> ClientIn(T)]

\* The two ends of a connection of the daemon to itself have each other for their peers.
Paired ==
  \A c \in Client :
     /\ conn[c].st = "none" => conn[c].peer = None
     /\ conn[c].peer \in Client => conn[c].peer # c /\ conn[conn[c].peer].peer = c

\* Every entry of a client goes with it; a connection waiting to be accepted is incoming.
ConnInv ==
  /\ ConnShape /\ Paired
  /\ \A c \in Client : conn[c].st = "accept" => ~conn[c].out
  /\ NoStaleEntry

\* No client is deleted.
Living == \A c \in Client : conn'[c].st = "none" => conn[c].st = "none"

\* What NoStaleEntry says, entry by entry.
LEMMA StaleElim ==
  ASSUME ConnInv
  PROVE  /\ \A n \in nonce : n \in Client /\ conn[n].st # "none"
         /\ \A p \in peers : \E c \in Client : conn[c].st # "none" /\ Key(c) = p
BY DEF ConnInv, NoStaleEntry

LEMMA StaleIntro ==
  ASSUME \A n \in nonce' : n \in Client /\ conn'[n].st # "none",
         \A p \in peers' : \E c \in Client : conn'[c].st # "none" /\ Key(c)' = p
  PROVE  NoStaleEntry'
BY DEF NoStaleEntry

LEMMA NewPeerFields ==
  ASSUME NEW peer \in Client \cup {Node}, NEW out \in BOOLEAN
  PROVE  /\ NewPeer(peer, out) \in ClientIn({<< >>})
         /\ NewPeer(peer, out).st = "up" /\ NewPeer(peer, out).out = out
         /\ NewPeer(peer, out).peer = peer
<1>1. NoClient \in ClientIn({<< >>})
  BY DEF NoClient, ClientIn
<1>2. QED
  BY <1>1 DEF NewPeer, ClientIn

\* A client keeps its key, and lives on.
Same(c) ==
  /\ conn'[c].peer = conn[c].peer /\ conn'[c].out = conn[c].out
  /\ conn'[c].st \in {conn[c].st, "up", "closing"}

LEMMA ConnStep ==
  ASSUME ConnInv, ConnShape', \A c \in Client : Same(c), peers' = peers,
         \A c \in nonce' \ nonce : c \in Client /\ conn[c].st # "none"
  PROVE  ConnInv' /\ Living
<1>1. Living
  BY DEF Same, Living
<1>2. \A c \in Client : Key(c)' = Key(c)
  BY DEF Same, Key
<1>3. \A c \in Client : conn'[c].st = "accept" => ~conn'[c].out
  BY DEF Same, ConnInv
<1>4. NoStaleEntry'
  BY <1>1, <1>2 DEF ConnInv, NoStaleEntry, Living
<1>5. Paired'
  BY <1>1 DEF Same, ConnInv, Paired, Living
<1>6. QED
  BY <1>1, <1>3, <1>4, <1>5 DEF ConnInv

LEMMA ConnKept ==
  ASSUME ConnInv, UNCHANGED << conn, peers >>, nonce' \subseteq nonce
  PROVE  ConnInv' /\ Living
<1>1. ConnShape' /\ \A c \in Client : Same(c)
  BY DEF ConnInv, ConnShape, Same
<1>2. QED
  BY <1>1, ConnStep

\* The list of blocks of a client is replaced.
LEMMA TodlStep ==
  ASSUME ConnInv, NEW c \in Client, NEW x, conn' = [conn EXCEPT ![c].todl = x],
         UNCHANGED << peers, nonce >>
  PROVE  ConnInv' /\ Living
<1>1. PICK T : conn \in [Client -> ClientIn(T)]
  BY DEF ConnInv, ConnShape
<1>2. conn \in [Client -> ClientIn(T \cup {x})]
  BY <1>1 DEF ClientIn
<1> DEFINE U == T \cup {x}
<1>3. x \in U
  OBVIOUS
<1> HIDE DEF U
<1>4. conn' \in [Client -> ClientIn(U)]
  BY <1>2, <1>3 DEF ClientIn, U
<1>5. \A d \in Client : Same(d)
  BY <1>1 DEF Same, ClientIn
<1>6. QED
  BY <1>4, <1>5, ConnStep DEF ConnShape

\* The state of a connection or of its handshake changes.
LEMMA ConnSet ==
  ASSUME ConnInv, NEW c \in Client, conn[c].st # "none",
         \/ conn' = [conn EXCEPT ![c].st = "closing"]
         \/ conn' = [conn EXCEPT ![c].st = "up"]
         \/ conn' = [conn EXCEPT ![c].got = TRUE]
         \/ conn' = [conn EXCEPT ![c].got = TRUE, ![c].sent = TRUE]
  PROVE  /\ ConnShape' /\ \A d \in Client : Same(d)
<1>1. PICK T : conn \in [Client -> ClientIn(T)]
  BY DEF ConnInv, ConnShape
<1>2. CASE conn' = [conn EXCEPT ![c].st = "closing"]
  <2>1. conn' \in [Client -> ClientIn(T)]
    BY <1>1, <1>2 DEF ClientIn
  <2> QED
    BY <1>1, <1>2, <2>1 DEF ConnShape, Same, ClientIn
<1>3. CASE conn' = [conn EXCEPT ![c].st = "up"]
  <2>1. conn' \in [Client -> ClientIn(T)]
    BY <1>1, <1>3 DEF ClientIn
  <2> QED
    BY <1>1, <1>3, <2>1 DEF ConnShape, Same, ClientIn
<1>4. CASE conn' = [conn EXCEPT ![c].got = TRUE]
  <2>1. conn' \in [Client -> ClientIn(T)]
    BY <1>1, <1>4, ZenonT(60) DEF ClientIn
  <2> QED
    BY <1>1, <1>4, <2>1 DEF ConnShape, Same, ClientIn
<1>5. CASE conn' = [conn EXCEPT ![c].got = TRUE, ![c].sent = TRUE]
  <2>1. conn' \in [Client -> ClientIn(T)]
    BY <1>1, <1>5, ZenonT(60) DEF ClientIn
  <2> QED
    BY <1>1, <1>5, <2>1 DEF ConnShape, Same, ClientIn
<1>6. QED
  BY <1>2, <1>3, <1>4, <1>5

LEMMA ConnOutgoing ==
  ASSUME ConnInv, NEW c \in Client, NEW a \in {Node, Self}, OutgoingTcp(c, a)
  PROVE  ConnInv' /\ Living
<1>1. PICK T : conn \in [Client -> ClientIn(T)]
  BY DEF ConnInv, ConnShape
<1> DEFINE U == T \cup {<< >>}
<1>2. conn \in [Client -> ClientIn(U)] /\ \A x \in ClientIn({<< >>}) : x \in ClientIn(U)
  BY <1>1 DEF ClientIn
<1> HIDE DEF U
<1>4. /\ conn[c].st = "none" /\ {Node, None} \cap Client = {} /\ Node # None
      /\ peers' = peers \cup {a} /\ nonce' = nonce \cup {c}
  BY ConnectorAssumption DEF OutgoingTcp, First, Free, RegisterNonce
<1>5. CASE a = Node /\ conn' = [conn EXCEPT ![c] = NewPeer(Node, TRUE)]
  <2> DEFINE new == NewPeer(Node, TRUE)
  <2>1. new \in ClientIn(U) /\ new.st = "up" /\ new.out = TRUE /\ new.peer = Node
    BY <1>2, NewPeerFields
  <2>2. conn' = [conn EXCEPT ![c] = new]
    BY <1>5
  <2> HIDE DEF new
  <2>3. /\ conn' \in [Client -> ClientIn(U)] /\ conn'[c] = new
        /\ \A e \in Client \ {c} : conn'[e] = conn[e]
    BY <1>2, <2>1, <2>2
  <2>4. Key(c)' = Node /\ \A e \in Client \ {c} : Key(e)' = Key(e)
    BY <2>1, <2>3 DEF Key
  <2>5. NoStaleEntry'
    <3>1. \A n \in nonce' : n \in Client /\ conn'[n].st # "none"
      BY <1>4, <2>1, <2>3, StaleElim
    <3>2. \A p \in peers' : \E e \in Client : conn'[e].st # "none" /\ Key(e)' = p
      <4> SUFFICES ASSUME NEW p \in peers'
                   PROVE  \E e \in Client : conn'[e].st # "none" /\ Key(e)' = p
        OBVIOUS
      <4>1. CASE p = Node
        BY <4>1, <2>1, <2>3, <2>4
      <4>2. CASE p \in peers
        <5>1. PICK e \in Client : conn[e].st # "none" /\ Key(e) = p
          BY <4>2, StaleElim
        <5>2. e \in Client \ {c}
          BY <1>4, <5>1
        <5> QED
          BY <5>1, <5>2, <2>3, <2>4
      <4> QED
        BY <1>4, <1>5, <4>1, <4>2
    <3> QED
      BY <3>1, <3>2, StaleIntro
  <2>6. \A e \in Client : conn'[e].st = "accept" => ~conn'[e].out
    BY <2>1, <2>3 DEF ConnInv
  <2>7. Paired' /\ Living
    BY <1>4, <2>1, <2>3 DEF ConnInv, Paired, Living
  <2> QED
    BY <2>3, <2>5, <2>6, <2>7 DEF ConnInv, ConnShape
<1>6. ASSUME a = Self, NEW d \in Client, First(d, Free \ {c}),
             conn' = [conn EXCEPT ![c] = NewPeer(d, TRUE),
                                  ![d] = [NewPeer(c, FALSE) EXCEPT !.st = "accept"]]
      PROVE  ConnInv' /\ Living
  <2> DEFINE from == NewPeer(d, TRUE)
             to == [NewPeer(c, FALSE) EXCEPT !.st = "accept"]
  <2>1. d # c /\ conn[d].st = "none" /\ d # Node
    BY <1>4, <1>6 DEF First, Free
  <2>2. from \in ClientIn(U) /\ from.st = "up" /\ from.out = TRUE /\ from.peer = d
    BY <1>2, NewPeerFields
  <2>3. to \in ClientIn(U) /\ to.st = "accept" /\ to.out = FALSE /\ to.peer = c
    <3>1. /\ NewPeer(c, FALSE) \in ClientIn(U) /\ NewPeer(c, FALSE).out = FALSE
          /\ NewPeer(c, FALSE).peer = c
      BY <1>2, NewPeerFields
    <3> QED
      BY <3>1 DEF ClientIn
  <2>4. conn' = [conn EXCEPT ![c] = from, ![d] = to]
    BY <1>6
  <2> HIDE DEF from, to
  <2>5. /\ conn' \in [Client -> ClientIn(U)] /\ conn'[c] = from /\ conn'[d] = to
        /\ \A e \in Client \ {c, d} : conn'[e] = conn[e]
    BY <1>2, <2>1, <2>2, <2>3, <2>4
  <2>6. Key(c)' = Self /\ \A e \in Client \ {c, d} : Key(e)' = Key(e)
    BY <2>1, <2>2, <2>5 DEF Key
  <2>7. NoStaleEntry'
    <3>1. \A n \in nonce' : n \in Client /\ conn'[n].st # "none"
      BY <1>4, <2>1, <2>2, <2>3, <2>5, StaleElim
    <3>2. \A p \in peers' : \E e \in Client : conn'[e].st # "none" /\ Key(e)' = p
      <4> SUFFICES ASSUME NEW p \in peers'
                   PROVE  \E e \in Client : conn'[e].st # "none" /\ Key(e)' = p
        OBVIOUS
      <4>1. CASE p = Self
        BY <4>1, <2>2, <2>5, <2>6
      <4>2. CASE p \in peers
        <5>1. PICK e \in Client : conn[e].st # "none" /\ Key(e) = p
          BY <4>2, StaleElim
        <5>2. e \in Client \ {c, d}
          BY <1>4, <2>1, <5>1
        <5> QED
          BY <5>1, <5>2, <2>5, <2>6
      <4> QED
        BY <1>4, <1>6, <4>1, <4>2
    <3> QED
      BY <3>1, <3>2, StaleIntro
  <2>8. \A e \in Client : conn'[e].st = "accept" => ~conn'[e].out
    BY <2>2, <2>3, <2>5 DEF ConnInv
  <2>9. Paired' /\ Living
    BY <1>4, <2>1, <2>2, <2>3, <2>5 DEF ConnInv, Paired, Living
  <2> QED
    BY <2>5, <2>7, <2>8, <2>9 DEF ConnInv, ConnShape
<1>7. QED
  BY <1>5, <1>6 DEF OutgoingTcp

LEMMA ConnIncoming ==
  ASSUME ConnInv, NEW c \in Client, IncomingTcp(c)
  PROVE  ConnInv' /\ Living
<1>1. PICK T : conn \in [Client -> ClientIn(T)]
  BY DEF ConnInv, ConnShape
<1>2. /\ peers' = peers \cup {c} /\ nonce' = nonce
      /\ {Node, None} \cap Client = {} /\ Node # None
  BY ConnectorAssumption DEF IncomingTcp
<1>3. CASE conn[c].st = "accept" /\ conn' = [conn EXCEPT ![c].st = "up"]
  <2>1. ConnShape' /\ \A d \in Client : Same(d)
    BY <1>3, ConnSet
  <2>2. \A d \in Client : Key(d)' = Key(d) /\ (conn[d].st # "none" => conn'[d].st # "none")
    BY <2>1 DEF Same, Key
  <2>3. Key(c)' = c /\ conn'[c].st = "up"
    <3>1. conn[c].out = FALSE
      BY <1>1, <1>3 DEF ConnInv, ClientIn
    <3> QED
      BY <1>1, <1>3, <2>1, <3>1 DEF Key, Same, ClientIn
  <2>4. NoStaleEntry'
    BY <1>2, <2>2, <2>3 DEF ConnInv, NoStaleEntry
  <2>5. \A d \in Client : conn'[d].st = "accept" => ~conn'[d].out
    BY <2>1 DEF Same, ConnInv
  <2>6. Paired' /\ Living
    BY <2>1 DEF Same, ConnInv, Paired, Living
  <2> QED
    BY <2>1, <2>4, <2>5, <2>6 DEF ConnInv
<1>4. CASE First(c, Free) /\ conn' = [conn EXCEPT ![c] = NewPeer(Node, FALSE)]
  <2> DEFINE U == T \cup {<< >>}
             new == NewPeer(Node, FALSE)
  <2>1. conn \in [Client -> ClientIn(U)] /\ \A x \in ClientIn({<< >>}) : x \in ClientIn(U)
    BY <1>1 DEF ClientIn
  <2> HIDE DEF U
  <2>2. new \in ClientIn(U) /\ new.st = "up" /\ new.out = FALSE /\ new.peer = Node
    BY <2>1, NewPeerFields
  <2>3. conn' = [conn EXCEPT ![c] = new] /\ conn[c].st = "none"
    BY <1>4 DEF First, Free
  <2> HIDE DEF new
  <2>4. /\ conn' \in [Client -> ClientIn(U)] /\ conn'[c] = new
        /\ \A e \in Client \ {c} : conn'[e] = conn[e]
    BY <2>1, <2>2, <2>3
  <2>5. Key(c)' = c /\ \A e \in Client \ {c} : Key(e)' = Key(e)
    BY <2>2, <2>4 DEF Key
  <2>6. NoStaleEntry'
    <3>1. \A n \in nonce' : n \in Client /\ conn'[n].st # "none"
      BY <1>2, <2>2, <2>4, StaleElim
    <3>2. \A p \in peers' : \E e \in Client : conn'[e].st # "none" /\ Key(e)' = p
      BY <1>2, <2>2, <2>3, <2>4, <2>5, StaleElim
    <3> QED
      BY <3>1, <3>2, StaleIntro
  <2>7. \A e \in Client : conn'[e].st = "accept" => ~conn'[e].out
    BY <2>2, <2>4 DEF ConnInv
  <2>8. Paired' /\ Living
    BY <1>2, <2>2, <2>3, <2>4 DEF ConnInv, Paired, Living
  <2> QED
    BY <2>4, <2>6, <2>7, <2>8 DEF ConnInv, ConnShape
<1>5. QED
  BY <1>3, <1>4 DEF IncomingTcp

\* The client that is gone leaves the other end of a connection to itself without a peer.
LEMMA GoneFields ==
  ASSUME ConnInv, NEW c \in Client, Gone(c)
  PROVE  /\ ConnShape' /\ conn'[c] = NoClient
         /\ \A e \in Client \ {c} :
               /\ conn'[e].st = conn[e].st /\ conn'[e].out = conn[e].out
               /\ conn'[e].got = conn[e].got /\ conn'[e].todl = conn[e].todl
               /\ conn'[e].peer = IF e = conn[c].peer THEN None ELSE conn[e].peer
<1>1. PICK T : conn \in [Client -> ClientIn(T)]
  BY DEF ConnInv, ConnShape
<1> DEFINE U == T \cup {<< >>}
           d == conn[c].peer
           closed == [conn EXCEPT ![c] = NoClient]
<1>2. conn \in [Client -> ClientIn(U)] /\ NoClient \in ClientIn(U)
  BY <1>1 DEF ClientIn, NoClient
<1> HIDE DEF U
<1>3. /\ closed \in [Client -> ClientIn(U)] /\ closed[c] = NoClient
      /\ \A e \in Client \ {c} : closed[e] = conn[e]
  BY <1>2
<1>4. conn' = IF d \in Client THEN [closed EXCEPT ![d].peer = None] ELSE closed
  BY DEF Gone
<1>5. d \in Client => d # c
  BY DEF ConnInv, Paired
<1> HIDE DEF closed
<1>6. CASE d \in Client
  <2>1. conn' = [closed EXCEPT ![d].peer = None]
    BY <1>4, <1>6
  <2>2. conn' \in [Client -> ClientIn(U)]
    BY <1>3, <2>1, ZenonT(60) DEF ClientIn
  <2>3. \A e \in Client :
           /\ conn'[e].peer = IF e = d THEN None ELSE closed[e].peer
           /\ conn'[e].st = closed[e].st /\ conn'[e].out = closed[e].out
           /\ conn'[e].got = closed[e].got /\ conn'[e].todl = closed[e].todl
    BY <1>3, <1>6, <2>1 DEF ClientIn
  <2>4. conn'[c] = NoClient
    BY <1>3, <1>5, <1>6, <2>1
  <2> QED
    BY <1>3, <2>2, <2>3, <2>4 DEF ConnShape
<1>7. CASE d \notin Client
  <2>1. conn' \in [Client -> ClientIn(U)] /\ conn'[c] = NoClient
    BY <1>3, <1>4, <1>7
  <2>2. \A e \in Client \ {c} : conn'[e] = conn[e] /\ e # d
    BY <1>3, <1>4, <1>7
  <2> QED
    BY <2>1, <2>2 DEF ConnShape
<1>8. QED
  BY <1>6, <1>7

\* The other end of a connection to itself lives on without a peer, under its old key.
LEMMA ConnDelete ==
  ASSUME ConnInv, NEW c \in Client, Delete(c)
  PROVE  ConnInv' /\ \A e \in Client \ {c} : conn'[e].st = conn[e].st
<1> DEFINE d == conn[c].peer
<1>1. peers' = peers \ {Key(c)} /\ nonce' = nonce \ {c}
  BY DEF Delete
<1>2. /\ {Node, None} \cap Client = {} /\ Node # None
      /\ d \in Client => d # c /\ conn[d].peer = c
      /\ \A e \in Client : conn[e].peer = c => e = d
  BY ConnectorAssumption DEF ConnInv, Paired
<1>3. /\ ConnShape' /\ conn'[c].st = "none" /\ conn'[c].peer = None
      /\ \A e \in Client \ {c} : /\ conn'[e].st = conn[e].st /\ conn'[e].out = conn[e].out
                                 /\ conn'[e].peer = IF e = d THEN None ELSE conn[e].peer
  BY GoneFields DEF Delete, NoClient
<1> HIDE DEF d
<1>4. \A e \in Client \ {c} : Key(e)' = Key(e)
  BY <1>2, <1>3 DEF Key
<1>5. NoStaleEntry'
  <2>1. \A n \in nonce' : n \in Client /\ conn'[n].st # "none"
    BY <1>1, <1>3, StaleElim
  <2>2. \A p \in peers' : \E e \in Client : conn'[e].st # "none" /\ Key(e)' = p
    BY <1>1, <1>3, <1>4, StaleElim
  <2> QED
    BY <2>1, <2>2, StaleIntro
<1>6. Paired'
  BY <1>2, <1>3 DEF ConnInv, Paired
<1>7. \A e \in Client : conn'[e].st = "accept" => ~conn'[e].out
  BY <1>3 DEF ConnInv
<1>8. QED
  BY <1>3, <1>5, <1>6, <1>7 DEF ConnInv

-----------------------------------------------------------------------------
(* The buffers                                                              *)

\* A client that is not there has nothing in its buffer.
BufInv ==
  /\ taken \in [Client -> Nat] /\ held \in [Client -> Nat]
  /\ \A c \in Client : conn[c].st = "none" => taken[c] = 0 /\ held[c] = 0

\* Packets arrive for a client, or one is taken out of its buffer.
BufStep ==
  UNCHANGED bufs \/ \E c \in Client : Arrive(c) \/ \E type : Packet(c, type)

LEMMA BufKept ==
  ASSUME BufInv, Living, BufStep
  PROVE  BufInv'
<1>1. CASE UNCHANGED bufs
  BY <1>1 DEF BufInv, Living, bufs
<1>2. ASSUME NEW c \in Client, Arrive(c)
      PROVE  BufInv'
  <2>1. conn[c].st # "none"
    BY <1>2 DEF Arrive, Up
  <2>2. PICK n \in Nat : \/ /\ taken' = [taken EXCEPT ![c] = held[c] + n]
                            /\ held' = [held EXCEPT ![c] = 0]
                         \/ taken' = taken /\ held' = [held EXCEPT ![c] = @ + n]
    BY <1>2 DEF Arrive
  <2>3. /\ taken' \in [Client -> Nat] /\ held' \in [Client -> Nat]
        /\ \A d \in Client \ {c} : taken'[d] = taken[d] /\ held'[d] = held[d]
    BY <2>2 DEF BufInv
  <2> QED
    BY <2>1, <2>3 DEF BufInv, Living
<1>3. ASSUME NEW c \in Client, NEW type, Packet(c, type)
      PROVE  BufInv'
  BY <1>3 DEF BufInv, Living, Packet, Looping
<1>4. QED
  BY <1>1, <1>2, <1>3 DEF BufStep

\* No client is deleted with packets in its buffer.
LEMMA BufDelete ==
  ASSUME BufInv, NEW c \in Client, Delete(c), \A e \in Client \ {c} : conn'[e].st = conn[e].st
  PROVE  BufInv'
<1>1. taken[c] = 0
  <2>1. ~InPacket(c) /\ ~Looping(c)
    BY DEF Delete, Turn, Quiet, InPacket, ToSet
  <2> QED
    BY <2>1 DEF Looping, BufInv
<1>2. taken' = taken /\ held' = [held EXCEPT ![c] = 0]
  BY DEF Delete, Gone
<1>3. QED
  BY <1>1, <1>2 DEF BufInv

-----------------------------------------------------------------------------
(* The handlers and the depths of the blocks                                *)

FrameFields == {"c", "job", "at", "item", "h", "rest", "got", "done", "ans"}

\* The calls of a handler that has found out the depth of its block.
BlockWork == {"knows", "txknows", "txstore", "blocktx", "store"}

HeightRight(f) ==
  IF Parent[f.item] = None THEN f.h = 0
  ELSE Parent[f.item] \in Stored /\ f.h = db.depth[Parent[f.item]] + 1

FrameOK(f) ==
  /\ DOMAIN f = FrameFields /\ f.c \in Client
  /\ f.at \in BlockWork \cup {"parent"} => f.item \in Block
  /\ f.at \in BlockWork => HeightRight(f)
  /\ f.at = "parent" => f.ans \subseteq {Parent[f.item]} \cap Stored

StackOK == IsSeq(stack) /\ \A i \in DOMAIN stack : FrameOK(stack[i])

\* A stored block has a natural number for its depth.
DepthsOK ==
  /\ DOMAIN db = {"depth", "tx", "link"}
  /\ Stored \subseteq Block /\ \A b \in Stored : db.depth[b] \in Nat

HandlersInv == StackOK /\ DepthsOK /\ DepthOfParent

\* What a handler that waits in no call of addBlock() needs.
LEMMA OtherFrame ==
  ASSUME NEW f, DOMAIN f = FrameFields, f.c \in Client,
         f.at \notin BlockWork \cup {"parent"}
  PROVE  FrameOK(f)
BY DEF FrameOK

LEMMA FrameNew ==
  ASSUME NEW c \in Client, NEW job, NEW at, NEW item
  PROVE  /\ DOMAIN Frame(c, job, at, item) = FrameFields
         /\ Frame(c, job, at, item).c = c /\ Frame(c, job, at, item).at = at
         /\ Frame(c, job, at, item).item = item /\ Frame(c, job, at, item).ans = {}
BY DEF Frame, FrameFields

LEMMA CallFields ==
  ASSUME NEW f, DOMAIN f = FrameFields, NEW at
  PROVE  /\ DOMAIN Call(f, at) = FrameFields
         /\ Call(f, at).at = at /\ Call(f, at).c = f.c
         /\ Call(f, at).item = f.item /\ Call(f, at).h = f.h
BY DEF Call, FrameFields

LEMMA TopOK ==
  ASSUME StackOK, stack # << >>
  PROVE  FrameOK(Top)
BY FrontIsSeq DEF StackOK, Top

\* A handler is called, goes on to its next call, or returns, in one step that leaves the
\* database alone.
Pushed(f) ==
  FrameOK(f) /\ \/ stack' = Append(stack, f)
                \/ stack # << >> /\ stack' = Append(Front(stack), f)
Popped == stack # << >> /\ stack' = Front(stack)

LEMMA StackPushed ==
  ASSUME StackOK, NEW f, Pushed(f), UNCHANGED db
  PROVE  StackOK'
<1>1. ASSUME NEW s, IsSeq(s), \A i \in DOMAIN s : FrameOK(s[i]), stack' = Append(s, f)
      PROVE  StackOK'
  <2>1. /\ IsSeq(stack') /\ Len(s) \in Nat /\ DOMAIN s = 1 .. Len(s)
        /\ DOMAIN stack' = 1 .. Len(s) + 1
        /\ \A i \in 1 .. Len(s) : stack'[i] = s[i]
        /\ stack'[Len(s) + 1] = f
    BY <1>1, AppendIsSeq
  <2>2. \A i \in DOMAIN stack' : FrameOK(stack'[i])
    BY <1>1, <2>1 DEF Pushed
  <2>3. \A g : FrameOK(g) => FrameOK(g)'
    BY DEF FrameOK, HeightRight, Stored
  <2> QED
    BY <2>1, <2>2, <2>3 DEF StackOK
<1>2. CASE stack' = Append(stack, f)
  BY <1>1, <1>2 DEF StackOK
<1>3. CASE stack # << >> /\ stack' = Append(Front(stack), f)
  <2>1. IsSeq(Front(stack)) /\ \A i \in DOMAIN Front(stack) : FrameOK(Front(stack)[i])
    BY <1>3, FrontIsSeq, SMTT(60) DEF StackOK
  <2> QED
    BY <1>1, <1>3, <2>1
<1>4. QED
  BY <1>2, <1>3 DEF Pushed

LEMMA StackPopped ==
  ASSUME StackOK, Popped \/ UNCHANGED stack, UNCHANGED db
  PROVE  StackOK'
<1>1. \A g : FrameOK(g) => FrameOK(g)'
  BY DEF FrameOK, HeightRight, Stored
<1>2. CASE UNCHANGED stack
  BY <1>1, <1>2 DEF StackOK
<1>3. CASE Popped
  BY <1>1, <1>3, FrontIsSeq DEF StackOK, Popped
<1>4. QED
  BY <1>2, <1>3

LEMMA HandlersStep ==
  ASSUME HandlersInv, UNCHANGED db,
         Popped \/ UNCHANGED stack \/ \E f : Pushed(f)
  PROVE  HandlersInv'
<1>1. StackOK'
  BY StackPushed, StackPopped DEF HandlersInv
<1>2. DepthsOK' /\ DepthOfParent'
  BY DEF HandlersInv, DepthsOK, DepthOfParent, Stored
<1>3. QED
  BY <1>1, <1>2 DEF HandlersInv

\* The database grows: what it holds keeps its depth.
Grows ==
  Stored \subseteq Stored' /\ \A b \in Stored : db'.depth[b] = db.depth[b]

LEMMA FrameKept ==
  ASSUME Grows, NEW f, FrameOK(f)
  PROVE  FrameOK(f)'
<1>1. HeightRight(f) => HeightRight(f)'
  BY DEF HeightRight, Grows
<1>2. QED
  BY <1>1 DEF FrameOK, Grows

\* One of the handlers that wait gets its reply.
LEMMA StackReplied ==
  ASSUME StackOK, Grows, NEW i \in DOMAIN stack, NEW ans, Reply(i, ans),
         stack[i].at = "parent" => ans \subseteq {Parent[stack[i].item]} \cap Stored
  PROVE  StackOK'
<1> DEFINE f == stack[i]
           g == [f EXCEPT !.done = TRUE, !.ans = ans]
<1>1. FrameOK(f) /\ IsSeq(stack) /\ i \in 1 .. Len(stack)
  BY LenProperties DEF StackOK, IsSeq
<1>2. stack' = [stack EXCEPT ![i] = g]
  BY DEF Reply
<1>3. FrameOK(g)
  <2>1. /\ DOMAIN g = FrameFields /\ g.c = f.c /\ g.at = f.at /\ g.item = f.item
        /\ g.h = f.h /\ g.ans = ans
    BY <1>1 DEF FrameOK, FrameFields
  <2> HIDE DEF g
  <2>2. HeightRight(f) => HeightRight(g)
    BY <2>1 DEF HeightRight
  <2> QED
    BY <1>1, <2>1, <2>2 DEF FrameOK
<1> HIDE DEF g
<1>4. /\ IsSeq(stack') /\ DOMAIN stack' = DOMAIN stack
      /\ \A j \in DOMAIN stack : stack'[j] = IF j = i THEN g ELSE stack[j]
  BY <1>1, <1>2, ExceptIsSeq
<1>5. \A j \in DOMAIN stack' : FrameOK(stack'[j])
  BY <1>3, <1>4 DEF StackOK
<1>6. QED
  BY <1>4, <1>5, FrameKept DEF StackOK

\* Only a handler at "store" adds a block, or stores one again.
LEMMA BlockAdded ==
  ASSUME HandlersInv, NEW f, FrameOK(f), db' = Indexed(f)
  PROVE  Grows /\ DepthsOK' /\ DepthOfParent'
<1>1. CASE f.at # "store"
  <2>1. db'.depth = db.depth /\ DOMAIN db' = DOMAIN db
    BY <1>1 DEF Indexed, HandlersInv, DepthsOK
  <2> QED
    BY <2>1 DEF Grows, HandlersInv, DepthsOK, DepthOfParent, Stored
<1>2. CASE f.at = "store"
  <2> DEFINE b == f.item
             p == Parent[b]
  <2>1. b \in Block /\ HeightRight(f)
    BY <1>2 DEF FrameOK, BlockWork
  <2>2. /\ DOMAIN db' = DOMAIN db /\ Stored' = Stored \cup {b}
        /\ \A x \in Stored' : db'.depth[x] = IF x = b THEN f.h ELSE db.depth[x]
    <3> DEFINE depth == [x \in Stored \cup {b} |-> IF x = b THEN f.h ELSE db.depth[x]]
    <3>1. db' = [db EXCEPT !.depth = depth]
      BY <1>2 DEF Indexed
    <3>2. DOMAIN db' = DOMAIN db /\ db'.depth = depth
      BY <3>1 DEF HandlersInv, DepthsOK
    <3> QED
      BY <3>2 DEF Stored
  <2>3. f.h \in Nat
    BY <2>1 DEF HeightRight, HandlersInv, DepthsOK
  <2>4. b \in Stored => f.h = db.depth[b]
    BY <2>1 DEF HeightRight, HandlersInv, DepthOfParent
  <2>5. Grows
    BY <2>2, <2>4 DEF Grows
  <2>6. DepthsOK'
    BY <2>1, <2>2, <2>3 DEF HandlersInv, DepthsOK
  <2>7. ASSUME NEW x \in Stored'
        PROVE  IF Parent[x] = None THEN db'.depth[x] = 0
               ELSE Parent[x] \in Stored' /\ db'.depth[x] = db'.depth[Parent[x]] + 1
    <3>1. CASE x = b
      BY <3>1, <2>1, <2>2, <2>5 DEF HeightRight, Grows
    <3>2. CASE x # b
      <4>1. x \in Stored
        BY <3>2, <2>2
      <4> QED
        BY <3>2, <4>1, <2>2, <2>5 DEF HandlersInv, DepthOfParent, Grows
    <3> QED
      BY <3>1, <3>2
  <2> QED
    BY <2>5, <2>6, <2>7 DEF DepthOfParent
<1>3. QED
  BY <1>1, <1>2

LEMMA HandlersAnswer ==
  ASSUME HandlersInv, NEW i \in DOMAIN stack, Answer(i)
  PROVE  HandlersInv'
<1>1. FrameOK(stack[i]) /\ db' = Indexed(stack[i])
  BY DEF HandlersInv, StackOK, Answer
<1>2. Grows /\ DepthsOK' /\ DepthOfParent'
  BY <1>1, BlockAdded
<1>3. PICK ans \in Found(stack[i]) : Reply(i, ans)
  BY DEF Answer
<1>4. stack[i].at = "parent" => ans \subseteq {Parent[stack[i].item]} \cap Stored
  BY <1>3 DEF Found
<1>5. StackOK'
  BY <1>2, <1>3, <1>4, StackReplied DEF HandlersInv
<1>6. QED
  BY <1>2, <1>5 DEF HandlersInv

LEMMA HandlersFail ==
  ASSUME HandlersInv, NEW i \in DOMAIN stack, Fail(i)
  PROVE  HandlersInv'
<1>1. Reply(i, {}) /\ UNCHANGED db
  BY DEF Fail
<1>2. Grows /\ DepthsOK' /\ DepthOfParent'
  BY <1>1 DEF Grows, HandlersInv, DepthsOK, DepthOfParent, Stored
<1>3. QED
  BY <1>1, <1>2, StackReplied DEF HandlersInv

\* What an action does to the stack of the handlers and to the database.
StackStep == (Popped \/ UNCHANGED stack \/ \E f : Pushed(f)) /\ UNCHANGED db

\* A handler goes on through a list of items with one call for each.
LEMMA LoopStep ==
  ASSUME NEW base, stack # << >> /\ base = Front(stack),
         NEW f, DOMAIN f = FrameFields, f.c \in Client,
         NEW at \in {"inv", "get"}, NEW rest, NEW got,
         \/ stack' = base
         \/ stack' = Append(base, [Call(f, at) EXCEPT !.rest = rest, !.got = got]),
         UNCHANGED db
  PROVE  StackStep
<1> DEFINE g == [Call(f, at) EXCEPT !.rest = rest, !.got = got]
<1>1. DOMAIN g = FrameFields /\ g.c = f.c /\ g.at = at
  BY CallFields DEF FrameFields
<1>2. FrameOK(g)
  <2> HIDE DEF g
  <2> QED
    BY <1>1, OtherFrame DEF BlockWork
<1> HIDE DEF g
<1>3. CASE stack' = base
  BY <1>3 DEF StackStep, Popped
<1>4. CASE stack' = Append(base, g)
  BY <1>2, <1>4 DEF StackStep, Pushed
<1>5. QED
  BY <1>3, <1>4 DEF g

\* The handler of a packet begins such a list.
LEMMA LoopStarts ==
  ASSUME NEW c \in Client, NEW at \in {"inv", "get"}, NEW rest, NEW got,
         stack' = Append(stack, [Call(Handler(c, at, None), at) EXCEPT !.rest = rest,
                                                                      !.got = got]),
         UNCHANGED db
  PROVE  StackStep
<1> DEFINE f == Handler(c, at, None)
           g == [Call(f, at) EXCEPT !.rest = rest, !.got = got]
<1>1. DOMAIN f = FrameFields /\ f.c \in Client
  BY FrameNew DEF Handler
<1>2. stack' = Append(stack, g)
  OBVIOUS
<1> HIDE DEF f
<1>3. DOMAIN g = FrameFields /\ g.c = f.c /\ g.at = at
  BY <1>1, CallFields DEF FrameFields
<1> HIDE DEF g
<1>4. FrameOK(g)
  BY <1>1, <1>3, OtherFrame, SMTT(60) DEF BlockWork
<1>5. QED
  BY <1>2, <1>4 DEF StackStep, Pushed

LEMMA InvLoopStep ==
  ASSUME NEW base, stack # << >> /\ base = Front(stack),
         NEW f, DOMAIN f = FrameFields, f.c \in Client,
         NEW nt, NEW rest, NEW got, InvLoop(base, f, nt, rest, got), UNCHANGED db
  PROVE  StackStep
BY LoopStep, ZenonT(60) DEF InvLoop

LEMMA GetLoopStep ==
  ASSUME NEW base, stack # << >> /\ base = Front(stack),
         NEW f, DOMAIN f = FrameFields, f.c \in Client,
         NEW ca, NEW nt, NEW rest, NEW missing, GetLoop(ca, base, f, nt, rest, missing),
         UNCHANGED db
  PROVE  StackStep
<1>1. \/ stack' = base
      \/ stack' = Append(base, [Call(f, "get") EXCEPT !.rest = SkipCached(ca, rest),
                                                    !.got = missing])
  BY DEF GetLoop
<1>2. QED
  BY <1>1, LoopStep

\* A handler has done with its block and looks for the next one of its list.
LEMMA NextTodlStep ==
  ASSUME ConnInv, UNCHANGED << peers, nonce, db >>, stack # << >>,
         NEW f, f.c \in Client, NextTodl(f, Front(stack))
  PROVE  ConnInv' /\ Living /\ StackStep
<1> DEFINE todl == SkipCached(cache, conn[f.c].todl)
           g == Frame(f.c, f.job, "next", Head(todl))
<1>1. CASE stack' = Front(stack) /\ conn' = [conn EXCEPT ![f.c].todl = << >>]
  BY <1>1, TodlStep DEF StackStep, Popped
<1>2. CASE stack' = Append(Front(stack), g) /\ conn' = [conn EXCEPT ![f.c].todl = Tail(todl)]
  <2>1. ConnInv' /\ Living
    BY <1>2, TodlStep
  <2>2. FrameOK(g)
    BY FrameNew, OtherFrame DEF BlockWork
  <2> QED
    BY <1>2, <2>1, <2>2 DEF StackStep, Pushed
<1>3. QED
  BY <1>1, <1>2 DEF NextTodl

\* A handler that knows the depth of its block goes on to its next call.
LEMMA BlockFrame ==
  ASSUME NEW f, FrameOK(f), f.at \in BlockWork, NEW g, DOMAIN g = FrameFields,
         g.c = f.c, g.item = f.item, g.h = f.h, g.at \in BlockWork
  PROVE  FrameOK(g)
BY DEF FrameOK, HeightRight, BlockWork

LEMMA AddBlockStep ==
  ASSUME NEW f, FrameOK(f), f.at \in BlockWork, stack # << >>, NEW rest,
         AddBlock(f, rest), UNCHANGED db
  PROVE  StackStep
<1> DEFINE g == [f EXCEPT !.rest = rest]
<1>1. /\ DOMAIN g = FrameFields /\ g.c = f.c /\ g.item = f.item /\ g.h = f.h
  BY DEF FrameOK, FrameFields
<1>2. \E at \in BlockWork : stack' = Append(Front(stack), Call(g, at))
  BY DEF AddBlock, Waits, BlockWork
<1> HIDE DEF g
<1>3. \A at \in BlockWork : FrameOK(Call(g, at))
  <2> TAKE at \in BlockWork
  <2> QED
    BY <1>1, CallFields, BlockFrame
<1>4. QED
  BY <1>2, <1>3 DEF StackStep, Pushed

-----------------------------------------------------------------------------
(* The actions                                                              *)

ConnectorInv == ConnInv /\ HandlersInv /\ BufInv
Keeps == ConnInv' /\ Living /\ StackStep

LEMMA TopFrame ==
  ASSUME ConnectorInv, stack # << >>
  PROVE  FrameOK(Top) /\ DOMAIN Top = FrameFields /\ Top.c \in Client
BY TopOK DEF ConnectorInv, HandlersInv, FrameOK

\* A handler of something other than a block goes on to its next call.
LEMMA CallKeeps ==
  ASSUME NEW f, DOMAIN f = FrameFields, f.c \in Client,
         NEW at, at \notin BlockWork \cup {"parent"},
         NEW base, stack # << >> /\ base = Front(stack),
         stack' = Append(base, Call(f, at)), UNCHANGED db
  PROVE  StackStep
<1>1. FrameOK(Call(f, at))
  BY CallFields, OtherFrame
<1>2. QED
  BY <1>1 DEF StackStep, Pushed

\* The handlers that go on.
LEMMA EndsKeeps ==
  ASSUME ConnectorInv, SendVersion \/ TxPut \/ SendGetBlocks
  PROVE  Keeps
<1>1. UNCHANGED << conn, peers, nonce, db >> /\ stack # << >> /\ stack' = Front(stack)
  BY DEF SendVersion, TxPut, SendGetBlocks, Ends, Resumes, peerVars, storeVars
<1>2. QED
  BY <1>1, ConnKept DEF Keeps, StackStep, Popped, ConnectorInv

LEMMA InvNextKeeps ==
  ASSUME ConnectorInv, InvNext
  PROVE  Keeps
<1>1. stack # << >> /\ UNCHANGED << peers, nonce, db >>
  BY DEF InvNext, Resumes, storeVars
<1>2. DOMAIN Top = FrameFields /\ Top.c \in Client
  BY <1>1, TopFrame
<1>3. \E rest, got : InvLoop(Front(stack), Top, net, rest, got)
  BY DEF InvNext
<1>4. StackStep
  BY <1>1, <1>2, <1>3, InvLoopStep
<1>5. \/ conn' = conn
      \/ \E x : conn' = [conn EXCEPT ![Top.c].todl = x]
  BY DEF InvNext
<1>6. ConnInv' /\ Living
  BY <1>1, <1>2, <1>5, ConnKept, TodlStep DEF ConnectorInv
<1>7. QED
  BY <1>4, <1>6 DEF Keeps

LEMMA GetNextKeeps ==
  ASSUME ConnectorInv, GetNext \/ Fetched
  PROVE  Keeps
<1>1. stack # << >> /\ UNCHANGED << conn, peers, nonce, db >>
  BY DEF GetNext, Fetched, Resumes, peerVars, storeVars
<1>2. DOMAIN Top = FrameFields /\ Top.c \in Client
  BY <1>1, TopFrame
<1>3. \/ \E ca, nt, rest, got : GetLoop(ca, Front(stack), Top, nt, rest, got)
      \/ stack' = Append(Front(stack), Call(Top, "fetch"))
  BY DEF GetNext, Fetched, Waits
<1>4. StackStep
  BY <1>1, <1>2, <1>3, GetLoopStep, CallKeeps DEF BlockWork
<1>5. QED
  BY <1>1, <1>4, ConnKept DEF Keeps, ConnectorInv

LEMMA TxHasKeeps ==
  ASSUME ConnectorInv, TxHas
  PROVE  Keeps
<1>1. stack # << >> /\ UNCHANGED << conn, peers, nonce, db >>
  BY DEF TxHas, Resumes, peerVars, storeVars
<1>2. DOMAIN Top = FrameFields /\ Top.c \in Client
  BY <1>1, TopFrame
<1>3. Popped \/ stack' = Append(Front(stack), Call(Top, "txput"))
  BY <1>1 DEF TxHas, Ends, PutTx, Popped
<1>4. StackStep
  BY <1>1, <1>2, <1>3, CallKeeps DEF BlockWork, StackStep
<1>5. QED
  BY <1>1, <1>4, ConnKept DEF Keeps, ConnectorInv

\* The depth of a block is found out: the answer named a stored parent, or the block
\* has none.
LEMMA GotParentKeeps ==
  ASSUME ConnectorInv, GotParent
  PROVE  Keeps
<1>1. stack # << >> /\ Top.at = "parent" /\ UNCHANGED << peers, nonce, db >>
  BY DEF GotParent, Resumes, storeVars
<1>2. FrameOK(Top) /\ DOMAIN Top = FrameFields /\ Top.c \in Client
  BY <1>1, TopFrame
<1>3. CASE NextTodl(Top, Front(stack))
  BY <1>1, <1>2, <1>3, NextTodlStep DEF Keeps, ConnectorInv
<1>4. CASE ~Orphan(Top) /\ UNCHANGED conn
           /\ Waits([Call(Top, "knows") EXCEPT
                !.h = IF Top.ans = {} THEN 0 ELSE 1 + db.depth[Parent[Top.item]]])
  <2> DEFINE h == IF Top.ans = {} THEN 0 ELSE 1 + db.depth[Parent[Top.item]]
             g == [Call(Top, "knows") EXCEPT !.h = h]
  <2>1. /\ DOMAIN g = FrameFields /\ g.c = Top.c /\ g.at = "knows" /\ g.item = Top.item
        /\ g.h = h
    BY <1>2, CallFields DEF FrameFields
  <2>2. Top.item \in Block /\ Top.ans \subseteq {Parent[Top.item]} \cap Stored
    BY <1>1, <1>2 DEF FrameOK
  <2> HIDE DEF g
  <2>3. HeightRight(g)
    <3>1. CASE Top.ans = {}
      BY <1>4, <2>1, <3>1 DEF HeightRight, Orphan
    <3>2. CASE Top.ans # {}
      <4>1. Parent[Top.item] \in Stored /\ Parent[Top.item] # None
        BY <2>2, <3>2, ConnectorAssumption, SMTT(60) DEF ConnectorInv, HandlersInv, DepthsOK
      <4>2. db.depth[Parent[Top.item]] \in Nat
        BY <4>1 DEF ConnectorInv, HandlersInv, DepthsOK
      <4> QED
        BY <2>1, <3>2, <4>1, <4>2 DEF HeightRight
    <3> QED
      BY <3>1, <3>2
  <2>4. FrameOK(g)
    BY <1>2, <2>1, <2>2, <2>3 DEF FrameOK
  <2>5. stack' = Append(Front(stack), g)
    BY <1>4 DEF Waits, g
  <2> QED
    BY <1>1, <1>4, <2>4, <2>5, ConnKept DEF Keeps, ConnectorInv, StackStep, Pushed
<1>5. QED
  BY <1>3, <1>4 DEF GotParent

LEMMA AddBlockKeeps ==
  ASSUME ConnectorInv, GotKnows \/ Linked
  PROVE  Keeps
<1>1. /\ stack # << >> /\ Top.at \in BlockWork /\ UNCHANGED << peers, nonce, db >>
  BY DEF GotKnows, Linked, Resumes, peerVars, storeVars, BlockWork
<1>2. FrameOK(Top) /\ Top.c \in Client
  BY <1>1, TopFrame
<1>3. CASE NextTodl(Top, Front(stack))
  BY <1>1, <1>2, <1>3, NextTodlStep DEF Keeps, ConnectorInv
<1>4. CASE UNCHANGED conn /\ \E rest : AddBlock(Top, rest)
  BY <1>1, <1>2, <1>4, AddBlockStep, ConnKept DEF Keeps, ConnectorInv
<1>5. QED
  BY <1>3, <1>4 DEF GotKnows, Linked, peerVars

LEMMA TxStoredKeeps ==
  ASSUME ConnectorInv, GotTxKnows \/ TxStored
  PROVE  Keeps
<1>1. /\ stack # << >> /\ Top.at \in BlockWork
      /\ UNCHANGED << conn, peers, nonce, db >>
      /\ \E at \in BlockWork : stack' = Append(Front(stack), Call(Top, at))
  BY DEF GotTxKnows, TxStored, Resumes, Waits, peerVars, storeVars, BlockWork
<1>2. FrameOK(Top) /\ DOMAIN Top = FrameFields
  BY <1>1, TopFrame
<1>3. \A at \in BlockWork : FrameOK(Call(Top, at))
  <2> TAKE at \in BlockWork
  <2> QED
    BY <1>1, <1>2, CallFields, BlockFrame
<1>4. QED
  BY <1>1, <1>3, ConnKept DEF Keeps, ConnectorInv, StackStep, Pushed

LEMMA NextBlockKeeps ==
  ASSUME ConnectorInv, BlockStored \/ AskNext
  PROVE  Keeps
<1>1. stack # << >> /\ UNCHANGED << peers, nonce, db >>
  BY DEF BlockStored, AskNext, Resumes, storeVars
<1>2. Top.c \in Client
  BY <1>1, TopFrame
<1>3. CASE NextTodl(Top, Front(stack))
  BY <1>1, <1>2, <1>3, NextTodlStep DEF Keeps, ConnectorInv
<1>4. CASE UNCHANGED conn /\ stack' = Front(stack)
  BY <1>1, <1>4, ConnKept DEF Keeps, ConnectorInv, StackStep, Popped
<1>5. QED
  BY <1>3, <1>4 DEF BlockStored, AskNext, Ends

\* Events that call no handler with a database call.
LEMMA QuietKeeps ==
  ASSUME ConnectorInv,
         \/ Reload \/ SendQueuedInventory \/ Refresh
         \/ \E c \in Client : Arrive(c) \/ Ping(c) \/ Ignored(c) \/ Verack(c) \/ NodeTalks(c)
  PROVE  Keeps
<1>1. UNCHANGED << conn, peers, stack, db >> /\ nonce' \subseteq nonce
  BY DEF Reload, SendQueuedInventory, Refresh, Arrive, Ping, Ignored, Verack, NodeTalks,
         peerVars, storeVars
<1>2. QED
  BY <1>1, ConnKept DEF Keeps, ConnectorInv, StackStep

LEMMA LinkLossKeeps ==
  ASSUME ConnectorInv, NEW c \in Client, LinkLoss(c) \/ PeerClosed(c)
  PROVE  Keeps
<1>1. /\ conn[c].st # "none" /\ conn' = [conn EXCEPT ![c].st = "closing"]
      /\ UNCHANGED << peers, nonce, stack, db >>
  BY DEF LinkLoss, PeerClosed, Up, storeVars
<1>2. ConnShape' /\ \A d \in Client : Same(d)
  BY <1>1, ConnSet DEF ConnectorInv
<1>3. QED
  BY <1>1, <1>2, ConnStep DEF Keeps, ConnectorInv, StackStep

\* A frame for a new handler of a client.
LEMMA HandlerKeeps ==
  ASSUME NEW c \in Client, NEW job, NEW at, at \notin BlockWork \cup {"parent"}, NEW item,
         stack' = Append(stack, Frame(c, job, at, item)), UNCHANGED db
  PROVE  StackStep
<1>1. FrameOK(Frame(c, job, at, item))
  BY FrameNew, OtherFrame
<1>2. QED
  BY <1>1 DEF StackStep, Pushed

LEMMA VersionKeeps ==
  ASSUME ConnectorInv, NEW c \in Client, Version(c)
  PROVE  Keeps
<1>1. conn[c].st # "none" /\ UNCHANGED << peers, db >>
  BY DEF ConnectorInv, BufInv, Version, Packet, Looping, storeVars
<1>2. /\ \/ conn' = [conn EXCEPT ![c].st = "closing"]
         \/ conn' = [conn EXCEPT ![c].got = TRUE]
         \/ conn' = [conn EXCEPT ![c].got = TRUE, ![c].sent = TRUE]
      /\ nonce' = nonce \/ nonce' = nonce \cup {c}
      /\ \/ UNCHANGED stack
         \/ stack' = Append(stack, Frame(c, "packet", "height", None))
  BY DEF Version, RegisterNonce, Handler
<1>3. ConnShape' /\ \A d \in Client : Same(d)
  BY <1>1, <1>2, ConnSet DEF ConnectorInv
<1>4. ConnInv' /\ Living
  BY <1>1, <1>2, <1>3, ConnStep DEF ConnectorInv
<1>5. StackStep
  BY <1>1, <1>2, HandlerKeeps, SMTT(60) DEF StackStep, BlockWork
<1>6. QED
  BY <1>4, <1>5 DEF Keeps

LEMMA ListKeeps ==
  ASSUME ConnectorInv, NEW c \in Client, Inv(c) \/ GetData(c)
  PROVE  Keeps
<1>1. UNCHANGED << conn, peers, nonce, db >>
  BY DEF Inv, GetData, peerVars, storeVars
<1>2. ASSUME StackStep PROVE Keeps
  BY <1>1, <1>2, ConnKept, SMTT(60) DEF Keeps, ConnectorInv
<1>3. CASE Inv(c)
  <2>1. PICK rest, got : \/ UNCHANGED stack
                         \/ stack' = Append(stack, [Call(Handler(c, "inv", None), "inv")
                                                   EXCEPT !.rest = rest, !.got = got])
    BY <1>3, ZenonT(60) DEF Inv, InvLoop
  <2> QED
    BY <1>1, <1>2, <2>1, LoopStarts DEF StackStep
<1>4. CASE GetData(c)
  <2>1. PICK rest, got : \/ UNCHANGED stack
                         \/ stack' = Append(stack, [Call(Handler(c, "get", None), "get")
                                                   EXCEPT !.rest = rest, !.got = got])
    BY <1>4 DEF GetData, GetLoop
  <2> QED
    BY <1>1, <1>2, <2>1, LoopStarts DEF StackStep
<1>5. QED
  BY <1>3, <1>4

LEMMA TxPacketKeeps ==
  ASSUME ConnectorInv, NEW c \in Client, TxPacket(c)
  PROVE  Keeps
<1> DEFINE f == Frame(c, "packet", "txhas", None)
           g == [f EXCEPT !.rest = Xs(c)]
<1>1. /\ UNCHANGED << conn, peers, nonce, db >>
      /\ UNCHANGED stack \/ stack' = Append(stack, g)
  BY DEF TxPacket, Handler, peerVars, storeVars
<1>2. DOMAIN g = FrameFields /\ g.c = c /\ g.at = "txhas"
  <2>1. DOMAIN f = FrameFields /\ f.c = c /\ f.at = "txhas"
    BY FrameNew
  <2> HIDE DEF f
  <2> QED
    BY <2>1 DEF FrameFields
<1> HIDE DEF g
<1>3. FrameOK(g)
  BY <1>2, OtherFrame DEF BlockWork
<1>4. QED
  BY <1>1, <1>3, ConnKept DEF Keeps, ConnectorInv, StackStep, Pushed

LEMMA BlockPacketKeeps ==
  ASSUME ConnectorInv, NEW c \in Client, BlockPacket(c)
  PROVE  Keeps
<1>1. UNCHANGED << conn, peers, nonce, db >>
  BY DEF BlockPacket, peerVars, storeVars
<1>2. PICK b \in Block : \E type :
         stack' = Append(stack, IF type = "block"
                                THEN [Frame(c, "packet", "parent", b) EXCEPT !.rest = TxsOf[b]]
                                ELSE Frame(c, "packet", "parent", b))
  BY DEF BlockPacket, Handler
<1> DEFINE f == Frame(c, "packet", "parent", b)
           g == [f EXCEPT !.rest = TxsOf[b]]
<1>3. /\ DOMAIN f = FrameFields /\ f.c = c /\ f.at = "parent" /\ f.item = b /\ f.ans = {}
  BY FrameNew
<1>4. /\ DOMAIN g = FrameFields /\ g.c = c /\ g.at = "parent" /\ g.item = b /\ g.ans = {}
  <2> HIDE DEF f
  <2> QED
    BY <1>3 DEF FrameFields
<1>5. \E x \in {f, g} : stack' = Append(stack, x)
  BY <1>2
<1> HIDE DEF f, g
<1>6. FrameOK(f) /\ FrameOK(g)
  BY <1>3, <1>4 DEF FrameOK, BlockWork
<1>7. QED
  BY <1>1, <1>5, <1>6, ConnKept DEF Keeps, ConnectorInv, StackStep, Pushed

LEMMA TickKeeps ==
  ASSUME ConnectorInv, NEW c \in Client, Tick(c)
  PROVE  Keeps
<1>1. /\ UNCHANGED << conn, peers, nonce, db >>
      /\ stack' = Append(stack, Frame(c, "timer", "last", None))
  BY DEF Tick, peerVars, storeVars
<1>2. QED
  BY <1>1, HandlerKeeps, ConnKept DEF Keeps, ConnectorInv, BlockWork

LEMMA ConnectionsKeep ==
  ASSUME ConnectorInv, NEW c \in Client,
         IncomingTcp(c) \/ \E a \in {Node, Self} : OutgoingTcp(c, a)
  PROVE  Keeps
<1>1. ConnInv' /\ Living
  BY ConnIncoming, ConnOutgoing DEF ConnectorInv
<1>2. /\ UNCHANGED db
      /\ \/ UNCHANGED stack
         \/ stack' = Append(stack, Frame(c, "out", "height", None))
  BY DEF IncomingTcp, OutgoingTcp, storeVars
<1>3. StackStep
  BY <1>2, HandlerKeeps DEF StackStep, BlockWork
<1>4. QED
  BY <1>1, <1>3 DEF Keeps

\* The buffers under every action but the deletion of a client.
LEMMA ResumeBufs ==
  ASSUME Resume
  PROVE  BufStep
BY DEF Resume, SendVersion, InvNext, GetNext, Fetched, TxHas, TxPut, GotParent, GotKnows,
       GotTxKnows, TxStored, Linked, BlockStored, AskNext, SendGetBlocks, BufStep

LEMMA ReceiveBufs ==
  ASSUME NEW c \in Client, Receive(c)
  PROVE  BufStep
<1>1. \E type : Packet(c, type)
  BY DEF Receive, Ping, Ignored, Version, Verack, Inv, GetData, TxPacket, BlockPacket
<1>2. QED
  BY <1>1 DEF BufStep

LEMMA EventBufs ==
  ASSUME \/ Reload \/ SendQueuedInventory \/ Refresh
         \/ \E c \in Client :
               \/ Arrive(c) \/ Tick(c) \/ NodeTalks(c) \/ IncomingTcp(c) \/ LinkLoss(c)
               \/ PeerClosed(c) \/ \E a \in {Node, Self} : OutgoingTcp(c, a)
  PROVE  BufStep
BY DEF Reload, SendQueuedInventory, Refresh, Tick, NodeTalks, IncomingTcp, LinkLoss,
       PeerClosed, OutgoingTcp, BufStep

-----------------------------------------------------------------------------
(* The theorems                                                             *)

LEMMA ConnectorInit == Init => ConnectorInv
<1> SUFFICES ASSUME Init PROVE ConnectorInv
  OBVIOUS
<1>1. conn \in [Client -> ClientIn({<< >>})] /\ \A c \in Client : conn[c].st = "none"
  BY DEF Init, NoClient, ClientIn
<1>2. ConnInv
  BY <1>1, ConnectorAssumption DEF Init, ConnInv, ConnShape, NoStaleEntry, Paired, NoClient
<1>3. << >> \in Seq(ToSet(<< >>)) /\ DOMAIN << >> = {}
  <2>1. << >> \in Seq({}) /\ Len(<< >>) = 0
    BY EmptySeq
  <2>2. DOMAIN << >> = 1 .. 0
    BY <2>1, LenProperties
  <2> QED
    BY <2>2, EmptySeq
<1>4. HandlersInv
  BY <1>3 DEF Init, HandlersInv, StackOK, IsSeq, DepthsOK, DepthOfParent, Stored
<1>5. BufInv
  BY DEF Init, BufInv
<1>6. QED
  BY <1>2, <1>4, <1>5 DEF ConnectorInv

LEMMA ConnectorInvariant == Spec => []ConnectorInv
<1>1. ConnectorInv /\ [Next]_vars => ConnectorInv'
  <2> SUFFICES ASSUME ConnectorInv, [Next]_vars PROVE ConnectorInv'
    OBVIOUS
  <2>1. Keeps /\ BufStep => ConnectorInv'
    BY HandlersStep, BufKept DEF Keeps, StackStep, ConnectorInv
  <2>2. CASE UNCHANGED vars
    <3>1. UNCHANGED << conn, peers, nonce, stack, db, bufs >>
      BY <2>2 DEF vars, bufs
    <3> QED
      BY <2>1, <3>1, ConnKept DEF Keeps, StackStep, BufStep, ConnectorInv
  <2>3. CASE Resume
    BY <2>1, <2>3, ResumeBufs, EndsKeeps, InvNextKeeps, GetNextKeeps, TxHasKeeps, GotParentKeeps,
       AddBlockKeeps, TxStoredKeeps, NextBlockKeeps DEF Resume
  <2>4. CASE Reload \/ SendQueuedInventory \/ Refresh
    BY <2>1, <2>4, QuietKeeps, EventBufs
  <2>5. ASSUME NEW i \in DOMAIN stack, Answer(i) \/ Fail(i)
        PROVE  ConnectorInv'
    <3>1. UNCHANGED << conn, peers, nonce, bufs >>
      BY <2>5 DEF Answer, Fail, peerVars
    <3>2. HandlersInv'
      BY <2>5, HandlersAnswer, HandlersFail DEF ConnectorInv
    <3> QED
      BY <3>1, <3>2, ConnKept, BufKept DEF BufStep, ConnectorInv
  <2>6. ASSUME NEW c \in Client, Receive(c)
        PROVE  ConnectorInv'
    BY <2>1, <2>6, ReceiveBufs, QuietKeeps, VersionKeeps, ListKeeps, TxPacketKeeps,
       BlockPacketKeeps DEF Receive
  <2>7. ASSUME NEW c \in Client,
               \/ Arrive(c) \/ Tick(c) \/ NodeTalks(c) \/ IncomingTcp(c) \/ LinkLoss(c)
               \/ PeerClosed(c) \/ \E a \in {Node, Self} : OutgoingTcp(c, a)
        PROVE  ConnectorInv'
    <3>1. BufStep
      BY <2>7, EventBufs
    <3>2. Keeps
      BY <2>7, TickKeeps, LinkLossKeeps, QuietKeeps, ConnectionsKeep
    <3> QED
      BY <2>1, <3>1, <3>2
  <2>8. ASSUME NEW c \in Client, Delete(c)
        PROVE  ConnectorInv'
    <3>1. UNCHANGED << stack, db >>
      BY <2>8 DEF Delete, storeVars
    <3> QED
      BY <2>8, <3>1, ConnDelete, BufDelete, HandlersStep DEF ConnectorInv
  <2> QED
    BY <2>2, <2>3, <2>4, <2>5, <2>6, <2>7, <2>8 DEF Next
<1>2. QED
  BY <1>1, ConnectorInit, PTL DEF Spec

\* However deep the handlers nest, a block in the database has its parent there, and one
\* depth less.
THEOREM DepthCorrect == Spec => []DepthOfParent
<1>1. ConnectorInv => DepthOfParent
  BY DEF ConnectorInv, HandlersInv
<1>2. QED
  BY <1>1, ConnectorInvariant, PTL

\* Every nonce and every key of the table of peers belongs to a client that lives.
THEOREM StaleCorrect == Spec => []NoStaleEntry
<1>1. ConnectorInv => NoStaleEntry
  BY DEF ConnectorInv, ConnInv
<1>2. QED
  BY <1>1, ConnectorInvariant, PTL

=============================================================================
