-------------------------- MODULE BitcoinConnector --------------------------
(***************************************************************************)
(* The bitcoinconnector daemon: its clients, its inventory, and the        *)
(* ElasticSearch database it stores blocks and transactions in.            *)
(*                                                                         *)
(* Everything runs in the thread of the daemon, but every call of the      *)
(* database spins the event loop until its reply is there, and the loop    *)
(* hands out the next packet, timer or connection meanwhile.  So the       *)
(* handlers form a stack: only the last one can go on.  A handler is       *)
(* followed from one database call to the next; a frame of the stack is a  *)
(* handler waiting in a call, and the database may answer any of them.     *)
(*                                                                         *)
(* The peers are one honest bitcoin node and the daemon itself, which its  *)
(* configuration can name by mistake.                                      *)
(***************************************************************************)
EXTENDS Integers, SequencesExt, FiniteSetsExt, TLC

CONSTANTS
    Client,      \* the slots of clients, numbers: a new one takes the first that is free
    Block, Tx,   \* what is stored and announced
    Parent,      \* Parent[b]: the block b names as its parent, or None
    TxsOf,       \* TxsOf[b]: the transactions of b, a sequence
    Chain,       \* the blocks of the node, oldest first
    Node, Self,  \* the two addresses: of the node and of the daemon
    None,
    Conf,        \* the configured peers: reload() compares their names with the keys of
                 \* the table, which are resolved addresses, so that only a literal
                 \* address is recognised
    CacheSize,   \* entries of inventory_cache
    MaxNest,     \* bound on the handlers waiting at a time
    MaxWire,     \* bound on the packets under way when a timer or the node adds one
    MaxEvents    \* bound on what happens from outside: reload() and connections from
                 \* the node, lost links, failed calls of the database, packets the
                 \* node sends of its own accord

ASSUME ConnectorAssumption ==
    /\ Client \subseteq Nat /\ {Node, Self, None} \cap Client = {} /\ Node # None
    /\ None \notin Block /\ Block \cap Tx = {} /\ IsFiniteSet(Tx)
    /\ Parent \in [Block -> Block \cup {None}]
    /\ TxsOf \in [Block -> Seq(Tx)]
    /\ Chain \in Seq(Block) \ {<< >>} /\ ToSet(Chain) = Block /\ Parent[Chain[1]] = None
    /\ Conf \subseteq [addr : {Node, Self}, literal : BOOLEAN]
    /\ {CacheSize, MaxNest, MaxWire, MaxEvents} \subseteq Nat \ {0}

VARIABLES
    conn,    \* the clients
    net,     \* net[c]: the packets under way to client c, until they are handled;
    taken,   \* the first taken[c] of them are in in_buf,
    held,    \* the next held[c] wait in the socket without having been announced
    tmp,     \* sockets of reload() that are still connecting, for each address
    peers,   \* keys of the table of peers
    nonce,   \* clients whose nonce is registered
    stack,   \* the handlers that wait for the database
    cache,   \* inventory_cache
    queue,   \* inventory_queue
    db,      \* the database: depth of the blocks, transactions, links of the two
    view,    \* blocks a search can find: the index is refreshed now and then
    lost,    \* items whose storing failed
    events   \* what MaxEvents counts

vars == << conn, net, taken, held, tmp, peers, nonce, stack, cache, queue, db, view,
           lost, events >>
bufs == << taken, held >>
storeVars == << db, view, lost >>
peerVars == << conn, tmp, peers >>

Item == Block \cup Tx
Msg(type, xs) == [type |-> type, xs |-> xs]

NoClient == [st |-> "none", peer |-> None, out |-> FALSE, sent |-> FALSE,
             got |-> FALSE, todl |-> << >>]
NewPeer(peer, out) == [NoClient EXCEPT !.st = "up", !.peer = peer, !.out = out,
                                       !.sent = out]
Up(c) == conn[c].st = "up"
Free == {c \in Client : conn[c].st = "none"}
First(c, S) == c \in S /\ \A x \in S : c <= x
Key(c) == IF ~conn[c].out THEN c ELSE IF conn[c].peer = Node THEN Node ELSE Self

Init ==
    /\ conn = [c \in Client |-> NoClient]
    /\ net = [c \in Client |-> << >>]
    /\ taken = [c \in Client |-> 0] /\ held = [c \in Client |-> 0]
    /\ tmp = [a \in {Node, Self} |-> 0]
    /\ peers = {} /\ nonce = {} /\ stack = << >> /\ cache = {} /\ queue = << >>
    /\ db = [depth |-> << >>, tx |-> {}, link |-> {}]
    /\ view = {} /\ lost = {}
    /\ events = 0

-----------------------------------------------------------------------------
\* The node (external) answers what it is asked, from a chain that does not change:
\* so its answer is taken to be on its way as soon as the question is.
After(b) ==
    LET i == CHOOSE i \in DOMAIN Chain : Chain[i] = b
    IN SubSeq(Chain, i + 1, Len(Chain))
Data(x) == Msg(IF x \in Tx THEN "tx" ELSE "block", << x >>)

NodeAnswers(c, m) ==
    CASE m.type = "version" ->
            IF conn[c].out THEN << Msg("version", << Node >>), Msg("verack", << >>) >>
            ELSE << Msg("verack", << >>) >>
      [] m.type = "getdata" -> [i \in DOMAIN m.xs |-> Data(m.xs[i])]
      [] m.type = "getblocks" /\ After(m.xs[1]) # << >> ->
            << Msg("inv", After(m.xs[1])) >>
      [] OTHER -> << >>

\* sendPacket(): nothing leaves a closed socket, and what is sent to an end that is gone
\* is lost.  Of packets that are sent together the node answers the first, or none.
Sent(nt, c, ms) ==
    LET d == conn[c].peer
    IN IF ~Up(c) \/ d = None \/ ms = << >> THEN nt
       ELSE IF d = Node THEN [nt EXCEPT ![c] = @ \o NodeAnswers(c, ms[1])]
       ELSE [nt EXCEPT ![d] = @ \o ms]
Send(c, ms) == net' = Sent(net, c, ms)

\* A packet that lists items is not sent without items.
List(type, xs) == IF xs = << >> THEN << >> ELSE << Msg(type, xs) >>

\* A handler of client c (job: what called it) that waits at a database call.
Frame(c, job, at, item) ==
    [c |-> c, job |-> job, at |-> at, item |-> item, h |-> 0,
     rest |-> << >>, got |-> << >>, done |-> FALSE, ans |-> {}]
Call(f, at) == [f EXCEPT !.at = at, !.done = FALSE, !.ans = {}]

Top == Last(stack)

\* A packet handler of c waits.  The readyRead() of its socket is under way till it is
\* over, and meanwhile the socket announces nothing.
InPacket(c) == \E i \in DOMAIN stack : stack[i].c = c /\ stack[i].job = "packet"

\* handleBuffer() goes on to the next packet of in_buf, and nothing else happens before.
Looping(c) == taken[c] > 0 /\ ~InPacket(c)
Quiet == \A c \in Client : ~Looping(c)

\* The event loop has its turn inside the last handler's call.  (What comes between its
\* reply and the end of the call is taken before the reply: that changes nothing.)
Turn == Quiet /\ (stack # << >> => ~Top.done)
CanNest == Turn /\ Len(stack) < MaxNest
Resumes(at) == Quiet /\ stack # << >> /\ Top.done /\ Top.at = at
Waits(f) == stack' = Append(Front(stack), f)  \* the handler goes on to its next call
Ends == stack' = Front(stack)                 \* the handler returns

Stored == DOMAIN db.depth
Tallest == {b \in view : \A x \in view : db.depth[x] <= db.depth[b]}

\* Mutant: nothing is ever dropped.
InsertionsAll(x) == {cache \cup {x}}

\* QCache::insert(): a full cache drops an entry (the oldest; here any).
Insertions(x) ==
    IF x \in cache \/ Cardinality(cache) < CacheSize THEN {cache \cup {x}}
    ELSE {(cache \ {y}) \cup {x} : y \in cache}

\* xs without the leading items that knows() finds in the cache (ca).
SkipCached(ca, xs) ==
    LET unknown == {k \in DOMAIN xs : xs[k] \notin ca}
    IN IF unknown = {} THEN << >> ELSE SubSeq(xs, Min(unknown), Len(xs))

-----------------------------------------------------------------------------
\* The database: a get, a contains or a search answers with what it found, an index
\* call stores.  Documents are keyed by their hash, so storing one again changes
\* nothing.
Found(f) ==
    CASE f.at = "parent" -> {{Parent[f.item]} \cap Stored}
      [] f.at \in {"knows", "next"} -> {{f.item} \cap Stored}
      [] f.at \in {"txknows", "txhas", "fetch"} -> {{Head(f.rest)} \cap db.tx}
      [] f.at \in {"inv", "get"} -> {{Head(f.rest)} \cap (Stored \cup db.tx)}
      [] f.at = "last" -> IF Tallest = {} THEN {{}} ELSE {{b} : b \in Tallest}
      [] OTHER -> {{}}

Indexed(f) ==
    CASE f.at = "store" ->
            [db EXCEPT !.depth = [b \in Stored \cup {f.item} |->
                                     IF b = f.item THEN f.h ELSE @[b]]]
      [] f.at \in {"txstore", "txput"} -> [db EXCEPT !.tx = @ \cup {Head(f.rest)}]
      [] f.at = "blocktx" -> [db EXCEPT !.link = @ \cup {<< f.item, Head(f.rest) >>}]
      [] OTHER -> db

Reply(i, ans) == stack' = [stack EXCEPT ![i] = [@ EXCEPT !.done = TRUE, !.ans = ans]]

Answer(i) ==
    /\ ~stack[i].done
    /\ \E ans \in Found(stack[i]) : Reply(i, ans)
    /\ db' = Indexed(stack[i])
    /\ UNCHANGED << bufs, peerVars, net, nonce, cache, queue, view, lost, events >>

\* Every error of the database reads as nothing found, and nobody looks at the
\* result of index().
Storing(f) ==
    CASE f.at = "store" -> {f.item}
      [] f.at \in {"txstore", "txput"} -> {Head(f.rest)}
      [] f.at = "blocktx" -> {<< f.item, Head(f.rest) >>}
      [] OTHER -> {}

Fail(i) ==
    /\ ~stack[i].done /\ events < MaxEvents
    /\ Reply(i, {})
    /\ lost' = lost \cup Storing(stack[i])
    /\ events' = events + 1
    /\ UNCHANGED << bufs, peerVars, net, nonce, cache, queue, db, view >>

Refresh ==
    /\ view # Stored /\ view' = Stored
    /\ UNCHANGED << bufs, peerVars, net, nonce, stack, cache, queue, db, lost, events >>

-----------------------------------------------------------------------------
\* Connections.
RegisterNonce(c) == nonce' = nonce \cup {c}

Reload ==
    /\ CanNest /\ events < MaxEvents
    /\ LET missing == {e \in Conf : ~(e.literal /\ e.addr \in peers)}
       IN tmp' = [a \in DOMAIN tmp |->
                    tmp[a] + Cardinality({e \in missing : e.addr = a})]
    /\ events' = events + 1
    /\ UNCHANGED << bufs, conn, net, peers, nonce, stack, cache, queue, storeVars >>

\* outgoingTcp(): clientInit(), then sendVersion() up to its database call.
OutgoingTcp(c, a) ==
    /\ CanNest /\ tmp[a] > 0 /\ First(c, Free)
    /\ tmp' = [tmp EXCEPT ![a] = @ - 1]
    /\ \/ a = Node /\ conn' = [conn EXCEPT ![c] = NewPeer(Node, TRUE)]
       \/ /\ a = Self
          /\ \E d \in Client :
                /\ First(d, Free \ {c})
                /\ conn' = [conn EXCEPT
                       ![c] = NewPeer(d, TRUE),
                       ![d] = [NewPeer(c, FALSE) EXCEPT !.st = "accept"]]
    /\ peers' = peers \cup {a}
    /\ RegisterNonce(c)
    /\ stack' = Append(stack, Frame(c, "out", "height", None))
    /\ UNCHANGED << bufs, net, cache, queue, storeVars, events >>

IncomingTcp(c) ==
    /\ CanNest
    /\ \/ /\ conn[c].st = "accept"
          /\ conn' = [conn EXCEPT ![c].st = "up"]
          /\ UNCHANGED << net, events >>
       \/ /\ First(c, Free) /\ events < MaxEvents
          /\ conn' = [conn EXCEPT ![c] = NewPeer(Node, FALSE)]
          /\ net' = [net EXCEPT ![c] = << Msg("version", << Node >>) >>]
          /\ events' = events + 1
    /\ peers' = peers \cup {c}
    /\ UNCHANGED << bufs, tmp, nonce, stack, cache, queue, storeVars >>

LinkLoss(c) ==
    /\ Turn /\ Up(c) /\ events < MaxEvents
    /\ conn' = [conn EXCEPT ![c].st = "closing"]
    /\ events' = events + 1
    /\ UNCHANGED << bufs, net, tmp, peers, nonce, stack, cache, queue, storeVars >>

\* The other end of a connection to itself closed it, or is gone: the client hears of it
\* after what was sent before, or loses some of that.
PeerClosed(c) ==
    LET d == conn[c].peer
    IN /\ Turn /\ Up(c)
       /\ d = None \/ (d \in Client /\ conn[d].st = "closing")
       /\ conn' = [conn EXCEPT ![c].st = "closing"]
       /\ UNCHANGED << bufs, net, tmp, peers, nonce, stack, cache, queue, storeVars, events >>

\* Client c is gone, and its socket: the other end of a connection to itself, if that is
\* what it was, keeps what is under way to it.  The nonce in that is of nobody then, also
\* when the slot of c is taken again.
Orphaned(ms, c) ==
    [i \in DOMAIN ms |-> IF ms[i].type = "version" /\ ms[i].xs = << c >>
                         THEN Msg("version", << None >>) ELSE ms[i]]

Gone(c) ==
    LET d == conn[c].peer
        closed == [conn EXCEPT ![c] = NoClient]
        emptied == [net EXCEPT ![c] = << >>]
    IN /\ conn' = IF d \in Client THEN [closed EXCEPT ![d].peer = None] ELSE closed
       /\ net' = IF d \in Client THEN [emptied EXCEPT ![d] = Orphaned(@, c)] ELSE emptied
       /\ held' = [held EXCEPT ![c] = 0]
       /\ UNCHANGED taken

\* Mutant: the destructor leaves the nonce.
DeleteOnly(c) ==
    /\ Turn /\ conn[c].st = "closing" /\ \A f \in ToSet(stack) : f.c # c
    /\ Gone(c)
    /\ peers' = peers \ {Key(c)}
    /\ UNCHANGED << nonce, tmp, stack, cache, queue, storeVars, events >>

\* The deferred deletion of a client, and its destructor.
Delete(c) ==
    /\ Turn /\ conn[c].st = "closing" /\ \A f \in ToSet(stack) : f.c # c
    /\ Gone(c)
    /\ peers' = peers \ {Key(c)}
    /\ nonce' = nonce \ {c}
    /\ UNCHANGED << tmp, stack, cache, queue, storeVars, events >>

-----------------------------------------------------------------------------
\* Packets.  Some of those under way to c arrive (the last of their bytes do).  If no
\* handler of its packets waits, doRead() takes in all that is there and handleBuffer()
\* starts; otherwise the bytes stay in the socket, and the next to arrive after that
\* handler is over takes them along.
Arrive(c) ==
    /\ Up(c)
    /\ \E n \in 1 .. Len(net[c]) - taken[c] - held[c] :
          \/ /\ CanNest /\ ~InPacket(c)
             /\ taken' = [taken EXCEPT ![c] = held[c] + n]
             /\ held' = [held EXCEPT ![c] = 0]
          \/ /\ Turn /\ InPacket(c)
             /\ held' = [held EXCEPT ![c] = @ + n]
             /\ UNCHANGED taken
    /\ UNCHANGED << peerVars, net, nonce, stack, cache, queue, storeVars, events >>

\* The next packet is taken out of in_buf, of a client that was closed too.
Packet(c, type) ==
    /\ Looping(c) /\ Head(net[c]).type = type
    /\ taken' = [taken EXCEPT ![c] = @ - 1]
    /\ UNCHANGED held
Xs(c) == Head(net[c]).xs
Took(c) == [net EXCEPT ![c] = Tail(@)]
Handler(c, at, item) == Frame(c, "packet", at, item)

Ping(c) ==
    /\ Packet(c, "ping")
    /\ net' = Sent(Took(c), c, << Msg("pong", << >>) >>)
    /\ UNCHANGED << peerVars, nonce, stack, cache, queue, storeVars, events >>

\* addr registers addresses nobody uses; pong, notfound and getblocks have no handler.
\* (A block packet without a block, which only this daemon sends, is dropped here.)
Ignored(c) ==
    /\ \/ \E type \in {"addr", "pong", "notfound", "getblocks"} : Packet(c, type)
       \/ Packet(c, "header") /\ Xs(c) = << >>
    /\ net' = Took(c)
    /\ UNCHANGED << peerVars, nonce, stack, cache, queue, storeVars, events >>

Version(c) ==
    /\ Packet(c, "version")
    /\ \/ /\ Xs(c)[1] \in nonce
          /\ conn' = [conn EXCEPT ![c].st = "closing"]
          /\ net' = Took(c)
          /\ UNCHANGED << nonce, stack >>
       \/ /\ Xs(c)[1] \notin nonce /\ conn[c].sent
          /\ conn' = [conn EXCEPT ![c].got = TRUE]
          /\ net' = Sent(Took(c), c, << Msg("verack", << >>) >>)
          /\ UNCHANGED << nonce, stack >>
       \/ /\ Xs(c)[1] \notin nonce /\ ~conn[c].sent
          /\ conn' = [conn EXCEPT ![c].got = TRUE, ![c].sent = TRUE]
          /\ RegisterNonce(c)
          /\ net' = Took(c)
          /\ stack' = Append(stack, Handler(c, "height", None))
    /\ UNCHANGED << tmp, peers, cache, queue, storeVars, events >>

\* Mutant: the nonce is forgotten as soon as it is sent.
SendVersionForget ==
    /\ Resumes("height")
    /\ Send(Top.c, << Msg("version", << Top.c >>) >>
                   \o IF Top.job = "packet" THEN << Msg("verack", << >>) >> ELSE << >>)
    /\ Ends /\ nonce' = nonce \ {Top.c}
    /\ UNCHANGED << bufs, peerVars, cache, queue, storeVars, events >>

\* The rest of sendVersion(), and the verack that follows it in the handler of version.
SendVersion ==
    /\ Resumes("height")
    /\ Send(Top.c, << Msg("version", << Top.c >>) >>
                   \o IF Top.job = "packet" THEN << Msg("verack", << >>) >> ELSE << >>)
    /\ Ends
    /\ UNCHANGED << bufs, peerVars, nonce, cache, queue, storeVars, events >>

Verack(c) ==
    /\ Packet(c, "verack")
    /\ nonce' = nonce \ {c}
    /\ net' = Took(c)
    /\ UNCHANGED << peerVars, stack, cache, queue, storeVars, events >>

-----------------------------------------------------------------------------
\* inv: unknown blocks go to the list of the client, only the first of the list is
\* asked for now.
InvLoop(base, f, nt, rest, got) ==
    IF rest = << >>
    THEN /\ stack' = base
         /\ net' = Sent(nt, f.c, List("getdata", got))
    ELSE /\ stack' = Append(base, [Call(f, "inv") EXCEPT !.rest = rest, !.got = got])
         /\ net' = nt

\* Mutant: no block is asked for, the list is left to the next block that comes.
WantedTx(todl, x) == x \in Tx

Wanted(todl, x) == x \in Tx \/ todl = << >>

Inv(c) ==
    /\ Packet(c, "inv")
    /\ InvLoop(stack, Handler(c, "inv", None), Took(c), SkipCached(cache, Xs(c)), << >>)
    /\ UNCHANGED << peerVars, nonce, cache, queue, storeVars, events >>

InvNext ==
    LET x == Head(Top.rest)
        unknown == Top.ans = {}
        todl == conn[Top.c].todl
    IN /\ Resumes("inv")
       /\ conn' = IF unknown /\ x \in Block
                  THEN [conn EXCEPT ![Top.c].todl = Append(@, x)] ELSE conn
       /\ InvLoop(Front(stack), Top, net, SkipCached(cache, Tail(Top.rest)),
                  IF unknown /\ Wanted(todl, x) THEN Append(Top.got, x) ELSE Top.got)
       /\ UNCHANGED << bufs, tmp, peers, nonce, cache, queue, storeVars, events >>

\* getdata: of a block only the header is kept, and only in the cache.
Served(x) == IF x \in Tx THEN Msg("tx", << x >>) ELSE Msg("header", << x >>)

GetLoop(ca, base, f, nt, rest, missing) ==
    LET unknown == SkipCached(ca, rest)
        known == SubSeq(rest, 1, Len(rest) - Len(unknown))
        sent == Sent(nt, f.c, [i \in DOMAIN known |-> Served(known[i])])
    IN IF unknown = << >>
       THEN /\ stack' = base
            /\ net' = Sent(sent, f.c, List("notfound", missing))
       ELSE /\ stack' = Append(base, [Call(f, "get") EXCEPT !.rest = unknown,
                                                            !.got = missing])
            /\ net' = sent

GetData(c) ==
    /\ Packet(c, "getdata")
    /\ GetLoop(cache, stack, Handler(c, "get", None), Took(c), Xs(c), << >>)
    /\ UNCHANGED << peerVars, nonce, cache, queue, storeVars, events >>

GetNext ==
    LET x == Head(Top.rest)
    IN /\ Resumes("get")
       /\ \/ /\ Top.ans = {}
             /\ GetLoop(cache, Front(stack), Top, net, Tail(Top.rest), Append(Top.got, x))
          \/ /\ Top.ans # {} /\ x \in Block /\ x \notin cache
             /\ GetLoop(cache, Front(stack), Top, Sent(net, Top.c, << Msg("header", << >>) >>),
                        Tail(Top.rest), Top.got)
          \/ /\ Top.ans # {} /\ x \in cache
             /\ GetLoop(cache, Front(stack), Top, net, Top.rest, Top.got)
          \/ /\ Top.ans # {} /\ x \in Tx /\ x \notin cache
             /\ Waits(Call(Top, "fetch")) /\ UNCHANGED net
       /\ UNCHANGED << bufs, peerVars, nonce, cache, queue, storeVars, events >>

Fetched ==
    LET x == Head(Top.rest)
    IN /\ Resumes("fetch")
       /\ \E ca \in IF Top.ans = {} THEN {cache} ELSE Insertions(x) :
             /\ cache' = ca
             /\ GetLoop(ca, Front(stack), Top,
                        Sent(net, Top.c,
                             << Msg("tx", IF Top.ans = {} THEN << >> ELSE << x >>) >>),
                        Tail(Top.rest), Top.got)
       /\ UNCHANGED << bufs, peerVars, nonce, queue, storeVars, events >>

-----------------------------------------------------------------------------
\* tx: addInventory() of an unknown transaction.
PutTx(f, base) ==
    /\ cache' \in Insertions(Head(f.rest))
    /\ queue' = Append(queue, Head(f.rest))
    /\ stack' = Append(base, Call(f, "txput"))

TxPacket(c) ==
    /\ Packet(c, "tx")
    /\ net' = Took(c)
    /\ stack' = IF SkipCached(cache, Xs(c)) = << >> THEN stack
                ELSE Append(stack, [Handler(c, "txhas", None) EXCEPT !.rest = Xs(c)])
    /\ UNCHANGED << peerVars, nonce, cache, queue, storeVars, events >>

TxHas ==
    /\ Resumes("txhas")
    /\ \/ Top.ans # {} /\ Ends /\ UNCHANGED << cache, queue >>
       \/ Top.ans = {} /\ PutTx(Top, Front(stack))
    /\ UNCHANGED << bufs, peerVars, net, nonce, storeVars, events >>

TxPut ==
    /\ Resumes("txput") /\ Ends
    /\ UNCHANGED << bufs, peerVars, net, nonce, cache, queue, storeVars, events >>

-----------------------------------------------------------------------------
\* block: looked up, stored unless it is an orphan or known, and then the next of
\* the list is asked for.  A packet "header" is a block without its transactions.
BlockPacket(c) ==
    /\ \E type \in {"block", "header"}, b \in Block :
          /\ Packet(c, type) /\ Xs(c) # << >> /\ b = Xs(c)[1]
          /\ LET f == Handler(c, "parent", b)
             IN stack' = Append(stack, IF type = "block"
                                       THEN [f EXCEPT !.rest = TxsOf[b]] ELSE f)
    /\ net' = Took(c)
    /\ UNCHANGED << peerVars, nonce, cache, queue, storeVars, events >>

NextTodl(f, base) ==
    LET todl == SkipCached(cache, conn[f.c].todl)
    IN IF todl = << >>
       THEN stack' = base /\ conn' = [conn EXCEPT ![f.c].todl = << >>]
       ELSE /\ stack' = Append(base, Frame(f.c, f.job, "next", Head(todl)))
            /\ conn' = [conn EXCEPT ![f.c].todl = Tail(todl)]

\* Mutant: a block whose parent is missing is stored all the same.
OrphanAccepted(f) == FALSE

Orphan(f) == f.ans = {} /\ Parent[f.item] # None

\* addBlock(): every transaction, then the block itself.
AddBlock(f, rest) ==
    LET g == [f EXCEPT !.rest = rest]
    IN IF rest = << >>
       THEN /\ cache' \in Insertions(f.item)
            /\ queue' = Append(queue, f.item)
            /\ Waits(Call(g, "store"))
       ELSE /\ Waits(Call(g, IF Head(rest) \in cache THEN "blocktx" ELSE "txknows"))
            /\ UNCHANGED << cache, queue >>

GotParent ==
    LET h == IF Top.ans = {} THEN 0 ELSE 1 + db.depth[Parent[Top.item]]
    IN /\ Resumes("parent")
       /\ IF Orphan(Top) \/ Top.item \in cache
          THEN NextTodl(Top, Front(stack))
          ELSE Waits([Call(Top, "knows") EXCEPT !.h = h]) /\ UNCHANGED conn
       /\ UNCHANGED << bufs, net, tmp, peers, nonce, cache, queue, storeVars, events >>

GotKnows ==
    /\ Resumes("knows")
    /\ IF Top.ans # {}
       THEN NextTodl(Top, Front(stack)) /\ UNCHANGED << cache, queue >>
       ELSE AddBlock(Top, Top.rest) /\ UNCHANGED conn
    /\ UNCHANGED << bufs, net, tmp, peers, nonce, storeVars, events >>

\* Mutant: an unknown transaction of a block is cached but not stored.
GotTxKnowsCached ==
    /\ Resumes("txknows") /\ Waits(Call(Top, "blocktx"))
    /\ cache' \in IF Top.ans # {} THEN {cache} ELSE Insertions(Head(Top.rest))
    /\ UNCHANGED << bufs, peerVars, net, nonce, queue, storeVars, events >>

GotTxKnows ==
    /\ Resumes("txknows")
    /\ IF Top.ans # {}
       THEN Waits(Call(Top, "blocktx")) /\ UNCHANGED cache
       ELSE cache' \in Insertions(Head(Top.rest)) /\ Waits(Call(Top, "txstore"))
    /\ UNCHANGED << bufs, peerVars, net, nonce, queue, storeVars, events >>

TxStored ==
    /\ Resumes("txstore") /\ Waits(Call(Top, "blocktx"))
    /\ UNCHANGED << bufs, peerVars, net, nonce, cache, queue, storeVars, events >>

Linked ==
    /\ Resumes("blocktx") /\ AddBlock(Top, Tail(Top.rest))
    /\ UNCHANGED << bufs, peerVars, net, nonce, storeVars, events >>

BlockStored ==
    /\ Resumes("store") /\ NextTodl(Top, Front(stack))
    /\ UNCHANGED << bufs, net, tmp, peers, nonce, cache, queue, storeVars, events >>

AskNext ==
    /\ Resumes("next")
    /\ \/ /\ Top.ans = {}
          /\ Send(Top.c, << Msg("getdata", << Top.item >>) >>)
          /\ Ends /\ UNCHANGED conn
       \/ /\ Top.ans # {}
          /\ NextTodl(Top, Front(stack)) /\ UNCHANGED net
    /\ UNCHANGED << bufs, tmp, peers, nonce, cache, queue, storeVars, events >>

-----------------------------------------------------------------------------
\* The packets to c that will be announced: those that were held are waiting for nothing.
Wire(c) == Len(net[c]) - IF InPacket(c) THEN 0 ELSE held[c]

\* sendGetBlocks(), on the timer of the client (which starts when the handshake is
\* over: the first five minutes are taken to be enough for it).  The two searches of
\* getLastBlock() are one call here, and the gets that walk down from the last block
\* are left out: the locator starts with it, and the node knows every block that the
\* daemon has.
Tick(c) ==
    /\ CanNest /\ conn[c].got /\ conn[c].todl = << >>
    /\ Wire(c) < MaxWire
    /\ \A i \in DOMAIN stack : stack[i].c = c => stack[i].job # "timer"
    /\ stack' = Append(stack, Frame(c, "timer", "last", None))
    /\ UNCHANGED << bufs, peerVars, net, nonce, cache, queue, storeVars, events >>

SendGetBlocks ==
    /\ Resumes("last")
    /\ Send(Top.c, IF Top.ans = {} THEN << Msg("getdata", << Chain[1] >>) >>
                   ELSE << Msg("getblocks", SetToSeq(Top.ans)) >>)
    /\ Ends
    /\ UNCHANGED << bufs, peerVars, nonce, cache, queue, storeVars, events >>

\* sendQueuedInventory(), to every client whatever its handshake has reached; the node
\* has nothing to answer.
SendQueuedInventory ==
    /\ CanNest /\ queue # << >>
    /\ net' = [d \in Client |-> IF \E c \in Client : Up(c) /\ conn[c].peer = d
                               THEN Append(net[d], Msg("inv", queue)) ELSE net[d]]
    /\ queue' = << >>
    /\ UNCHANGED << bufs, peerVars, nonce, stack, cache, storeVars, events >>

-----------------------------------------------------------------------------
\* What the node (external) may send of its own accord, after the versions are exchanged.
Talk ==
    {Msg("ping", << >>), Msg("addr", << >>), Msg("inv", << Last(Chain) >>),
     Msg("getdata", SetToSeq(Item))} \cup {Msg("inv", << t >>) : t \in Tx}

NodeTalks(c) ==
    /\ Up(c) /\ conn[c].peer = Node /\ conn[c].got
    /\ events < MaxEvents /\ Wire(c) < MaxWire
    /\ \E m \in Talk : net' = [net EXCEPT ![c] = Append(@, m)]
    /\ events' = events + 1
    /\ UNCHANGED << bufs, peerVars, nonce, stack, cache, queue, storeVars >>

-----------------------------------------------------------------------------
Resume ==
    \/ SendVersion \/ InvNext \/ GetNext \/ Fetched \/ TxHas \/ TxPut
    \/ GotParent \/ GotKnows \/ GotTxKnows \/ TxStored \/ Linked \/ BlockStored
    \/ AskNext \/ SendGetBlocks

Receive(c) ==
    \/ Ping(c) \/ Ignored(c) \/ Version(c) \/ Verack(c) \/ Inv(c) \/ GetData(c)
    \/ TxPacket(c) \/ BlockPacket(c)

Next ==
    \/ Resume \/ Reload \/ SendQueuedInventory \/ Refresh
    \/ \E i \in DOMAIN stack : Answer(i) \/ Fail(i)
    \/ \E c \in Client :
          \/ Arrive(c) \/ Receive(c) \/ Tick(c) \/ NodeTalks(c)
          \/ IncomingTcp(c) \/ LinkLoss(c) \/ PeerClosed(c) \/ Delete(c)
          \/ \E a \in {Node, Self} : OutgoingTcp(c, a)

\* Bytes arrive and the event loop hands out every event in its turn (the bound on the
\* nesting takes its turn away now and then, hence SF), calls of the database end, and
\* the node answers.
Fairness ==
    /\ \A n \in 1 .. MaxNest :
          /\ SF_vars(Len(stack) = n /\ Resume)
          /\ WF_vars(n \in DOMAIN stack /\ Answer(n))
    /\ WF_vars(Refresh)
    /\ \A c \in Client :
          SF_vars(Arrive(c)) /\ WF_vars(Receive(c)) /\ SF_vars(Tick(c))

Spec == Init /\ [][Next]_vars /\ Fairness

-----------------------------------------------------------------------------
Frames == ToSet(stack)

TypeOK ==
    /\ \A c \in Client :
          /\ conn[c].st \in {"none", "accept", "up", "closing"}
          /\ conn[c].peer \in Client \cup {Node, None}
          /\ conn[c].todl \in Seq(Block)
          /\ {taken[c], held[c]} \subseteq Nat /\ taken[c] + held[c] <= Len(net[c])
    /\ peers \subseteq Client \cup {Node, Self} /\ nonce \subseteq Client
    /\ \A f \in Frames : f.c \in Client
    /\ cache \subseteq Item /\ Cardinality(cache) <= CacheSize
    /\ queue \in Seq(Item)
    /\ Stored \subseteq Block /\ db.tx \subseteq Tx /\ view \subseteq Stored

\* A stored block has its parent stored, one deeper: no order of packets, no handler
\* run inside another one's database call and no error of the database lets an
\* orphan in or gives a block a wrong depth, on which getLastBlock() relies.
DepthOfParent ==
    \A b \in Stored :
        IF Parent[b] = None THEN db.depth[b] = 0
        ELSE Parent[b] \in Stored /\ db.depth[b] = db.depth[Parent[b]] + 1

\* What the daemon counts as known, has announced or will announce, and the
\* transactions of the blocks it has stored with their links, is in the database,
\* or a handler is storing it, or the database failed to store it.
Known ==
    cache \cup ToSet(queue)
    \cup UNION {ToSet(TxsOf[b]) \cup {<< b, t >> : t \in ToSet(TxsOf[b])} : b \in Stored}

KnownIsStored ==
    Known \subseteq Stored \cup db.tx \cup db.link \cup lost
                   \cup UNION {Storing(f) : f \in Frames}

\* The daemon goes on with no connection to itself that has both ends: the nonce it sent is
\* still registered when its own version packet comes in.
NoSelfPeer == \A c \in Client : Up(c) /\ conn[c].got => conn[c].peer \notin Client

\* Nothing is left of a client that has died, however early it did: no nonce, and no
\* key that would stop reload() from connecting again.
NoStaleEntry ==
    LET live == {c \in Client : conn[c].st # "none"}
    IN nonce \subseteq live /\ peers \subseteq {Key(c) : c \in live}

\* A client that lasts, connected to the node, brings in its whole chain, though the daemon
\* asks for one block at a time, drops orphans and forgets their names.  Only a failure of
\* the database to store something can keep it from that, or an answer that came while
\* another packet of the client was being handled: as long as there is something on its
\* list, its timer does nothing, and it waits until the node speaks again.
Stalled(c) == held[c] > 0 /\ conn[c].todl # << >>

Synced ==
    \A c \in Client :
        <>[](Up(c) /\ conn[c].peer = Node)
            => <>(lost # {} \/ Stored = Block) \/ <>[]Stalled(c)

=============================================================================
