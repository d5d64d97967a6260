------------------------------- MODULE ModPS -------------------------------
(***************************************************************************)
(* The publish/subscribe relay daemon mod/daemon/ps: ModPS (the daemon),    *)
(* ModPSClient (one object per connected consumer) and the upstream         *)
(* "masters" it subscribes to.  A ModPS lives in one thread: every slot is  *)
(* an event handler that runs to completion, so every handler is one action *)
(* and the interleavings are those of the event loop, of the peers and of   *)
(* the network.  deleteLater() runs the destructor at a later turn of the   *)
(* loop: a client it was called on is "doomed" until then, and still holds  *)
(* its channels.                                                            *)
(*                                                                          *)
(* The far end of a master's connection is a ModPSClient of another ps      *)
(* daemon: its channel set is mSubs[m], and the packets in between are      *)
(* pipe[m] (towards the master) and inq[m] (from it).                       *)
(*                                                                          *)
(* The definitions ChannelAddRefUncounted, OlderByPing, DialsNew,           *)
(* DialsExisting, ConfiguredAnew, ResubscribeNothing and ResubscribeBare    *)
(* stand before the definition whose plausible wrong version they are; the  *)
(* specification does not use them.                                         *)
(***************************************************************************)
EXTENDS Integers, Sequences, FiniteSets

CONSTANTS
  Client,      \* identities of consumer objects; an identity is reused once deleted
  Channel,     \* channel keys (QByteArray)
  Master,      \* the strings a configuration may list as masters
  None,        \* no client
  Udp,         \* the datagram entry, a source of packets beside the masters
  KeyLen,      \* KeyLen[ch]: bytes in key ch; a whole packet has all 16
  Dialable,    \* masters of the form host:port
  Prompt,      \* masters that, when up, answer within one timer period and
               \* do not close a connection they can parse
  Confs,       \* the configurations reload() may read
  StaleAfter,  \* silent timer periods a link survives (60 s / 10 s = 6)
  MaxPipe,     \* bound: batches queued towards a master when a client acts
  MaxInq,      \* bound: packets in flight from a master
  MaxSent      \* bound: data packets a source sends

Source == Master \cup {Udp}

ASSUME ConstantsOK ==
  /\ IsFiniteSet(Client) /\ None \notin Client
  /\ Udp \notin Master
  /\ KeyLen \in [Channel -> 0..16]
  /\ Dialable \subseteq Master /\ Prompt \subseteq Master
  /\ Confs \subseteq [masters : SUBSET Master, limit : SUBSET Channel]
  /\ StaleAfter \in Nat /\ MaxPipe \in Nat /\ MaxInq \in Nat /\ MaxSent \in Nat

VARIABLES
  status,    \* status[c]: "free" (no object), "live", or "doomed" (deleteLater called)
  chans,     \* chans[c]: ModPSClient::channels
  running,   \* the client whose handleBuffer loop goes on after it closed its socket
  refcount,  \* ModPS::channel_refcount; 0 stands for "not contained"
  limit,     \* ModPS::subscribe_limit; empty allows every channel
  sock,      \* sock[m]: ModPS::masters[m] and the state of its QTcpSocket
  age,       \* age[m]: ticks of the timer since the "stamp" property was set
  pipe,      \* pipe[m]: packets written to m that it has not handled
  framed,    \* framed[m]: every packet written to m had the length it announces
  mSubs,     \* mSubs[m]: channels of this relay's client object at m
  up,        \* up[m]: m runs and its path carries packets
  inq,       \* inq[m]: packets m sent that are not read; 0 is a ping reply
  sent,      \* sent[s]: channel of each data packet source s sent, in order
  got,       \* got[c]: packets written to c: <<source, number>>
  crashed    \* abort() was called

clientVars == <<status, chans, running, got>>
linkVars   == <<sock, age, pipe, framed, mSubs, inq>>
vars == <<clientVars, refcount, limit, linkVars, up, sent, crashed>>

Pong == 0
\* An entry of pipe[m]: one packet per channel of chs, or a ping (no channel).
Batch == {b \in [op : {"sub", "unsub", "ping"}, chs : SUBSET Channel] :
            b.chs = {} <=> b.op = "ping"}

Init ==
  /\ status = [c \in Client |-> "free"]
  /\ chans = [c \in Client |-> {}]
  /\ running = None
  /\ refcount = [ch \in Channel |-> 0]
  /\ limit = {}
  /\ sock = [m \in Master |-> "absent"]
  /\ age = [m \in Master |-> 0]
  /\ pipe = [m \in Master |-> <<>>]
  /\ framed = [m \in Master |-> TRUE]
  /\ mSubs = [m \in Master |-> {}]
  /\ up = [m \in Master |-> TRUE]
  /\ inq = [m \in Master |-> <<>>]
  /\ sent = [s \in Source |-> <<>>]
  /\ got = [c \in Client |-> <<>>]
  /\ crashed = FALSE

-----------------------------------------------------------------------------
(* Writing to the masters.                                                  *)

\* QTcpSocket::write() queues while dialling or connected and fails otherwise.
Linked == {m \in Master : sock[m] \in {"connecting", "connected"}}

Room == \A m \in Linked : Len(pipe[m]) < MaxPipe

Whole(chs) == \A ch \in chs : KeyLen[ch] = 16

\* doSubscribe and doUnsubscribe: one packet per channel to every master.
WriteToMasters(op, chs) ==
  LET to == IF chs = {} THEN {} ELSE Linked
  IN /\ pipe' = [m \in Master |->
                   IF m \in to THEN Append(pipe[m], [op |-> op, chs |-> chs])
                               ELSE pipe[m]]
     /\ framed' = [m \in Master |-> framed[m] /\ (m \in to => Whole(chs))]
     /\ UNCHANGED <<sock, age, mSubs, inq>>

ChannelAddRefUncounted(ch) ==
  /\ refcount' = [refcount EXCEPT ![ch] = 1]
  /\ WriteToMasters("sub", IF refcount[ch] = 0 THEN {ch} ELSE {})
  /\ UNCHANGED crashed

ChannelAddRef(ch) ==
  /\ refcount' = [refcount EXCEPT ![ch] = @ + 1]
  /\ WriteToMasters("sub", IF refcount[ch] = 0 THEN {ch} ELSE {})
  /\ UNCHANGED crashed

\* channelDelRef for each channel of chs, in any order.
ChannelDelRef(chs) ==
  /\ crashed' = \E ch \in chs : refcount[ch] = 0
  /\ refcount' = [ch \in Channel |->
                    IF ch \in chs /\ refcount[ch] > 0 THEN refcount[ch] - 1
                                                      ELSE refcount[ch]]
  /\ WriteToMasters("unsub", {ch \in chs : refcount[ch] <= 1})

Wanted == {ch \in Channel : refcount[ch] > 0}

CanSubscribe(ch) == limit = {} \/ ch \in limit

-----------------------------------------------------------------------------
(* Clients.                                                                 *)

IncomingTcp(c) ==
  /\ running = None /\ status[c] = "free"
  /\ status' = [status EXCEPT ![c] = "live"]
  /\ UNCHANGED <<chans, running, got, refcount, limit, linkVars, up, sent, crashed>>

\* handleBuffer takes packet after packet out of its buffer.  Each packet is
\* a step; nothing can be read from a closed socket, but the packets already
\* in the buffer are still handled before any other event is.
Handles(c) == running = c \/ (running = None /\ status[c] = "live")

HandleSubscribe(c, ch) ==
  /\ Handles(c) /\ Room
  /\ ch \notin chans[c] /\ CanSubscribe(ch)
  /\ chans' = [chans EXCEPT ![c] = @ \cup {ch}]
  /\ ChannelAddRef(ch)
  /\ running' \in {running, None}
  /\ UNCHANGED <<status, got, limit, up, sent>>

HandleUnsubscribe(c, ch) ==
  /\ Handles(c) /\ Room
  /\ ch \in chans[c]
  /\ chans' = [chans EXCEPT ![c] = @ \ {ch}]
  /\ ChannelDelRef({ch})
  /\ running' \in {running, None}
  /\ UNCHANGED <<status, got, limit, up, sent>>

\* A subscription that is not allowed, or a type below 0x80: close the socket
\* and delete later.  More packets may be left in the buffer.
HandleRefused(c) ==
  /\ Handles(c)
  /\ status' = [status EXCEPT ![c] = "doomed"]
  /\ running' \in {c, None}
  /\ UNCHANGED <<chans, got, refcount, limit, linkVars, up, sent, crashed>>

\* The peer closed, a read failed or the buffer is over its limit.
SocketDisconnected(c) ==
  /\ running = None /\ status[c] = "live"
  /\ status' = [status EXCEPT ![c] = "doomed"]
  /\ UNCHANGED <<chans, running, got, refcount, limit, linkVars, up, sent, crashed>>

\* The event loop deletes the object: ~ModPSClient drops its references.
DeleteClient(c) ==
  /\ running = None /\ status[c] = "doomed" /\ Room
  /\ status' = [status EXCEPT ![c] = "free"]
  /\ chans' = [chans EXCEPT ![c] = {}]
  /\ got' = [got EXCEPT ![c] = <<>>]
  /\ ChannelDelRef(chans[c])
  /\ UNCHANGED <<running, limit, up, sent>>

-----------------------------------------------------------------------------
(* Packets towards the clients.                                             *)

\* pushPacket: length field + 2 is 3 + KeyLen + data; it wants at least 17.
LongEnough(ch) == KeyLen[ch] + 3 >= 17

\* channelPacket reaches the clients that hold the channel; the write of a
\* doomed one fails, its socket is closed.
PushPacket(s, n, ch) ==
  got' = [c \in Client |->
            IF LongEnough(ch) /\ ch \in Wanted /\ ch \in chans[c] /\ status[c] = "live"
            THEN Append(got[c], <<s, n>>) ELSE got[c]]

IncomingDatagram(ch) ==
  /\ running = None /\ Len(sent[Udp]) < MaxSent
  /\ sent' = [sent EXCEPT ![Udp] = Append(@, ch)]
  /\ PushPacket(Udp, Len(sent[Udp]) + 1, ch)
  /\ UNCHANGED <<status, chans, running, refcount, limit, linkVars, up, crashed>>

\* One packet of the loop in readFromMaster; a ping reply is ignored.
ReadFromMaster(m) ==
  /\ running = None /\ sock[m] = "connected" /\ inq[m] # <<>>
  /\ age' = [age EXCEPT ![m] = 0]
  /\ inq' = [inq EXCEPT ![m] = Tail(@)]
  /\ IF Head(inq[m]) = Pong THEN UNCHANGED got
     ELSE PushPacket(m, Head(inq[m]), sent[m][Head(inq[m])])
  /\ UNCHANGED <<status, chans, running, refcount, limit, sock, pipe, framed, mSubs,
                 up, sent, crashed>>

-----------------------------------------------------------------------------
(* The links to the masters.                                                *)

\* The ping checkMasters writes on a connected link; while the last packet
\* written is an unanswered ping, another one changes nothing.
WithPing(q) ==
  IF q # <<>> /\ q[Len(q)].op = "ping" THEN q
  ELSE Append(q, [op |-> "ping", chs |-> {}])

\* A link checkMasters leaves alone, among sockets s with ages a.
Keeps(s, a, m) == s[m] \in {"connecting", "connected"} /\ a[m] <= StaleAfter

\* What becomes of another one: a NULL, unconnected or aborted socket is
\* dialled, unless its key is not host:port.
DialsNew(s, m) == IF s[m] = "null" THEN "connecting" ELSE s[m]
DialsExisting(s, m) == IF s[m] \in {"absent", "null"} THEN s[m] ELSE "connecting"
Dials(s, m) == IF s[m] = "absent" THEN "absent"
               ELSE IF m \in Dialable THEN "connecting" ELSE "unconnected"

CheckMasters(s, a) ==
  LET keeps(m) == Keeps(s, a, m)
  IN /\ sock' = [m \in Master |-> IF keeps(m) THEN s[m] ELSE Dials(s, m)]
     /\ age' = [m \in Master |-> IF keeps(m) THEN a[m] ELSE 0]
     /\ pipe' = [m \in Master |-> IF ~keeps(m) THEN <<>>
                                  ELSE IF s[m] = "connected" THEN WithPing(pipe[m])
                                  ELSE pipe[m]]
     /\ framed' = [m \in Master |-> keeps(m) => framed[m]]
     /\ mSubs' = [m \in Master |-> IF keeps(m) THEN mSubs[m] ELSE {}]
     /\ inq' = [m \in Master |-> IF keeps(m) THEN inq[m] ELSE <<>>]

\* The masters a configuration lists: new ones are NULL, those already there
\* are left as they are, the others closed and deleted.
ConfiguredAnew(conf) ==
  [m \in Master |-> IF m \in conf.masters THEN "null" ELSE "absent"]
Configured(conf) ==
  [m \in Master |-> IF m \notin conf.masters THEN "absent"
                    ELSE IF sock[m] = "absent" THEN "null" ELSE sock[m]]

\* The ages checkMasters() finds when the clock is a period on for the links of late.
\* (OlderByPing: the ping written on a connected link counts as a sign of life.)
OlderByPing(late) ==
  [m \in Master |-> IF m \in late /\ sock[m] # "connected" THEN age[m] + 1 ELSE age[m]]
Older(late) == [m \in Master |-> IF m \in late THEN age[m] + 1 ELSE age[m]]

\* reload() ends in checkMasters() and comes between two ticks: of the links that
\* have been silent for StaleAfter of them, any may be past their time.
Reload(conf) ==
  /\ running = None
  /\ limit' = conf.limit
  /\ \E late \in SUBSET {m \in Master : age[m] = StaleAfter} :
        CheckMasters(Configured(conf), Older(late))
  /\ UNCHANGED <<clientVars, refcount, up, sent, crashed>>

\* A prompt master that is up has answered all it was sent before the timer
\* fires again.
Answered(m) == sock[m] # "connecting" /\ pipe[m] = <<>> /\ inq[m] = <<>>

\* Ten seconds pass and the masters_check timer fires.
Timer ==
  /\ running = None
  /\ \A m \in Prompt : up[m] => Answered(m)
  /\ CheckMasters(sock, Older(Master))
  /\ UNCHANGED <<clientVars, refcount, limit, up, sent, crashed>>

\* The queue q with a subscription to everything wanted.
ResubscribeNothing(q) == q
ResubscribeBare(q) == Append(q, [op |-> "sub", chs |-> Wanted])
Resubscribe(q) == IF Wanted = {} THEN q ELSE Append(q, [op |-> "sub", chs |-> Wanted])

MasterConnected(m) ==
  /\ running = None /\ sock[m] = "connecting" /\ up[m]
  /\ sock' = [sock EXCEPT ![m] = "connected"]
  /\ pipe' = [pipe EXCEPT ![m] = Resubscribe(@)]
  /\ framed' = [framed EXCEPT ![m] = @ /\ Whole(Wanted)]
  /\ UNCHANGED <<clientVars, refcount, limit, age, mSubs, inq, up, sent, crashed>>

\* The socket goes to UnconnectedState by itself: refused, reset or closed by
\* the peer.  ModPS has no slot for it, the next checkMasters dials again.
LinkLost(m) ==
  /\ running = None
  /\ m \in Linked
  /\ m \in Prompt => ~up[m] \/ ~framed[m]
  /\ sock' = [sock EXCEPT ![m] = "unconnected"]
  /\ pipe' = [pipe EXCEPT ![m] = <<>>]
  /\ framed' = [framed EXCEPT ![m] = TRUE]
  /\ mSubs' = [mSubs EXCEPT ![m] = {}]
  /\ inq' = [inq EXCEPT ![m] = <<>>]
  /\ UNCHANGED <<clientVars, refcount, limit, age, up, sent, crashed>>

-----------------------------------------------------------------------------
(* The master: another ps daemon, whose ModPSClient serves this relay.      *)

Reachable(m) == sock[m] = "connected" /\ up[m]

\* It handles some packets of the oldest batch: it may have received a part.
MasterSubscription(m) ==
  /\ Reachable(m) /\ framed[m] /\ pipe[m] # <<>> /\ Head(pipe[m]).op # "ping"
  /\ LET b == Head(pipe[m])
     IN \E part \in SUBSET b.chs \ {{}} :
          /\ mSubs' = [mSubs EXCEPT ![m] = IF b.op = "sub" THEN @ \cup part ELSE @ \ part]
          /\ pipe' = [pipe EXCEPT ![m] =
                        IF part = b.chs THEN Tail(@)
                        ELSE [@ EXCEPT ![1] = [op |-> b.op, chs |-> b.chs \ part]]]
  /\ UNCHANGED <<clientVars, refcount, limit, sock, age, framed, inq, up, sent, crashed>>

\* It echoes a ping.
MasterEcho(m) ==
  /\ Reachable(m) /\ framed[m] /\ pipe[m] # <<>> /\ Head(pipe[m]).op = "ping"
  /\ Len(inq[m]) < MaxInq
  /\ pipe' = [pipe EXCEPT ![m] = Tail(@)]
  /\ inq' = [inq EXCEPT ![m] = Append(@, Pong)]
  /\ UNCHANGED <<clientVars, refcount, limit, sock, age, framed, mSubs, up, sent, crashed>>

\* After a packet shorter than it announces, what it parses is anything.
MasterMisparse(m) ==
  /\ Reachable(m) /\ ~framed[m] /\ pipe[m] # <<>>
  /\ pipe' = [pipe EXCEPT ![m] = Tail(@)]
  /\ \E chs \in SUBSET Channel : mSubs' = [mSubs EXCEPT ![m] = chs]
  /\ UNCHANGED <<clientVars, refcount, limit, sock, age, framed, inq, up, sent, crashed>>

\* It forwards a packet of a channel this relay subscribed to.
MasterPublish(m, ch) ==
  /\ Reachable(m) /\ ch \in mSubs[m]
  /\ Len(sent[m]) < MaxSent /\ Len(inq[m]) < MaxInq
  /\ sent' = [sent EXCEPT ![m] = Append(@, ch)]
  /\ inq' = [inq EXCEPT ![m] = Append(@, Len(sent[m]) + 1)]
  /\ UNCHANGED <<clientVars, refcount, limit, sock, age, pipe, framed, mSubs, up, crashed>>

\* The master stops or its path breaks, and comes back.
PathChange(m) ==
  /\ up' = [up EXCEPT ![m] = ~@]
  /\ UNCHANGED <<clientVars, refcount, limit, linkVars, sent, crashed>>

-----------------------------------------------------------------------------
ClientStep(c) ==
  \/ IncomingTcp(c)
  \/ \E ch \in Channel : HandleSubscribe(c, ch) \/ HandleUnsubscribe(c, ch)
  \/ HandleRefused(c)
  \/ SocketDisconnected(c)
  \/ DeleteClient(c)

LinkStep(m) ==
  \/ ReadFromMaster(m)
  \/ MasterConnected(m)
  \/ LinkLost(m)
  \/ MasterSubscription(m)
  \/ MasterEcho(m)
  \/ MasterMisparse(m)
  \/ \E ch \in Channel : MasterPublish(m, ch)
  \/ PathChange(m)

Next ==
  /\ ~crashed
  /\ \/ \E c \in Client : ClientStep(c)
     \/ \E ch \in Channel : IncomingDatagram(ch)
     \/ \E m \in Master : LinkStep(m)
     \/ \E conf \in Confs : Reload(conf)
     \/ Timer

Spec == Init /\ [][Next]_vars
-----------------------------------------------------------------------------
(* Properties.                                                              *)

TypeOK ==
  /\ status \in [Client -> {"free", "live", "doomed"}]
  /\ chans \in [Client -> SUBSET Channel]
  /\ running \in Client \cup {None}
  /\ refcount \in [Channel -> Nat]
  /\ limit \in SUBSET Channel
  /\ sock \in [Master -> {"absent", "null", "unconnected", "connecting", "connected"}]
  /\ age \in [Master -> Nat]
  /\ pipe \in [Master -> Seq(Batch)]
  /\ framed \in [Master -> BOOLEAN]
  /\ mSubs \in [Master -> SUBSET Channel]
  /\ up \in [Master -> BOOLEAN]
  /\ inq \in [Master -> Seq(Nat)]
  /\ sent \in [Source -> Seq(Channel)]
  /\ got \in [Client -> Seq(Source \X Nat)]
  /\ crashed \in BOOLEAN

Holders(ch) == {c \in Client : ch \in chans[c]}

\* channel_refcount counts the client objects that hold a channel, the doomed
\* ones included until their destructor has run (ModPSClient.cpp:10-14, 46-63).
RefcountExact == \A ch \in Channel : refcount[ch] = Cardinality(Holders(ch))

\* "can't happen" (ModPS.cpp:202): no sequence of packets, disconnections and
\* deferred deletions releases a channel that channel_refcount lacks.
NeverAborts == ~crashed

\* doSubscribe and doUnsubscribe (ModPS.cpp:130, 140) dereference every entry
\* of masters: none is NULL when a handler starts, whatever reload() did.
NoNullMaster == \A m \in Master : sock[m] # "null"

\* A master that holds the channels S and has the batches q to handle will
\* hold ch in the end: the last batch that names ch decides.
Naming(q, ch) == {i \in DOMAIN q : ch \in q[i].chs}

WillHold(q, S, ch) ==
  \/ Naming(q, ch) = {} /\ ch \in S
  \/ \E i \in Naming(q, ch) : /\ q[i].op = "sub"
                              /\ \A j \in Naming(q, ch) : j <= i

\* The last word written to a connected master about each channel is whether
\* some client holds it; on a link still dialling, nothing unwanted is queued
\* (masterConnected, doSubscribe and doUnsubscribe together).  A packet of the
\* wrong length voids this for the rest of the connection.
UpstreamMirrored ==
  \A m \in Master, ch \in Channel :
    LET held == WillHold(pipe[m], mSubs[m], ch)
    IN framed[m] => /\ held => m \in Linked /\ ch \in Wanted
                    /\ sock[m] = "connected" /\ ch \in Wanted => held

\* ModPSClient.cpp:22: "length is guaranteed to be fine (checked in
\* handleBuffer())": no client is subscribed by a packet without a whole key.
PacketLengthGuaranteed == \A c \in Client : Whole(chans[c])

\* A link to m is dialled anew: it was up, or being dialled with packets waiting on it.
Redialled(m) ==
  /\ m \in Linked /\ sock'[m] = "connecting"
  /\ sock[m] = "connected" \/ Len(pipe'[m]) < Len(pipe[m])

\* checkMasters(), on the timer or at the end of reload(), gives up a link that is up or
\* being dialled, and what waits on it, only once nothing was read on it for StaleAfter
\* ticks.  A reload leaves alone those that were heard since ("already connected and
\* still in config, ignore", ModPS.cpp:38), but may be what finds one silent for too
\* long (ModPS.cpp:52, 66).
OnlySilentRedialled ==
  [][\A m \in Master : Redialled(m) => age[m] = StaleAfter]_vars

\* The numbers of the data packets of m that are not read yet.
InFlight(m) == {inq[m][i] : i \in DOMAIN inq[m]} \ {Pong}

\* A consumer counts as subscribed while data packets can reach it: it is live, and
\* pushPacket does not drop the packets of the channel as too short.
Subs == [c \in Client |->
           IF status[c] = "live" THEN {ch \in chans[c] : LongEnough(ch)} ELSE {}]
Done == [s \in Source |-> IF s = Udp THEN Len(sent[s])
                          ELSE Len(sent[s]) - Cardinality(InFlight(s))]

PS == INSTANCE PubSub WITH subs <- Subs, done <- Done

\* The relay implements PubSub: reference counting, links that break and
\* deferred deletion never duplicate, reorder or withhold a packet that
\* reached it (pushPacket, ModPSClient::channelPacket).
ImplementsPubSub == PS!Spec

-----------------------------------------------------------------------------
(* Liveness.  The event loop serves its timer, its sockets and the deferred *)
(* deletions again and again (they wait only while another handler runs);   *)
(* a master that is up handles what it receives and accepts connections.    *)

Fairness ==
  /\ \A c \in Client : /\ SF_vars(DeleteClient(c))
                       /\ WF_vars(running = c /\ HandleRefused(c))
  /\ SF_vars(Timer)
  /\ \A m \in Master : /\ SF_vars(ReadFromMaster(m))
                       /\ SF_vars(MasterConnected(m))
                       /\ WF_vars(MasterSubscription(m))
                       /\ WF_vars(MasterEcho(m))

FairSpec == Spec /\ Fairness

\* A master that stays configured and up ends up connected, and subscribed to
\* what live clients hold and nothing else, wherever an outage cut the
\* conversation: the timer redials, masterConnected subscribes again, and the
\* channels of a client that left are released by its destructor.  (A refused
\* client may go on subscribing while its loop runs.)
LiveHold(ch) == \E c \in Client : status[c] = "live" /\ ch \in chans[c]

MastersCatchUp ==
  \A m \in Prompt \cap Dialable :
    <>[](up[m] /\ sock[m] # "absent") =>
      /\ <>[](sock[m] = "connected")
      /\ \A ch \in Channel :
           /\ (<>[]LiveHold(ch)) => (<>[](ch \in mSubs[m]))
           /\ (<>[](~LiveHold(ch) /\ running = None)) => (<>[](ch \notin mSubs[m]))

\* A peer that vanished without closing is noticed: checkMasters aborts a
\* connection on which nothing was read for StaleAfter periods.
SilentLinkDropped ==
  \A m \in Master : sock[m] = "connected" ~> (sock[m] # "connected" \/ up[m])
=============================================================================
