# pinetd4 in TLA+

Specifications of pinetd4 (C++ on Qt), model-checked with TLC and, for the core
of the system, proved with TLAPS. Source paths below are relative to `src/`.

## The program

pinetd4 is one process. The main thread runs `Core` (`mod/core/Core.cpp`), which
reads `pinetd.ini`, loads modules (shared libraries), makes a `Daemon` object
for each entry of `[daemons]`, gives it a `QThread` of its own, and listens on
the TCP, UDP and Unix datagram ports of `[tcp]`, `[udp]` and `[udg]`. What
arrives at a port is handed, by a queued signal, to the daemon the settings
name. Every daemon is an event loop: slots run to completion, one at a time, in
its thread. Concurrency is between threads (main against daemons), and between
the events of one loop: peers, timers, deferred deletions.

| component | state | operations | what is hard |
|---|---|---|---|
| core (`mod/core/Core*.cpp`) | settings with a group prefix under `settings_lock`, modules, daemons, ports and their receivers | `reloadConfig`, `getConfig`, `modprobe`, `setTarget`, `targetDestroyed`, `incomingConnection` | two threads on one QSettings; recursion in modprobe; retargeting live ports; removing a daemon whose thread runs |
| daemon base (`Daemon.cpp`, `Client.cpp`) | `clients` | `clientAdd`, `clientLost`, `getConfig`, `reload` | objects that die while events for them are queued |
| connections (`ClientTcp.cpp`, `ClientTcpLine.cpp`) | socket, write buffer, line buffer | `doRead`, `socketDisconnected`, `write`, `handleBuffer` | the socket changes threads while bytes arrive; fragments |
| ps (`mod/daemon/ps`) | `channels` of each client, `channel_refcount`, `masters`, `subscribe_limit` | subscribe, unsubscribe, data packets, ping, reload, the 10 s timer, master connected / readable | reference counts across deferred deletions; masters that come, go, fall silent; reconnection; packets with a wrong length |
| rconnect, broadcast, echo | a global id table; line buffers | route a packet, broadcast a line, echo | the loop over buffered packets; the table shared by threads |
| qamqp, midasinput, vps | connection, channels, queue of messages; checkpoint files | open, declare, consume, deliver, ack, reconnect; switch output | order of delayed operations, reconnection, empty messages, a crash in a file switch |
| bitcoinconnector, ext/bitcoin, ext/elasticsearch | peers, nonces, inventory cache and queue, download list | version handshake, inv, getdata, block, tx | storage calls turn the event loop inside a handler |
| others (chargen, chargensame, kumoircd, netflow, vserv, contrib) | little or none | | stubs, pure output, test clients |

`ps` and `core` interact through the ports (a connection or a datagram becomes
`incomingTcp` / `incomingDatagram`) and through `reload` / `getConfig`. The
relay model takes both as inputs: any connection, any datagram, any
configuration, at any turn of its loop.

## Modules

| module | models |
|---|---|
| `PubSub` | what a relay promises: each packet of a source is handed once, in the source's order, to exactly the consumers subscribed at that moment; packets are lost only together, those in flight when a link breaks |
| `ModPS` | `mod/daemon/ps`: the relay, its consumers and its masters |
| `MCModPS` | instances of `ModPS` |
| `ModPS_proofs` | proofs about `ModPS` |
| `ModPS_refinement` | proof that `ModPS` implements `PubSub` |
| `Core` | `mod/core`: settings, modules, daemons and their threads, ports |
| `MCCore` | an instance of `Core` |
| `Core_proofs` | proofs about `Core` |
| `ClientTcp` | `CoreTcp::incomingConnection`, `ClientTcp`, `Daemon::clientAdd`, `clientLost`: one connection from its acceptance to the deletion of its objects |
| `ClientTcp_proofs` | proofs about `ClientTcp` |
| `Amqp` | `mod/ext/qamqp`: network, connection, channels, queue and exchange of one process, as operators on the state of the library |
| `AmqpBroker` | the broker at the other end, as far as the library relies on it (external) |
| `MidasInput` | `mod/daemon/midasinput` and `mod/daemon/vps`: a process that uses the library, its data files and checkpoint, and the broker |
| `MCMidasInput` | an instance of `MidasInput` |
| `MidasInput_proofs` | proofs about `MidasInput`: its files, then its session with the broker |
| `BitcoinConnector` | `mod/daemon/bitcoinconnector`: clients, handshake, inventory, block download, and the database calls (`mod/ext/elasticsearch`) that run the event loop |
| `MCBitcoinConnector` | an instance of `BitcoinConnector` |
| `BitcoinConnector_proofs` | proofs about `BitcoinConnector`: depths and dead clients |
| `BitcoinConnector_wire` | more proofs about it: types, the connection to itself, what is announced |
| `SequenceFacts` | lemmas on `Append`, `Front`, updates and the elements of sequences that these proofs share |
| `Bytes` | the integers `QDataStream` reads and writes |
| `AmqpFields`, `AmqpFrames` | the encodings of qamqp: typed fields and tables; frames |
| `AmqpTable`, `MCAmqpTable` | a table that is built, sent and read back |
| `BitcoinCodec` | the encodings of `mod/ext/bitcoin` and the packets of the connector |
| `Streams` | the loops that cut messages out of a byte stream: qamqp's `readyRead`, and `handleBuffer` of bitcoinconnector, `ClientTcpLine` (kumoircd, broadcast) and rconnect |
| `MCStreams` | messages and lines for `Streams` |

`ModPS` implements `PubSub` (`ImplementsPubSub`, an `INSTANCE` with a refinement
mapping). Definitions with a name like `LoadOnce` or `DialsExisting`, standing
just before the definition they vary, are plausible wrong versions; each
property is known to fail for one of them, and the specifications never use
them.

### ModPS

One action is one handler of the daemon's event loop: `IncomingTcp`,
`HandleSubscribe`, `HandleUnsubscribe`, `HandleRefused` (a packet that makes
the code close the socket), `SocketDisconnected`, `DeleteClient` (the deferred
destructor), `IncomingDatagram`, `ReadFromMaster`, `MasterConnected`, `Timer`
(`masters_check`), `Reload`. `handleBuffer` handles the packets it has
buffered one after the other even after it closed its socket and called
`deleteLater()`: `running` is the client in that loop, and no other event runs
until it ends. `sock[m]` is the entry of `masters` and the state of its socket
("null" is the NULL that `reload()` inserts). The environment is explicit:
`LinkLost`, `PathChange`, and the far end of a link, which is a `ModPSClient` of
another ps daemon (`MasterSubscription`, `MasterEcho`, `MasterPublish`), that
may handle part of what was written and, after a packet whose bytes do not
match its length field, may take anything for a packet (`MasterMisparse`).

Abstracted: the contents of packets (a packet is its source and number), the
write buffers, and the batching of reads. `age[m]` counts the ticks of the timer since
something was read from master m, where the code compares whole seconds of the clock: a
link is past its time at the first tick after `StaleAfter` of them, or before that if a
`Reload`, which ends in the same `checkMasters()` and may come at any moment between two
ticks, meets it then (`Older`). A ping written while an unanswered
ping is the last packet of a link is not queued again, which keeps links to a
silent master finite.

### Core

`BeginReload` ... `Emit` are the steps of `reloadConfig`, which holds
`settings_lock` from its beginning to `EndPorts`; `pc` is the group it is in.
`[tcp]`, `[udp]` and `[udg]` are treated alike in the code and are one section
"ports". `modprobe`'s recursion is `stack`, one `Load` per attempt: the linker
names some missing symbol, the module that has it is loaded and the load tried
again, then `pinetd_preload` probes what it needs; a call that fails makes all
its callers fail. Daemons take events from their queue in order
(`DaemonReload`, `Serve`, `DeleteDaemon`), and `getConfig` is three steps
around the lock. `group` is the prefix `QSettings::beginGroup` builds up: values
read under a prefix that is not one section are nobody's. `~QObject` of a
daemon deletes its children, and its own running `QThread` is one of them: Qt
calls `qFatal` (`QThreadDestroyed`), the process ends and `run_pinetd.sh` starts
it again, which is a new behaviour from `Init`. So every behaviour that removes
a daemon ends soon after; the model keeps the steps before that.

`reloadConfig` is a public slot that only `Core()` calls in this repository;
the model lets it run any number of times, as its code (existing daemons, ports
that are bound already, daemons and ports that are gone) is written for.
`SettingsSync` lets the settings change while the main thread is in its event
loop, which is when QSettings reads its file again. `reloadSymbols` only fills
a table before all this. The order in which keys are visited is left open.

### ClientTcp

What `Core` takes as one step, `Incoming` and later `Serve`, and `ModPS` as
`IncomingTcp`, is looked at closely here: the main thread makes the socket,
moves it (`MoveToThread`) and emits `outgoingTcp()` (`OutgoingTcp`), while the
daemon's thread alternates between sending its posted events and polling its
sockets (`loop`). Moving a socket posts the event that arms its notifier in the
new thread, ahead of the event that makes the client, so a poll can fall
between them; `readyRead()` and `disconnected()` that nobody is connected to
are lost. `service` covers the kinds of daemons: one that takes what it gets
(echo), one that may close the connection (ClientTcpLine, kumoircd), one without
`incomingTcp()`, and no receiver at all. Bytes are counted, not named: each is
read and handed on in its turn.

`write()` is its failing path only: QTcpSocket takes all bytes or none, so
`write_buf` never fills. `clientLost()` reads the id of a `Client` whose
destructor has run; the string is alive because the key in `clients` shares it,
and the model has the entry removed. A socket that still has bytes to write when
it is closed is disconnected a little later; the model closes it at once.
That a kernel holds no more than the 10 MB that one `doRead()` takes is an
assumption (`KernelBuf <= ReadLimit`).

### Amqp, AmqpBroker, MidasInput

The library runs in one thread and all its signals are direct calls, so each
slot is an operator from the state of the library (`client`) to the next one, and
an action of `MidasInput` is one event: a frame that is read (`ReadMethod`,
`ReadDeclareOk`, `ReadContent`, `ReadBody`, `ReadExchangeDeclareOk`) with every slot it
reaches, a socket event, the reconnection timer, or one system call of
`switchOutput()` (`CreateFile`, `CloseOutput`, `RenameCheckpoint`), between which the
process may be killed. `app` says which daemon it is: midasinput appends a message
to its data file and acknowledges it, vps only takes it and acknowledges. vps'
configuration may name a port or not; the URL in midasinput's code has a scheme
that `parseCnnString` skips. `autoReconnect_` is never initialised and is any Boolean.
A message is its parts: `Parts(m)`, one for each body frame it was published with.
The broker queues, delivers within the prefetch limit, takes back what a lost
session has not acknowledged, and refuses methods on a channel that is not open.

Left out: heartbeats and their timers, SSL, `Queue` get / purge / unbind / remove /
cancel and `Exchange` remove, which no code in the repository calls. Assumed: the system
calls on the data files and checkpoints succeed. midasinput ignores what `open()` and
`write()` return (`ModMidasInput.cpp:36,50`), so on a full disk it would acknowledge what
it did not store, and `AckedIsStored` says nothing of that.

### BitcoinConnector

All of it runs in one thread, but each database call runs the event loop
until its reply is there. A handler is therefore cut at its database calls: `stack`
holds the handlers waiting in one, only the last can go on (`Resume`), and any
event may be handled on top of it. `Answer` is a reply (to any of them: the ones below
return only when those above have), `Fail` an error, which the code reads as
"nothing found", or as nothing at all for `index()`. `Refresh` is the delay after
which ElasticSearch finds a new document in a search. The other ends are an
honest bitcoin node with a fixed chain, and the daemon itself, when its configuration
`Conf` names it.

What comes to a client is in three parts: `net[c]` is all that is under way to it, the
first `taken[c]` packets of it are in `in_buf`, and the next `held[c]` wait in the socket
unannounced. `Arrive` is the arrival of some bytes: `doRead()` takes in everything the
socket has, and `handleBuffer()` handles packet after packet before anything else happens
(`Looping`, `Quiet`), unless a database call in a packet handler (`InPacket`) runs the event
loop meanwhile. That handler is inside the socket's `readyRead()`, which Qt does not emit
again before it returns, nor afterwards: what arrives until then is held, and only the next
bytes to arrive take it along. So `held` stays until the peer sends again. (A socket that
announces them when the handler is over behaves like one whose bytes arrive then.) A client that
closed its connection, for a nonce of its own say, goes on with the packets in
`in_buf` (`ModBitcoinConnectorClient.cpp:251-256`), but takes in no more.

A connection to itself has two ends in `conn`. When one is deleted, the other keeps what
is under way to it and may still handle it, without a peer; a nonce in it belongs to nobody by
then (`Gone`, `Orphaned`). It hears of the end in a step of its own (`PeerClosed`).

Simplified: the two searches of `getLastBlock` are one call; the locator is the last block alone;
the node answers as soon as it is asked, and says something of its own accord (`NodeTalks`) only
once the versions are exchanged; the timer of a client, whose first five minutes are taken to be
enough for the handshake, ticks only after it (`Tick`); between a reply and the end of the call
that waited for it no event is handed out; the cache may drop any entry where QCache drops the
oldest; the index calls for a transaction's inputs and outputs are one with the transaction's.
Assumed: a client is deleted once none of its handlers is on the stack (`deleteLater` inside
nested loops; anything earlier would run a handler of a deleted object), `reload()` comes after
the database is open, and documents are keyed by their hash. `ElasticSearch::index` posts without
an id, and the mapping that would take it from the document is to be found nowhere in the
repository (`doDatabaseInit` is empty).

### The encodings and Streams

`Streams` takes the messages of one or two senders, encodes them, lets the bytes
arrive in pieces of any length and runs the handler's loop for each piece. The
reference is a definition on the messages alone: `Arrived`, `Meaning` (for IRC the
words of a line, defined by positions of spaces and colons instead of the code's
scan) and `Fatal`. `AmqpTable` builds a field table over the values of a small set and
reads back what was written. Writing follows what the code's stream operators write;
reading follows its constructors, `BitcoinCodec`'s through tables of the members
in the order they are read. These modules use recursive operators, so nothing is
proved about them.

The double SHA-256 is any function of the bytes (`Checksum`). Floating point fields are left out.
What the connector takes an IPv4 address for, its bytes in the opposite order, is part of
`Meaning`. A line of kumoircd that is a prefix and
nothing else is kept out of the instance: `handleIrcCommand` then looks at the first word of an
empty list. The handlers of kumoircd's commands only print.

## Runs

| run | module, cfg | properties | what it shows |
|---|---|---|---|
| subs | `MCModPS`, `ModPS_subs.cfg` | `TypeOK` `RefcountExact` `NeverAborts` `NoNullMaster` `UpstreamMirrored` `OnlySilentRedialled` | two clients, a whole and a short key, one master, configurations that remove it, put it back, set and lift a limit |
| delivery | `ModPS_delivery.cfg` | `ImplementsPubSub` | data packets from a master and from datagrams |
| live | `ModPS_live.cfg` | `MastersCatchUp` `SilentLinkDropped` | under fairness a master that stays up gets exactly the subscriptions wanted; a silent link is dropped |
| length | `ModPS_length.cfg` | `PacketLengthGuaranteed` | **violated**, see below |
| core | `MCCore`, `Core.cfg` | `TypeOK` `ModprobeRight` `OwnConfig` `RoutedOnce` `RoutesCurrent` `ConfigReaches` `Handled` | two daemons, six modules, one port, four contents of the settings |
| connection | `ClientTcp`, `ClientTcp.cfg` | `TypeOK` `NoDangling` `Reaped` `HandledAll` | the peer, the main thread and the daemon's loop, for each kind of service: the socket outlives its client, an end that is noticed takes down everything, a client that missed nothing gets all bytes |
| echo | `ClientTcp`, `ClientTcp_echo.cfg` | `EchoesAll` | **violated**, see below |
| consumer | `MCMidasInput`, `MidasInput.cfg` | `TypeOK` `AckedIsStored` `OneHeld` `SubscribedOnce` `CheckpointFirst` `SwitchRecorded` `Drains` | midasinput or vps against a broker, with two faults and two lives: no acknowledged message is missing from the files, at most one is held, mq_declared() runs once, the checkpoint leads to all data, and everything is consumed in the end except in the cases `Drains` names |
| connector | `MCBitcoinConnector`, `BitcoinConnector.cfg` | `TypeOK` `DepthOfParent` `KnownIsStored` `NoSelfPeer` `NoStaleEntry` | nested handlers, a connection to itself, lost links, failing calls: the chain in the database stays well formed, what is announced is stored (not that it can be served: of a block only the cache has a copy that is sent), the daemon goes on with no connection to itself that has both ends, nothing of a dead client stays |
| connector_sync | `MCBitcoinConnector`, `BitcoinConnector_sync.cfg` | `Synced` | one client and the node: a lasting connection brings in the whole chain, unless a call that stores something fails or an answer is left in the socket (`Stalled`) |
| streams | `MCStreams`, `Streams.cfg` | `Reassembled` `ClosedWhenFatal` `SameForAll` `Relayed` `HeaderUnderstood` | five protocols under every cut of their bytes into reads |
| fields | `MCAmqpTable`, `AmqpTable.cfg` | `RoundTrip` | **violated**, see below |

Bounds. Two clients are enough to share a channel and to leave in either order; two channels to
have one that is refused or short while the other is not; one master suffices because masters are
independent of each other (`WriteToMasters` treats each alike; the proofs are for any number).
`MaxPipe` and `MaxInq` bound what is in flight: 2 or 3 batches let a subscription, its withdrawal
and a ping queue up while the link is dialled. `StaleAfter` is 1 or 2 instead of 6 timer periods:
what matters is whether a link is young, at the limit, or past it. In `core` two daemons, where
one may be removed, are what a port needs to change hands; identities are not used again, which
bounds a behaviour to two daemon objects. The six modules contain a need by symbol, a preload of
two, and a module that fails after loading a dependency. `MaxQueue = 2` lets a reload, a
connection and a deletion meet in one queue (deletion and reload are not bounded by it). In
`connection` the kernel holds 2 bytes and a `doRead()` takes 3, so bytes missed before the client
listens and bytes that come later can exceed what it takes; 6 bytes are enough for that to happen
and for more to follow.

In `consumer` one message has no body and one takes two body frames: those are the cases the
announcement of a message distinguishes. Two faults let one hit the connection that the other's
reconnection made; two lives are one crash; three files are one for each life and one switch. In
`connector` there are two client slots (a connection to itself needs both), a chain of two blocks,
the second with a transaction, a cache smaller than the three items, two nested handlers and two
events from outside. `connector_sync` has one slot and the node, and three events, so that a link
can come up after one was lost, or the node may speak and a call fail on the one that stays. One
packet under way when a timer or the node adds one (`MaxWire`) still lets answers pile up behind a
handler, which is what leaves bytes unannounced. In `streams` hashes and identities have two bytes
and lines four characters; every line up to that length over a letter, a colon and a space is
tried, and every cut for all but the longest bitcoin streams, whose pieces have up to 40 bytes or
all the rest.

Fairness. An event loop goes on (`WF` of the handlers of each object), the timer fires, and in
`core` the main thread finishes a reload it began. `settings_lock` is granted to a thread that
keeps finding it free (`SF` of `BeginGroup`): a mutex of the C library that threads contend for
only rarely. In `consumer` the event loop, the broker and `run_pinetd.sh` (`Start`) go on, and a
broker that waits in vain for a Close-Ok hangs up; no fault has to happen. In `connector_sync`
what is under way arrives (`SF` of `Arrive`), the packets in `in_buf` are handled (`WF` of
`Receive`, a loop), a client's timer gets its turn (`SF` of `Tick`), the database answers (`WF` of
`Answer`) and a handler whose answer is there goes on when it is the last (`SF` of `Resume`, for
each depth of the stack). `SF` stands where the bound on nesting or a handler on top takes turns
away now and then. Packets in `held` have no fairness of their own: nothing announces them but
what arrives later. That is what `Synced` excepts: a block that was asked for comes while the
client handles another packet and waits for the database, its name is still on the list or others
are, so the timer does nothing (`ModBitcoinConnectorClient.cpp:64`), and if the node stays silent
the chain never comes. Nothing is assumed fair about clients, reloads, links or settings. The
liveness properties of ModPS speak of masters in `Prompt`, which answer within a timer period
while they are up: without an assumption of that kind a relay redials a slow master for ever.

`CHECK_DEADLOCK FALSE` in `Core.cfg`: after the abort the process is gone; in
`ClientTcp.cfg`: a connection ends; in `Streams.cfg`: all bytes have arrived; in
`MidasInput.cfg`: everything is consumed and no fault
is left, or the library has given up; in `BitcoinConnector.cfg`: all clients are gone and
no event from outside is left.

### Disagreements found

* `mod/daemon/ps/ModPSClient.cpp:22` says "length is guaranteed to be fine
  (checked in handleBuffer())". `handleBuffer` only checks that a packet is
  complete. A subscribe packet with a length field below 17 is accepted with a
  short key, and the packet written to the masters announces 17 bytes all the
  same, so the rest of that connection is framed wrongly (run `length`).
* `mod/daemon.md:3` documents echo as the protocol of RFC 862, which sends back
  any data received. `CoreTcp.cpp:52` arms the socket in the daemon's thread before
  line 55 posts the event that makes the client: bytes read in between wait
  in the socket's buffer until more bytes come, and an end of stream in between
  leaves the client for ever (run `echo`).
* `include/ext/qamqp/amqp_frame.h:85` says a field table "can by any type witch support
  serialization in AMQP types". For an Int or UInt, `writeField` picks the letter by comparing
  its size with `qint8(0xFF)`, `qint16(0xFFFF)` and `qint16(0xFFFFFFFF)`
  (`amqp_frame.cpp:463`), which are all -1: no letter is picked from 0 on, nothing is written behind the
  name, and the reader takes what follows for the field (run `fields`).

Two more are in the models as the code has them, without a run of their own:
`mod/daemon/ps/protocol.md:11` gives 17 as the minimum of a data packet's length field, but
`pushPacket` adds 2 before it compares, so 15 and 16 pass (`KeyLen` in `ModPS`); and
`mod/ext/bitcoin/BitcoinNetAddr.cpp:4` gives the protocol's description of a network address, in
network byte order, as what the class reads and writes: `decode_hp()` writes an IPv4 address
so, but `decode_bin()` reads its four bytes while the stream is little-endian (line 73; the order
is turned for the port only), and takes 10.0.0.1 for 1.0.0.10 (`AddrMeaning` in `Streams`).

## Proofs

For every finite set of clients, channels and masters, any configurations and
any bounds, `ModPS_proofs` proves `TypeCorrect`, `RefcountCorrect`,
`AbortUnreachable`, `UpstreamCorrect`, `NullMasterUnreachable` and `RedialCorrect`. The inductive
invariant is `TypeOK /\ RefcountExact /\ NeverAborts /\ UpstreamMirrored`:
`RefcountExact` makes the count positive wherever `channelDelRef` is called, which
gives `NeverAborts`, and tells for which of several channels the last reference
goes, which `UpstreamMirrored` needs. `RedialCorrect`, the action property
`OnlySilentRedialled`, says that neither the timer nor a reload gives up a link on which
something was read within the last `StaleAfter` ticks. It rests on `AgeInv`: a link that is up or
being dialled is never older than that, so the one that `checkMasters()` finds past its time
has exactly that age, and a reload redials none but those.

`ModPS_refinement` proves `RelayImplementsPubSub`: every step of `ModPS` is, under the mapping
of `ImplementsPubSub`, a step of `PubSub` or none. `RelayInv` adds that a free client object
holds no channel (`ClientsInv`) and that what waits on the link to a master is, in order, the
tail of what it sent (`FlightInv`): reading a packet then is `PubSub`'s next one, and a link
that breaks loses exactly that tail. It holds for keys of every length: a subscription
under a key to which `pushPacket` delivers nothing counts for none in `PubSub`.

For every dependency graph without cycles and any sets of daemons, ports,
connections and settings, `Core_proofs` proves `TypeCorrect`, `OwnConfigCorrect`,
`ModprobeCorrect`, `RoutedOnceCorrect` and `RoutesCurrentCorrect`. The properties
are not inductive by themselves; `Inv` adds

* `ConfigInv`: the group prefix is the owner's own section, or empty, so
  whoever holds `settings_lock` reads under exactly one section;
* `DaemonInv`: a daemon in the table runs, knows its key, and has no deletion
  queued;
* `ModprobeInv`: what is loaded works and is closed under dependency, and every
  call under way is for something the first one depends on. "Depends on" is said
  without recursion: it lies in every closed set that contains the first one;
* `LinksInv`: a port is connected to its receiver exactly once until that one
  is destroyed;
* `RouteInv`: ports dealt with in `[ports]` lead where the settings say, until
  the settings change;
* `OnceInv`: a connection waits at most once, with the daemon in charge, and
  not after it was served.

`ClientTcp_proofs` proves `TypeCorrect` and `NoDanglingCorrect` for every kind of
service and all sizes. That the socket outlives its client depends on what is
posted: `ArrivalInv` (the daemon gets a socket once, and one that exists), `EndInv`
(the socket's deletion is posted only once its client is gone, or refused) and
`EarlyInv` (nothing of that before `outgoingTcp()`).

For any messages, sizes, frame sizes, files, lives and faults, `MidasInput_proofs` proves
`CheckpointCorrect` and `SwitchCorrect` from `FilesInv`, which ties the step of
`switchOutput()` the process is at to the files: while the checkpoint waits to be
renamed, the file left behind already ends with the records that lead on. All other
actions leave the files alone (`FilesKept`). It proves `SessionTypes`, `AckedCorrect`,
`OneHeldCorrect` and `SubscribedCorrect` from `SessionInv`, which TLC checked on the
instance of the run before it was proved. Its parts:

* `SocketInv`, `FramesInv`: nothing of a session is left once the socket is not
  connected, on either side; what is under way are frames that each end writes, and an
  acknowledgement under way is for a message already stored, if for any;
* `DeclareInv`, `BindInv`: the declaration of the queue is in one place at most (put off,
  sent, answered), and `mq_declared()` runs when its answer is read, after which it is in
  none; so are, in their order, the declaration of the exchange and the binding;
* `TimersInv`: the timers of a life never exceed two for each fault, and two more once
  the binding the broker refuses has been sent, which happens once;
* `QosInv`, `ConsumeInv`: a consume under way follows the prefetch of one, or meets a
  channel that ignores it, so a consumer of the broker always has that prefetch and
  never has a second message out while anything of the first is left;
* `DeliveryInv`: the frames of a delivery still to be read are a block of the stream,
  from the k-th on (`Block`), and what the queue holds is what the k frames before them
  leave (`Held`, `Left`). It gives the body's length when the last frame is read, hence
  that what `mq_messageReceived()` writes is the whole message.

Each step of the library is first reduced to the fields it changes (`SendIs`, `CloseIs`,
`MqDeclaredIs` and the like), and each part of the invariant has a lemma that says what
leaves it alone (`DeclareKept`, `BindKept`, ...).

For any clients, chain of blocks and bounds on nesting, `BitcoinConnector_proofs` proves
`DepthCorrect` and `StaleCorrect`. `ConnInv` says which entries a client that lives may
have, that a connection waiting to be accepted is incoming, so that the key it
is registered under later is its own, and that the two ends of a connection to oneself name each other
(`Paired`). `HandlersInv` follows the depth of a block through
the handler that stores it: the answer about the parent names a stored parent or
nothing, the height kept across the calls after it is the parent's plus one, and stays right
whatever other handlers store in between, because depths never change (`Grows`).

`BitcoinConnector_wire` proves `ConnectorTypes`, `NoSelfPeerCorrect` and `KnownCorrect` from
`WireInv`, inductive together with the invariant above:

* `NetOK`: what is taken in and what is held are within what is under way, a free slot has an
  empty socket, and each packet lists items of the kind it is for;
* `SelfInv`: while the version of one end of a connection to oneself is under way to
  the other its nonce is registered, so the end that reads it closes the link before it goes on. When an
  end is deleted, what was under way from it names nobody any more (`OrphanedOK`), and a slot that is
  taken again starts with an empty socket;
* `FramesInv`: what a handler kept over the calls it waited in. For a block being
  stored, each of its transactions is still to be asked for or stored, then still to be linked
  or linked, whatever other handlers stored, cached or dropped in between;
* `DataInv` and `KnownInv`: what the queue and the cache name is stored, is being stored or
  was refused by a call that failed.
Sequences are reasoned about as functions (`IsSeq`), which needs no type for the elements.

All rest on the assumptions in the modules (`ConstantsOK`, `NoCycle`, `AmqpAssumption`,
`PortAssumption`, `MidasAssumption`, `ConnectorAssumption`), which TLC evaluates on the instances.
That no block has the hash of a transaction and that a chain has finitely many transactions are
the assumptions on the bitcoin network among them. Model-checked only are: liveness under
fairness, which TLAPS does not handle, and everything about the encodings, whose modules are
recursive (the invariants of `Streams` among it).

## Not modelled, and the plan

Left to do:

1. A connector without the merged calls of `getLastBlock` and with the locator.
2. Channels of qamqp beyond two, heartbeats.

Left out for good: `netflow` (formats datagrams into files and keeps no state between
them), `vserv` (builds a command line for a virtual machine that nothing starts), the
character generators, the replies of the IRC stub, SQL/JSON contents, the PHP test
clients in `contrib`, and the operations of qamqp that nothing calls (get, purge, unbind,
remove, cancel).
