----------------------------- MODULE ClientTcp -----------------------------
(***************************************************************************)
(* One TCP connection: the main thread accepts it and hands its socket to   *)
(* a daemon's thread (CoreTcp::incomingConnection), where a ClientTcp       *)
(* object reads it until one side ends it.  Three actors are interleaved:   *)
(* the peer, the main thread and the event loop of the daemon.              *)
(*                                                                          *)
(* A QTcpSocket announces bytes when it moves them from the kernel into its *)
(* own buffer, once, by readyRead(), and the end of the stream by           *)
(* disconnected(); a signal that nothing is connected to yet is gone.       *)
(*                                                                          *)
(* DoReadPadded, DoReadOnce, DisconnectIgnored and DeleteBoth stand before  *)
(* the definition whose plausible wrong version they are; the specification *)
(* does not use them.                                                       *)
(***************************************************************************)
EXTENDS Integers, Sequences

CONSTANTS
  Services,   \* what the connection may lead to, see below
  KernelBuf,  \* bytes the kernel holds for a socket
  ReadLimit,  \* bytes of one doRead() (10 MB, more than a kernel holds)
  MaxBytes    \* bound: bytes the peer sends

\* "reads": a ClientTcp that takes what it gets, as echo does.  "closes": one
\* that may end the connection for what it gets.  "refuses": a daemon without
\* incomingTcp() of its own.  "nobody": no receiver.
ASSUME ConstantsOK ==
  /\ Services \subseteq {"reads", "closes", "refuses", "nobody"}
  /\ KernelBuf \in Nat \ {0} /\ MaxBytes \in Nat
  /\ ReadLimit \in Nat /\ KernelBuf <= ReadLimit

VARIABLES
  service,   \* what this connection leads to
  main,      \* incomingConnection(): "accepts", "moved" or "returned"
  posted,    \* events posted to the daemon's thread
  loop,      \* its event loop: "posts" (sends them all), then "polls" the sockets
  armed,     \* the socket's notifier is enabled in that thread
  peerOpen,  \* the peer has not closed
  sent,      \* bytes the peer sent
  fetched,   \* bytes that the QTcpSocket moved out of the kernel
  handled,   \* bytes that handleBuffer() got
  sock,      \* the QTcpSocket: "none", "open", "closed" or "deleted"
  client,    \* the ClientTcp: "none", "live", "doomed" (deleteLater called), "deleted"
  member     \* Daemon::clients has it

peerVars == <<service, peerOpen, sent>>
vars == <<peerVars, main, posted, loop, armed, fetched, handled, sock, client, member>>

Init ==
  /\ service \in Services
  /\ main = "accepts" /\ posted = <<>> /\ loop = "posts" /\ armed = FALSE
  /\ peerOpen = TRUE /\ sent = 0 /\ fetched = 0 /\ handled = 0
  /\ sock = "none" /\ client = "none" /\ member = FALSE

-----------------------------------------------------------------------------
(* The peer.                                                                *)

Send ==
  /\ peerOpen /\ sent < MaxBytes /\ sent - fetched < KernelBuf
  /\ sent' = sent + 1
  /\ UNCHANGED <<service, main, posted, loop, armed, peerOpen, fetched, handled, sock, client, member>>

Close ==
  /\ peerOpen
  /\ peerOpen' = FALSE
  /\ UNCHANGED <<service, main, posted, loop, armed, sent, fetched, handled, sock, client, member>>

-----------------------------------------------------------------------------
(* The main thread: incomingConnection().                                   *)

CloseForNobody ==
  /\ main = "accepts" /\ service = "nobody"
  /\ main' = "returned"
  /\ sock' = "deleted"
  /\ UNCHANGED <<peerVars, posted, loop, armed, fetched, handled, client, member>>

\* moveToThread() disarms the notifier, which is to be armed by its new thread.
MoveToThread ==
  /\ main = "accepts" /\ service # "nobody"
  /\ main' = "moved"
  /\ sock' = "open"
  /\ posted' = Append(posted, "setEnabled")
  /\ UNCHANGED <<peerVars, loop, armed, fetched, handled, client, member>>

OutgoingTcp ==
  /\ main = "moved"
  /\ main' = "returned"
  /\ posted' = Append(posted, "incomingTcp")
  /\ UNCHANGED <<peerVars, loop, armed, fetched, handled, sock, client, member>>

-----------------------------------------------------------------------------
(* The daemon's thread.                                                     *)

Poll ==
  /\ loop = "posts" /\ posted = <<>>
  /\ loop' = "polls"
  /\ UNCHANGED <<peerVars, main, posted, armed, fetched, handled, sock, client, member>>

\* An event that is posted meanwhile wakes the poll up.
WakeUp ==
  /\ loop = "polls" /\ posted # <<>>
  /\ loop' = "posts"
  /\ UNCHANGED <<peerVars, main, posted, armed, fetched, handled, sock, client, member>>

Next1(event) == loop = "posts" /\ posted # <<>> /\ Head(posted) = event

\* ClientTcp() connected its slots, and they stay so until it is deleted.
Listening == client \in {"live", "doomed"}

SetEnabled ==
  /\ Next1("setEnabled")
  /\ posted' = Tail(posted)
  /\ armed' = TRUE
  /\ UNCHANGED <<peerVars, main, loop, fetched, handled, sock, client, member>>

\* The daemon's incomingTcp() makes a client and has clientAdd() register it.
IncomingTcp ==
  /\ Next1("incomingTcp") /\ service # "refuses"
  /\ posted' = Tail(posted)
  /\ client' = "live"
  /\ member' = TRUE
  /\ UNCHANGED <<peerVars, main, loop, armed, fetched, handled, sock>>

\* Daemon::incomingTcp().
IncomingTcpRefused ==
  /\ Next1("incomingTcp") /\ service = "refuses"
  /\ sock' = "closed"
  /\ posted' = Append(Tail(posted), "deleteSocket")
  /\ UNCHANGED <<peerVars, main, loop, armed, fetched, handled, client, member>>

\* deleteLater(): another call of it changes nothing.
DeleteLater ==
  IF client = "live" THEN client' = "doomed" /\ posted' = Append(posted, "deleteClient")
                     ELSE UNCHANGED <<client, posted>>

\* disconnected() is signalled: socketDisconnected().
DisconnectIgnored == UNCHANGED <<client, posted>>
DeleteBoth ==
  IF client = "live" THEN client' = "doomed" /\ posted' = posted \o <<"deleteSocket", "deleteClient">>
                     ELSE UNCHANGED <<client, posted>>
SocketDisconnected == DeleteLater

\* What a poll finds is handled, then posted events have their turn.
Polled == loop = "polls" /\ loop' = "posts"

\* The read the notifier asks for: all that the kernel has.
Fetch ==
  /\ Polled /\ armed /\ sock = "open" /\ fetched < sent
  /\ fetched' = sent

Least(m, n) == IF m <= n THEN m ELSE n

\* doRead(): what is in the buffer, up to the limit.
DoReadPadded == handled' = handled + ReadLimit
DoReadOnce == handled' = handled + Least(1, fetched' - handled)
DoRead == handled' = handled + Least(ReadLimit, fetched' - handled)

ReadyRead ==
  /\ Fetch
  /\ IF Listening THEN DoRead ELSE UNCHANGED handled
  /\ UNCHANGED <<peerVars, main, posted, armed, sock, client, member>>

\* handleBuffer() does not like what it gets: sock->close(), which signals
\* disconnected(), and deleteLater().
ReadyReadCloses ==
  /\ Fetch /\ Listening /\ service = "closes"
  /\ DoRead
  /\ sock' = "closed"
  /\ SocketDisconnected
  /\ UNCHANGED <<peerVars, main, armed, member>>

\* The read finds the end of the stream.
ReadEnd ==
  /\ Polled /\ armed /\ sock = "open" /\ fetched = sent /\ ~peerOpen
  /\ sock' = "closed"
  /\ IF Listening THEN SocketDisconnected ELSE UNCHANGED <<client, posted>>
  /\ UNCHANGED <<peerVars, main, armed, fetched, handled, member>>

\* ClientTcp::write(), for another client say.  QTcpSocket::write() takes all
\* or fails, so write_buf stays empty and flush() has nothing to do.
WriteFails ==
  /\ Polled /\ Listening /\ sock = "closed"
  /\ DeleteLater
  /\ UNCHANGED <<peerVars, main, armed, fetched, handled, sock, member>>

\* destroyed() makes Daemon::clientLost() forget the client, and the socket go.
DeleteClient ==
  /\ Next1("deleteClient")
  /\ client' = "deleted"
  /\ member' = FALSE
  /\ posted' = Append(Tail(posted), "deleteSocket")
  /\ UNCHANGED <<peerVars, main, loop, armed, fetched, handled, sock>>

DeleteSocket ==
  /\ Next1("deleteSocket")
  /\ posted' = Tail(posted)
  /\ sock' = "deleted"
  /\ armed' = FALSE
  /\ UNCHANGED <<peerVars, main, loop, fetched, handled, client, member>>

MainStep == CloseForNobody \/ MoveToThread \/ OutgoingTcp

PostedStep == SetEnabled \/ IncomingTcp \/ IncomingTcpRefused \/ DeleteClient \/ DeleteSocket

ReadStep == ReadyRead \/ ReadyReadCloses \/ ReadEnd

\* The event loop of the daemon's thread, as far as it must go on.
LoopStep == Poll \/ WakeUp \/ PostedStep \/ ReadStep

Next == Send \/ Close \/ MainStep \/ LoopStep \/ WriteFails

Spec == Init /\ [][Next]_vars

\* Each thread goes on.
Fairness == WF_vars(MainStep) /\ WF_vars(LoopStep)

FairSpec == Spec /\ Fairness

-----------------------------------------------------------------------------
\* Types; and no byte is handed on before it is read, nor read before it is
\* sent (ClientTcp.cpp:19-36).
TypeOK ==
  /\ service \in Services
  /\ main \in {"accepts", "moved", "returned"}
  /\ posted \in Seq({"setEnabled", "incomingTcp", "deleteClient", "deleteSocket"})
  /\ loop \in {"posts", "polls"} /\ armed \in BOOLEAN /\ peerOpen \in BOOLEAN /\ member \in BOOLEAN
  /\ sent \in Nat /\ fetched \in 0..sent /\ handled \in 0..fetched
  /\ sock \in {"none", "open", "closed", "deleted"}
  /\ client \in {"none", "live", "doomed", "deleted"}

\* A ClientTcp keeps a plain pointer to its socket and its slots use it until
\* it is deleted: however the connection ends, the socket lives as long
\* (ClientTcp.cpp:4-16).
NoDangling == Listening => sock \in {"open", "closed"}

\* A connection whose end comes while its client listens is taken down: the
\* client is deleted, the daemon forgets it, and the socket goes
\* (ClientTcp.cpp:8-16, Daemon.cpp:30-35).
Reaped ==
  (client = "live" /\ sock = "open" /\ ~peerOpen) ~> (sock = "deleted" /\ ~member)

\* What is sent to a client that has missed nothing is handed to it, to the
\* last byte sent before the end: no byte waits in the socket for a
\* readyRead() that only another byte would bring (ClientTcp.cpp:18-37).
HandledAll ==
  \A n \in 1..MaxBytes :
    (service = "reads" /\ client = "live" /\ sock = "open" /\ fetched = handled /\ sent >= n)
      ~> handled >= n

\* echo (mod/daemon.md:3) is the protocol of RFC 862: once a connection is
\* established, any data received is sent back, until the caller ends it.
\* Bytes that are read before the client listens are not (CoreTcp.cpp:52-55).
EchoesAll ==
  \A n \in 1..MaxBytes : sent >= n ~> (handled >= n \/ ~peerOpen)
=============================================================================
