-------------------------- MODULE ClientTcp_proofs --------------------------
(***************************************************************************)
(* Proofs about ClientTcp for every kind of service, every size of buffers  *)
(* and every number of bytes.                                               *)
(***************************************************************************)
EXTENDS ClientTcp, TLAPS, SequenceTheorems

Event == {"setEnabled", "incomingTcp", "deleteClient", "deleteSocket"}

Posted(e) == \E i \in 1..Len(posted) : posted[i] = e

-----------------------------------------------------------------------------
(* The strengthening.  NoDangling is not inductive: whether the deletion of *)
(* the socket finds a client depends on what is posted, and when.           *)

\* incomingConnection() has not emitted outgoingTcp() yet.
EarlyInv ==
  main # "returned" =>
    /\ client = "none" /\ sock # "deleted"
    /\ ~Posted("incomingTcp") /\ ~Posted("deleteSocket")
    /\ main = "accepts" => sock = "none"
    /\ main = "moved" => sock \in {"open", "closed"}

\* The daemon gets the socket once, and gets one that exists.
ArrivalInv ==
  /\ Posted("incomingTcp") => /\ client = "none"
                              /\ service # "refuses" => sock \in {"open", "closed"}
  /\ \A i, j \in 1..Len(posted) :
       posted[i] = "incomingTcp" /\ posted[j] = "incomingTcp" => i = j

\* What is posted for the end of the connection finds what it needs.
EndInv ==
  /\ Posted("deleteClient") => client \in {"doomed", "deleted"}
  /\ Posted("deleteSocket") =>
       client = "deleted" \/ (client = "none" /\ service = "refuses")
  /\ client # "none" => service # "refuses"

Inv == TypeOK /\ EarlyInv /\ ArrivalInv /\ EndInv /\ NoDangling

-----------------------------------------------------------------------------
(* What an event at either end of the queue does to the rest.               *)

LEMMA AppendEvent ==
  ASSUME NEW s \in Seq(Event), NEW e \in Event
  PROVE  /\ Append(s, e) \in Seq(Event)
         /\ Len(Append(s, e)) = Len(s) + 1
         /\ \A i \in 1..Len(s) : Append(s, e)[i] = s[i]
         /\ Append(s, e)[Len(s) + 1] = e
BY AppendProperties

LEMMA TailEvent ==
  ASSUME NEW s \in Seq(Event), s # <<>>
  PROVE  /\ Tail(s) \in Seq(Event)
         /\ Len(Tail(s)) = Len(s) - 1
         /\ Head(s) = s[1] /\ 1 \in 1..Len(s)
         /\ \A i \in 1..Len(Tail(s)) : i + 1 \in 1..Len(s) /\ Tail(s)[i] = s[i + 1]
<1>1. Len(s) \in Nat /\ Len(s) # 0
  BY EmptySeq
<1>2. Tail(s) \in Seq(Event) /\ Len(Tail(s)) = Len(s) - 1 /\ Head(s) = s[1]
      /\ \A i \in 1..Len(Tail(s)) : Tail(s)[i] = s[i + 1]
  BY HeadTailProperties
<1> QED
  BY <1>1, <1>2

\* Taking the first event.
LEMMA TakeFirst ==
  ASSUME TypeOK, ArrivalInv, NEW e, Next1(e), posted' = Tail(posted)
  PROVE  /\ posted' \in Seq(Event)
         /\ Posted(e)
         /\ \A x : Posted(x)' => Posted(x)
         /\ \A i, j \in 1..Len(posted') :
              posted'[i] = "incomingTcp" /\ posted'[j] = "incomingTcp" => i = j
         /\ e = "incomingTcp" => ~Posted("incomingTcp")'
<1> USE DEF Posted
<1>1. posted \in Seq(Event) /\ posted # <<>> /\ posted[1] = e
  BY TailEvent DEF TypeOK, Next1, Event
<1>2. /\ posted' \in Seq(Event) /\ Len(posted') = Len(posted) - 1 /\ 1 \in 1..Len(posted)
      /\ \A i \in 1..Len(posted') : i + 1 \in 1..Len(posted) /\ posted'[i] = posted[i + 1]
  BY <1>1, TailEvent
<1>3. \A i \in 1..Len(posted') : i \in Int /\ i + 1 # 1
  BY <1>1, <1>2
<1> QED
  BY <1>1, <1>2, <1>3 DEF ArrivalInv

\* Posting one behind s.
LEMMA PostLast ==
  ASSUME NEW s \in Seq(Event), NEW e \in Event, posted' = Append(s, e),
         \A i, j \in 1..Len(s) : s[i] = "incomingTcp" /\ s[j] = "incomingTcp" => i = j,
         e = "incomingTcp" => \A i \in 1..Len(s) : s[i] # "incomingTcp"
  PROVE  /\ posted' \in Seq(Event)
         /\ \A x : Posted(x)' => x = e \/ \E i \in 1..Len(s) : s[i] = x
         /\ \A i, j \in 1..Len(posted') :
              posted'[i] = "incomingTcp" /\ posted'[j] = "incomingTcp" => i = j
<1>1. Len(s) \in Nat
  BY LenProperties
<1>2. /\ posted' \in Seq(Event) /\ Len(posted') = Len(s) + 1
      /\ \A i \in 1..Len(s) : posted'[i] = s[i]
      /\ posted'[Len(s) + 1] = e
  BY AppendEvent
<1>3. \A i \in 1..(Len(s) + 1) : i \in 1..Len(s) \/ i = Len(s) + 1
  BY <1>1
<1>4. \A x : Posted(x)' => x = e \/ \E i \in 1..Len(s) : s[i] = x
  BY <1>1, <1>2, <1>3 DEF Posted
<1>5. ASSUME NEW i \in 1..Len(posted'), NEW j \in 1..Len(posted'),
             posted'[i] = "incomingTcp", posted'[j] = "incomingTcp"
      PROVE  i = j
  BY <1>2, <1>3, <1>5
<1> QED
  BY <1>2, <1>4, <1>5

\* The calls that post the deletion of the client.
LEMMA DeleteLaterPosts ==
  ASSUME TypeOK, ArrivalInv, DeleteLater
  PROVE  /\ posted' \in Seq(Event)
         /\ client' \in {"none", "live", "doomed", "deleted"}
         /\ \A x : Posted(x)' => Posted(x) \/ (x = "deleteClient" /\ client' = "doomed")
         /\ \A i, j \in 1..Len(posted') :
              posted'[i] = "incomingTcp" /\ posted'[j] = "incomingTcp" => i = j
         /\ client' = client \/ (client = "live" /\ client' = "doomed")
<1>1. posted \in Seq(Event) /\ client \in {"none", "live", "doomed", "deleted"}
  BY DEF TypeOK, Event
<1>2. CASE client = "live"
  <2>1. /\ client' = "doomed" /\ posted' = Append(posted, "deleteClient")
        /\ "deleteClient" \in Event
    BY <1>2 DEF DeleteLater, Event
  <2>2. /\ posted' \in Seq(Event)
        /\ \A x : Posted(x)' => x = "deleteClient" \/ \E i \in 1..Len(posted) : posted[i] = x
        /\ \A i, j \in 1..Len(posted') :
             posted'[i] = "incomingTcp" /\ posted'[j] = "incomingTcp" => i = j
    BY <1>1, <2>1, PostLast DEF ArrivalInv
  <2> QED
    BY <1>2, <2>1, <2>2 DEF Posted
<1>3. CASE client # "live"
  BY <1>1, <1>3 DEF DeleteLater, ArrivalInv, Posted
<1> QED
  BY <1>2, <1>3

\* Taking the first event and posting another.
LEMMA TakeAndPost ==
  ASSUME TypeOK, ArrivalInv, NEW e, Next1(e),
         NEW f \in Event \ {"incomingTcp"}, posted' = Append(Tail(posted), f)
  PROVE  /\ posted' \in Seq(Event)
         /\ Posted(e)
         /\ \A x : Posted(x)' => x = f \/ Posted(x)
         /\ \A i, j \in 1..Len(posted') :
              posted'[i] = "incomingTcp" /\ posted'[j] = "incomingTcp" => i = j
<1> DEFINE s == Tail(posted)
<1>1. posted \in Seq(Event) /\ posted # <<>> /\ posted[1] = e
  BY TailEvent DEF TypeOK, Next1, Event
<1>2. /\ s \in Seq(Event) /\ 1 \in 1..Len(posted)
      /\ \A i \in 1..Len(s) : i + 1 \in 1..Len(posted) /\ s[i] = posted[i + 1]
  BY <1>1, TailEvent
<1>3. \A i, j \in 1..Len(s) : s[i] = "incomingTcp" /\ s[j] = "incomingTcp" => i = j
  <2>1. \A i \in 1..Len(s) : i \in Int
    OBVIOUS
  <2>2. \A i, j \in 1..Len(s) : i + 1 = j + 1 => i = j
    BY <2>1
  <2> HIDE DEF s
  <2> QED
    BY <1>2, <2>2 DEF ArrivalInv
<1>4. posted' = Append(s, f) /\ f \in Event /\ f # "incomingTcp"
  OBVIOUS
<1> HIDE DEF s
<1>5. /\ posted' \in Seq(Event)
      /\ \A x : Posted(x)' => x = f \/ \E i \in 1..Len(s) : s[i] = x
      /\ \A i, j \in 1..Len(posted') :
           posted'[i] = "incomingTcp" /\ posted'[j] = "incomingTcp" => i = j
  BY <1>2, <1>3, <1>4, PostLast
<1> QED
  BY <1>1, <1>2, <1>5 DEF Posted

-----------------------------------------------------------------------------
LEMMA InvInit == Init => Inv
<1> SUFFICES ASSUME Init PROVE Inv
  OBVIOUS
<1>1. posted \in Seq(Event) /\ Len(posted) = 0
  BY DEF Init
<1>2. \A e : ~Posted(e)
  BY <1>1 DEF Posted
<1>3. TypeOK
  <2>1. sent \in Nat /\ fetched \in 0..sent /\ handled \in 0..fetched
    BY DEF Init
  <2>2. /\ service \in Services /\ main \in {"accepts", "moved", "returned"}
        /\ loop \in {"posts", "polls"} /\ armed \in BOOLEAN
        /\ peerOpen \in BOOLEAN /\ member \in BOOLEAN
        /\ sock \in {"none", "open", "closed", "deleted"}
        /\ client \in {"none", "live", "doomed", "deleted"}
    BY DEF Init
  <2> QED
    BY <1>1, <2>1, <2>2 DEF TypeOK, Event
<1>4. NoDangling
  BY DEF Init, NoDangling, Listening
<1>5. ArrivalInv
  BY <1>1, <1>2 DEF ArrivalInv
<1> QED
  BY <1>2, <1>3, <1>4, <1>5 DEF Init, Inv, EarlyInv, EndInv

\* Reading moves bytes, and never more than there are.
LEMMA DoReadCounts ==
  ASSUME TypeOK, fetched' = sent, DoRead \/ UNCHANGED handled
  PROVE  handled' \in 0..fetched'
<1>1. handled \in Nat /\ fetched \in Nat /\ sent \in Nat /\ ReadLimit \in Nat
      /\ handled <= fetched /\ fetched <= sent
  BY ConstantsOK DEF TypeOK
<1>2. CASE DoRead
  <2>1. sent - handled \in Nat
    BY <1>1
  <2>2. Least(ReadLimit, sent - handled) \in Nat /\ Least(ReadLimit, sent - handled) <= sent - handled
    BY <1>1, <2>1 DEF Least
  <2>3. handled' = handled + Least(ReadLimit, sent - handled)
    BY <1>2 DEF DoRead
  <2> QED
    BY <1>1, <2>2, <2>3
<1>3. CASE UNCHANGED handled
  BY <1>1, <1>3
<1> QED
  BY <1>2, <1>3

LEMMA InvStep == Inv /\ [Next]_vars => Inv'
<1> SUFFICES ASSUME Inv, [Next]_vars PROVE Inv'
  OBVIOUS
<1> USE DEF Inv
<1>0. posted \in Seq(Event)
  BY DEF TypeOK, Event
<1>1. CASE Send
  <2>1. sent' = sent + 1 /\ UNCHANGED <<service, main, posted, loop, armed, peerOpen, fetched, handled, sock, client, member>>
    BY <1>1 DEF Send
  <2>2. TypeOK'
    BY <2>1 DEF TypeOK
  <2> QED
    BY <2>1, <2>2 DEF EarlyInv, ArrivalInv, EndInv, NoDangling, Listening, Posted
<1>2. CASE Close \/ Poll \/ WakeUp \/ UNCHANGED vars
  <2>1. /\ UNCHANGED <<service, main, posted, armed, sent, fetched, handled, sock, client, member>>
        /\ loop' \in {"posts", "polls"} /\ peerOpen' \in BOOLEAN
    BY <1>2 DEF Close, Poll, WakeUp, vars, peerVars, TypeOK
  <2>2. TypeOK'
    BY <2>1 DEF TypeOK
  <2> QED
    BY <2>1, <2>2 DEF EarlyInv, ArrivalInv, EndInv, NoDangling, Listening, Posted
<1>3. CASE CloseForNobody
  <2>1. /\ main = "accepts" /\ main' = "returned" /\ sock' = "deleted"
        /\ UNCHANGED <<service, peerOpen, sent, posted, loop, armed, fetched, handled, client, member>>
    BY <1>3 DEF CloseForNobody, peerVars
  <2>2. client = "none" /\ \A x : Posted(x)' => Posted(x)
    BY <2>1 DEF EarlyInv, Posted
  <2>3. TypeOK'
    BY <2>1 DEF TypeOK
  <2> QED
    BY <2>1, <2>2, <2>3 DEF EarlyInv, ArrivalInv, EndInv, NoDangling, Listening
<1>4. CASE MoveToThread
  <2>1. /\ main = "accepts" /\ main' = "moved" /\ sock' = "open"
        /\ posted' = Append(posted, "setEnabled")
        /\ UNCHANGED <<service, peerOpen, sent, loop, armed, fetched, handled, client, member>>
    BY <1>4 DEF MoveToThread, peerVars
  <2>2. /\ posted' \in Seq(Event)
        /\ \A x : Posted(x)' => x = "setEnabled" \/ Posted(x)
        /\ \A i, j \in 1..Len(posted') :
             posted'[i] = "incomingTcp" /\ posted'[j] = "incomingTcp" => i = j
    <3>1. "setEnabled" \in Event /\ "setEnabled" # "incomingTcp"
      BY DEF Event
    <3> QED
      BY <1>0, <2>1, <3>1, PostLast DEF ArrivalInv, Posted
  <2>3. TypeOK'
    BY <2>1, <2>2 DEF TypeOK, Event
  <2>4. client = "none" /\ ~Posted("incomingTcp")' /\ ~Posted("deleteSocket")'
        /\ (Posted("deleteClient")' => Posted("deleteClient"))
    BY <2>1, <2>2 DEF EarlyInv
  <2> QED
    BY <2>1, <2>2, <2>3, <2>4 DEF EarlyInv, ArrivalInv, EndInv, NoDangling, Listening
<1>5. CASE OutgoingTcp
  <2>1. /\ main = "moved" /\ main' = "returned"
        /\ posted' = Append(posted, "incomingTcp")
        /\ UNCHANGED <<service, peerOpen, sent, loop, armed, fetched, handled, sock, client, member>>
    BY <1>5 DEF OutgoingTcp, peerVars
  <2>2. /\ client = "none" /\ sock \in {"open", "closed"}
        /\ ~Posted("incomingTcp") /\ ~Posted("deleteSocket")
    BY <2>1 DEF EarlyInv
  <2>3. /\ posted' \in Seq(Event)
        /\ \A x : Posted(x)' => x = "incomingTcp" \/ Posted(x)
        /\ \A i, j \in 1..Len(posted') :
             posted'[i] = "incomingTcp" /\ posted'[j] = "incomingTcp" => i = j
    <3>1. "incomingTcp" \in Event /\ \A i \in 1..Len(posted) : posted[i] # "incomingTcp"
      BY <2>2 DEF Event, Posted
    <3> QED
      BY <1>0, <2>1, <3>1, PostLast DEF ArrivalInv, Posted
  <2>4. TypeOK'
    BY <2>1, <2>3 DEF TypeOK, Event
  <2>5. (Posted("deleteClient")' => Posted("deleteClient")) /\ ~Posted("deleteSocket")'
    BY <2>2, <2>3
  <2> QED
    BY <2>1, <2>2, <2>3, <2>4, <2>5 DEF EarlyInv, ArrivalInv, EndInv, NoDangling, Listening
<1>6. CASE SetEnabled
  <2>1. /\ Next1("setEnabled") /\ posted' = Tail(posted) /\ armed' = TRUE
        /\ UNCHANGED <<service, peerOpen, sent, main, loop, fetched, handled, sock, client, member>>
    BY <1>6 DEF SetEnabled, peerVars
  <2>2. /\ posted' \in Seq(Event)
        /\ \A x : Posted(x)' => Posted(x)
        /\ \A i, j \in 1..Len(posted') :
             posted'[i] = "incomingTcp" /\ posted'[j] = "incomingTcp" => i = j
    BY <2>1, TakeFirst
  <2>3. TypeOK'
    BY <2>1, <2>2 DEF TypeOK, Event
  <2> QED
    BY <2>1, <2>2, <2>3 DEF EarlyInv, ArrivalInv, EndInv, NoDangling, Listening
<1>7. CASE IncomingTcp
  <2>1. /\ Next1("incomingTcp") /\ service # "refuses" /\ posted' = Tail(posted)
        /\ client' = "live" /\ member' = TRUE
        /\ UNCHANGED <<service, peerOpen, sent, main, loop, armed, fetched, handled, sock>>
    BY <1>7 DEF IncomingTcp, peerVars
  <2>2. /\ posted' \in Seq(Event) /\ Posted("incomingTcp") /\ ~Posted("incomingTcp")'
        /\ \A x : Posted(x)' => Posted(x)
        /\ \A i, j \in 1..Len(posted') :
             posted'[i] = "incomingTcp" /\ posted'[j] = "incomingTcp" => i = j
    BY <2>1, TakeFirst
  <2>3. TypeOK'
    BY <2>1, <2>2 DEF TypeOK, Event
  <2>4. client = "none" /\ sock \in {"open", "closed"} /\ main = "returned"
    BY <2>1, <2>2 DEF ArrivalInv, EarlyInv
  <2>5. ~Posted("deleteClient")' /\ ~Posted("deleteSocket")'
    BY <2>1, <2>2, <2>4 DEF EndInv
  <2> QED
    BY <2>1, <2>2, <2>3, <2>4, <2>5 DEF EarlyInv, ArrivalInv, EndInv, NoDangling, Listening
<1>8. CASE IncomingTcpRefused
  <2>1. /\ Next1("incomingTcp") /\ service = "refuses" /\ sock' = "closed"
        /\ posted' = Append(Tail(posted), "deleteSocket")
        /\ UNCHANGED <<service, peerOpen, sent, main, loop, armed, fetched, handled, client, member>>
    BY <1>8 DEF IncomingTcpRefused, peerVars
  <2>2. /\ posted' \in Seq(Event) /\ Posted("incomingTcp")
        /\ \A x : Posted(x)' => x = "deleteSocket" \/ Posted(x)
        /\ \A i, j \in 1..Len(posted') :
             posted'[i] = "incomingTcp" /\ posted'[j] = "incomingTcp" => i = j
    <3>1. "deleteSocket" \in Event \ {"incomingTcp"}
      BY DEF Event
    <3> QED
      BY <2>1, <3>1, TakeAndPost
  <2>3. TypeOK'
    BY <2>1, <2>2 DEF TypeOK, Event
  <2>4. client = "none" /\ main = "returned"
    BY <2>2 DEF ArrivalInv, EarlyInv, TypeOK
  <2> QED
    BY <2>1, <2>2, <2>3, <2>4 DEF EarlyInv, ArrivalInv, EndInv, NoDangling, Listening
<1>9. CASE ReadyRead
  <2>1. /\ fetched' = sent /\ loop' = "posts" /\ (DoRead \/ UNCHANGED handled)
        /\ UNCHANGED <<service, peerOpen, sent, main, posted, armed, sock, client, member>>
    BY <1>9 DEF ReadyRead, Fetch, Polled, peerVars
  <2>2. handled' \in 0..fetched'
    BY <2>1, DoReadCounts
  <2>3. TypeOK'
    BY <2>1, <2>2 DEF TypeOK
  <2> QED
    BY <2>1, <2>3 DEF EarlyInv, ArrivalInv, EndInv, NoDangling, Listening, Posted
<1>10. CASE ReadyReadCloses \/ ReadEnd \/ WriteFails
  <2>1. /\ loop' = "posts" /\ sock \in {"open", "closed"} /\ sock' = "closed"
        /\ DeleteLater \/ UNCHANGED <<client, posted>>
        /\ UNCHANGED <<service, peerOpen, sent, main, armed, member>>
    BY <1>10 DEF ReadyReadCloses, ReadEnd, WriteFails, Fetch, Polled, SocketDisconnected, peerVars
  <2>2. /\ posted' \in Seq(Event)
        /\ client' \in {"none", "live", "doomed", "deleted"}
        /\ \A x : Posted(x)' => Posted(x) \/ (x = "deleteClient" /\ client' = "doomed")
        /\ \A i, j \in 1..Len(posted') :
             posted'[i] = "incomingTcp" /\ posted'[j] = "incomingTcp" => i = j
        /\ client' = client \/ (client = "live" /\ client' = "doomed")
    <3>1. CASE DeleteLater
      BY <3>1, DeleteLaterPosts
    <3>2. CASE UNCHANGED <<client, posted>>
      BY <1>0, <3>2 DEF TypeOK, ArrivalInv, Posted
    <3> QED
      BY <2>1, <3>1, <3>2
  <2>3. fetched' \in 0..sent /\ handled' \in 0..fetched'
    <3>1. CASE ReadyReadCloses
      <4>1. fetched' = sent /\ DoRead
        BY <3>1 DEF ReadyReadCloses, Fetch
      <4> QED
        BY <4>1, DoReadCounts DEF TypeOK
    <3>2. CASE ReadEnd \/ WriteFails
      BY <3>2 DEF ReadEnd, WriteFails, TypeOK
    <3> QED
      BY <1>10, <3>1, <3>2
  <2>4. TypeOK'
    BY <2>1, <2>2, <2>3 DEF TypeOK, Event
  <2>5. EarlyInv'
    <3>1. CASE main = "returned"
      BY <2>1, <3>1 DEF EarlyInv
    <3>2. CASE main # "returned"
      <4>1. client = "none" /\ client' = "none" /\ main # "accepts"
        BY <2>1, <2>2, <3>2 DEF EarlyInv
      <4> QED
        BY <2>1, <2>2, <3>2, <4>1 DEF EarlyInv
    <3> QED
      BY <3>1, <3>2
  <2>6. ArrivalInv' /\ EndInv' /\ NoDangling'
    BY <2>1, <2>2 DEF ArrivalInv, EndInv, NoDangling, Listening
  <2> QED
    BY <2>4, <2>5, <2>6
<1>11. CASE DeleteClient
  <2>1. /\ Next1("deleteClient") /\ client' = "deleted" /\ member' = FALSE
        /\ posted' = Append(Tail(posted), "deleteSocket")
        /\ UNCHANGED <<service, peerOpen, sent, main, loop, armed, fetched, handled, sock>>
    BY <1>11 DEF DeleteClient, peerVars
  <2>2. /\ posted' \in Seq(Event) /\ Posted("deleteClient")
        /\ \A x : Posted(x)' => x = "deleteSocket" \/ Posted(x)
        /\ \A i, j \in 1..Len(posted') :
             posted'[i] = "incomingTcp" /\ posted'[j] = "incomingTcp" => i = j
    <3>1. "deleteSocket" \in Event \ {"incomingTcp"}
      BY DEF Event
    <3> QED
      BY <2>1, <3>1, TakeAndPost
  <2>3. TypeOK'
    BY <2>1, <2>2 DEF TypeOK, Event
  <2>4. client \in {"doomed", "deleted"} /\ main = "returned" /\ service # "refuses"
    BY <2>2 DEF EndInv, EarlyInv
  <2>5. ~Posted("incomingTcp")'
    BY <2>2, <2>4 DEF ArrivalInv
  <2> QED
    BY <2>1, <2>2, <2>3, <2>4, <2>5 DEF EarlyInv, ArrivalInv, EndInv, NoDangling, Listening
<1>12. CASE DeleteSocket
  <2>1. /\ Next1("deleteSocket") /\ posted' = Tail(posted) /\ sock' = "deleted" /\ armed' = FALSE
        /\ UNCHANGED <<service, peerOpen, sent, main, loop, fetched, handled, client, member>>
    BY <1>12 DEF DeleteSocket, peerVars
  <2>2. /\ posted' \in Seq(Event) /\ Posted("deleteSocket")
        /\ \A x : Posted(x)' => Posted(x)
        /\ \A i, j \in 1..Len(posted') :
             posted'[i] = "incomingTcp" /\ posted'[j] = "incomingTcp" => i = j
    BY <2>1, TakeFirst
  <2>3. TypeOK'
    BY <2>1, <2>2 DEF TypeOK, Event
  <2>4. main = "returned" /\ (client = "deleted" \/ (client = "none" /\ service = "refuses"))
    BY <2>2 DEF EndInv, EarlyInv
  <2> QED
    BY <2>1, <2>2, <2>3, <2>4 DEF EarlyInv, ArrivalInv, EndInv, NoDangling, Listening
<1> QED
  BY <1>1, <1>2, <1>3, <1>4, <1>5, <1>6, <1>7, <1>8, <1>9, <1>10, <1>11, <1>12
     DEF Next, MainStep, LoopStep, PostedStep, ReadStep

LEMMA InvCorrect == Spec => []Inv
BY InvInit, InvStep, PTL DEF Spec

\* Every variable keeps its type.
THEOREM TypeCorrect == Spec => []TypeOK
<1>1. Inv => TypeOK
  BY DEF Inv
<1> QED
  BY <1>1, InvCorrect, PTL

\* Whatever the order in which the threads, the peer and the service end a
\* connection, a client's socket outlives it (ClientTcp.cpp:4-16).
THEOREM NoDanglingCorrect == Spec => []NoDangling
<1>1. Inv => NoDangling
  BY DEF Inv
<1> QED
  BY <1>1, InvCorrect, PTL
=============================================================================
