-------------------------- MODULE ModPS_refinement --------------------------
(***************************************************************************)
(* The relay implements PubSub, for every set of clients, channels and     *)
(* masters, every length of the keys and every value of the bounds.        *)
(***************************************************************************)
EXTENDS ModPS_proofs

-----------------------------------------------------------------------------
(* The packets a master sent and the relay has not read.                    *)

Unread(q) == {q[i] : i \in DOMAIN q} \ {Pong}

\* The data packets of a queue stand in the order of their numbers.
Ordered(q) ==
  \A i, j \in DOMAIN q : i < j /\ q[i] # Pong /\ q[j] # Pong => q[i] < q[j]

LEMMA UnreadAppend ==
  ASSUME NEW q \in Seq(Nat), NEW x \in Nat
  PROVE  /\ Unread(Append(q, x)) = (Unread(q) \cup {x}) \ {Pong}
         /\ Ordered(q) /\ (x = Pong \/ \A y \in Unread(q) : y < x) => Ordered(Append(q, x))
<1> DEFINE t == Append(q, x)
           n == Len(q)
<1>1. /\ n \in Nat /\ DOMAIN q = 1 .. n /\ DOMAIN t = 1 .. n + 1
      /\ t[n + 1] = x /\ \A i \in 1 .. n : t[i] = q[i]
  OBVIOUS
<1> HIDE DEF t, n
<1>2. \A i : i \in 1 .. n + 1 <=> i \in 1 .. n \/ i = n + 1
  BY <1>1
<1>3. {t[i] : i \in DOMAIN t} = {q[i] : i \in DOMAIN q} \cup {x}
  BY <1>1, <1>2
<1>4. ASSUME Ordered(q), x = Pong \/ \A y \in Unread(q) : y < x
      PROVE  Ordered(t)
  <2> SUFFICES ASSUME NEW i \in DOMAIN t, NEW j \in DOMAIN t, i < j, t[i] # Pong, t[j] # Pong
               PROVE  t[i] < t[j]
    BY DEF Ordered
  <2>1. i \in 1 .. n
    BY <1>1
  <2>2. CASE j \in 1 .. n
    BY <1>1, <1>4, <2>1, <2>2 DEF Ordered
  <2>3. CASE j = n + 1
    BY <1>1, <1>4, <2>1, <2>3 DEF Unread
  <2> QED
    BY <1>1, <1>2, <2>2, <2>3
<1>5. QED
  BY <1>3, <1>4 DEF Unread, t

LEMMA UnreadTail ==
  ASSUME NEW q \in Seq(Nat), q # << >>, Ordered(q)
  PROVE  /\ Ordered(Tail(q))
         /\ Head(q) = Pong => Unread(Tail(q)) = Unread(q)
         /\ Head(q) # Pong => /\ Unread(Tail(q)) = Unread(q) \ {Head(q)}
                              /\ Head(q) \in Unread(q)
                              /\ \A y \in Unread(q) : Head(q) <= y
<1> DEFINE t == Tail(q)
           n == Len(q) - 1
<1>1. /\ n \in Nat /\ DOMAIN q = 1 .. n + 1 /\ DOMAIN t = 1 .. n
      /\ Head(q) = q[1] /\ \A i \in 1 .. n : t[i] = q[i + 1]
      /\ \A i \in 1 .. n + 1 : q[i] \in Nat
  OBVIOUS
<1> HIDE DEF t, n
<1>2. \A i \in 1 .. n : i + 1 \in 1 .. n + 1 /\ 1 < i + 1
  BY <1>1
<1>3. \A i \in 1 .. n + 1 : i = 1 \/ \E j \in 1 .. n : i = j + 1
  <2> TAKE i \in 1 .. n + 1
  <2>1. i = 1 \/ (i - 1 \in 1 .. n /\ i = (i - 1) + 1)
    BY <1>1
  <2> QED
    BY <2>1
<1>4. {q[i] : i \in DOMAIN q} = {t[i] : i \in DOMAIN t} \cup {Head(q)}
  <2>1. 1 \in 1 .. n + 1
    BY <1>1
  <2>2. ASSUME NEW x \in {t[i] : i \in DOMAIN t} PROVE x \in {q[i] : i \in DOMAIN q}
    <3>1. PICK i \in 1 .. n : x = t[i]
      BY <1>1, <2>2
    <3>2. x = q[i + 1] /\ i + 1 \in DOMAIN q
      BY <1>1, <1>2, <3>1
    <3> QED
      BY <3>2
  <2>3. ASSUME NEW x \in {q[i] : i \in DOMAIN q}, x # Head(q)
        PROVE  x \in {t[i] : i \in DOMAIN t}
    <3>1. PICK i \in 1 .. n + 1 : x = q[i]
      BY <1>1, <2>3
    <3>2. PICK j \in 1 .. n : i = j + 1
      BY <1>1, <1>3, <2>3, <3>1
    <3>3. x = t[j] /\ j \in DOMAIN t
      BY <1>1, <3>1, <3>2
    <3> QED
      BY <3>3
  <2>4. Head(q) \in {q[i] : i \in DOMAIN q}
    BY <1>1, <2>1
  <2> QED
    BY <2>2, <2>3, <2>4
<1>5. Ordered(t)
  <2> SUFFICES ASSUME NEW i \in 1 .. n, NEW j \in 1 .. n, i < j, t[i] # Pong, t[j] # Pong
               PROVE  t[i] < t[j]
    BY <1>1 DEF Ordered
  <2>1. i + 1 \in 1 .. n + 1 /\ j + 1 \in 1 .. n + 1 /\ i + 1 < j + 1
    BY <1>1
  <2> QED
    BY <1>1, <2>1 DEF Ordered
<1>6. ASSUME Head(q) # Pong
      PROVE  \A i \in 1 .. n : t[i] # Pong => Head(q) < t[i]
  <2>1. 1 \in 1 .. n + 1
    BY <1>1
  <2> QED
    BY <1>1, <1>2, <1>6, <2>1, ZenonT(60) DEF Ordered
<1>7. ASSUME Head(q) # Pong
      PROVE  /\ Unread(t) = Unread(q) \ {Head(q)} /\ Head(q) \in Unread(q)
             /\ \A y \in Unread(q) : Head(q) <= y
  <2>1. Head(q) \in Nat
    BY <1>1
  <2>2. \A y \in Unread(t) : Head(q) < y /\ Head(q) # y
    BY <1>1, <1>6, <1>7, <2>1 DEF Unread
  <2>3. Unread(q) = Unread(t) \cup {Head(q)}
    BY <1>4, <1>7 DEF Unread
  <2>4. \A y \in Unread(q) : y \in Nat
    BY <1>1 DEF Unread
  <2> QED
    BY <2>1, <2>2, <2>3, <2>4
<1>8. Head(q) = Pong => Unread(t) = Unread(q)
  BY <1>4 DEF Unread
<1>9. QED
  BY <1>5, <1>7, <1>8 DEF t

-----------------------------------------------------------------------------
(* The invariant of the refinement.                                         *)

\* A deleted client holds nothing, and a client is in its loop only after it was
\* refused; what is in flight from a master are its last packets, in order.
ClientsInv ==
  /\ \A c \in Client : status[c] = "free" => chans[c] = {}
  /\ running # None => status[running] = "doomed"

Flight(q, n, k) ==
  /\ q \in Seq(Nat) /\ n \in Nat /\ k \in Nat /\ k <= n
  /\ Ordered(q) /\ Unread(q) = k + 1 .. n

FlightInv == \A m \in Master : \E k : Flight(inq[m], Len(sent[m]), k)

RelayInv == Inv /\ ClientsInv /\ FlightInv

LEMMA ClientsStep ==
  ASSUME TypeOK, ClientsInv, [Next]_vars
  PROVE  ClientsInv'
<1> USE DEF ClientsInv, TypeOK
<1>1. CASE UNCHANGED << status, chans, running >>
  BY <1>1
<1>2. ASSUME NEW c \in Client, ClientStep(c)
      PROVE  ClientsInv'
  <2>1. CASE IncomingTcp(c)
    BY <2>1, ConstantsOK DEF IncomingTcp
  <2>2. ASSUME NEW ch \in Channel, HandleSubscribe(c, ch) \/ HandleUnsubscribe(c, ch)
        PROVE  ClientsInv'
    BY <2>2, ConstantsOK, ZenonT(60) DEF HandleSubscribe, HandleUnsubscribe, Handles
  <2>3. CASE HandleRefused(c)
    BY <2>3, ConstantsOK DEF HandleRefused, Handles
  <2>4. CASE SocketDisconnected(c)
    BY <2>4, ConstantsOK DEF SocketDisconnected
  <2>5. CASE DeleteClient(c)
    BY <2>5, ConstantsOK DEF DeleteClient
  <2> QED
    BY <1>2, <2>1, <2>2, <2>3, <2>4, <2>5 DEF ClientStep
<1>3. CASE ~\E c \in Client : ClientStep(c)
  BY <1>1, <1>3
     DEF Next, vars, clientVars, IncomingDatagram, LinkStep, ReadFromMaster, MasterConnected,
         LinkLost, MasterSubscription, MasterEcho, MasterMisparse, MasterPublish, PathChange,
         Reload, Timer
<1>4. QED
  BY <1>2, <1>3

-----------------------------------------------------------------------------
(* What is in flight, and what is not.                                      *)

DoneOf(q, n) == n - Cardinality(Unread(q))

LEMMA FlightDone ==
  ASSUME NEW q, NEW n, NEW k, Flight(q, n, k)
  PROVE  DoneOf(q, n) = k
<1>1. n \in Nat /\ k \in Nat /\ k <= n /\ Unread(q) = k + 1 .. n
  BY DEF Flight
<1>2. Cardinality(k + 1 .. n) = IF k + 1 > n THEN 0 ELSE n - (k + 1) + 1
  BY <1>1, FS_Interval
<1>3. QED
  BY <1>1, <1>2 DEF DoneOf

LEMMA FlightEmpty == ASSUME NEW n \in Nat PROVE Flight(<< >>, n, n)
<1>1. Unread(<< >>) = {} /\ Ordered(<< >>)
  BY DEF Unread, Ordered
<1>2. n + 1 .. n = {} /\ << >> \in Seq(Nat) /\ n <= n
  OBVIOUS
<1>3. QED
  BY <1>1, <1>2 DEF Flight

LEMMA FlightPong ==
  ASSUME NEW q, NEW n, NEW k, Flight(q, n, k)
  PROVE  Flight(Append(q, Pong), n, k)
<1>1. q \in Seq(Nat) /\ Pong \in Nat /\ Append(q, Pong) \in Seq(Nat)
  BY DEF Flight, Pong
<1>2. Unread(Append(q, Pong)) = Unread(q) /\ Ordered(Append(q, Pong))
  BY <1>1, UnreadAppend, SMTT(60) DEF Flight, Unread
<1>3. QED
  BY <1>1, <1>2 DEF Flight

LEMMA FlightData ==
  ASSUME NEW q, NEW n, NEW k, Flight(q, n, k)
  PROVE  Flight(Append(q, n + 1), n + 1, k)
<1>1. /\ q \in Seq(Nat) /\ n \in Nat /\ k \in Nat /\ k <= n /\ n + 1 \in Nat /\ n + 1 # Pong
      /\ Unread(q) = k + 1 .. n /\ Ordered(q)
  BY DEF Flight, Pong
<1>2. Append(q, n + 1) \in Seq(Nat)
  BY <1>1
<1>3. /\ Unread(Append(q, n + 1)) = (Unread(q) \cup {n + 1}) \ {Pong}
      /\ Ordered(Append(q, n + 1))
  <2>1. \A y \in Unread(q) : y < n + 1
    BY <1>1
  <2> QED
    BY <1>1, <2>1, UnreadAppend
<1>4. Unread(Append(q, n + 1)) = k + 1 .. n + 1
  <2>1. Pong \notin Unread(q)
    BY DEF Unread
  <2>2. (k + 1 .. n) \cup {n + 1} = k + 1 .. n + 1
    BY <1>1
  <2> QED
    BY <1>1, <1>3, <2>1, <2>2
<1>5. QED
  BY <1>1, <1>2, <1>3, <1>4 DEF Flight

LEMMA FlightRead ==
  ASSUME NEW q, NEW n, NEW k, Flight(q, n, k), q # << >>
  PROVE  IF Head(q) = Pong THEN Flight(Tail(q), n, k)
         ELSE Head(q) = k + 1 /\ k < n /\ Flight(Tail(q), n, k + 1)
<1>1. /\ q \in Seq(Nat) /\ n \in Nat /\ k \in Nat /\ k <= n
      /\ Unread(q) = k + 1 .. n /\ Ordered(q) /\ Tail(q) \in Seq(Nat)
  BY DEF Flight
<1>2. CASE Head(q) = Pong
  BY <1>1, <1>2, UnreadTail DEF Flight
<1>3. CASE Head(q) # Pong
  <2>1. /\ Head(q) \in k + 1 .. n /\ \A y \in k + 1 .. n : Head(q) <= y
        /\ Unread(Tail(q)) = (k + 1 .. n) \ {Head(q)} /\ Ordered(Tail(q))
    BY <1>1, <1>3, UnreadTail
  <2>2. k + 1 \in k + 1 .. n /\ Head(q) = k + 1 /\ k < n
    BY <1>1, <2>1
  <2>3. (k + 1 .. n) \ {k + 1} = (k + 1) + 1 .. n
    BY <1>1
  <2>4. Unread(Tail(q)) = (k + 1) + 1 .. n
    <3>1. Unread(Tail(q)) = (k + 1 .. n) \ {k + 1}
      BY <2>1, <2>2
    <3> QED
      BY <3>1, <2>3
  <2>5. Flight(Tail(q), n, k + 1)
    BY <1>1, <2>1, <2>2, <2>4 DEF Flight
  <2> QED
    BY <1>3, <2>2, <2>5
<1>4. QED
  BY <1>2, <1>3

\* Every source has done all its packets but those in flight.
LEMMA DoneForm ==
  /\ Done = [s \in Source |-> IF s = Udp THEN Len(sent[s])
                              ELSE DoneOf(inq[s], Len(sent[s]))]
  /\ Done' = [s \in Source |-> IF s = Udp THEN Len(sent'[s])
                               ELSE DoneOf(inq'[s], Len(sent'[s]))]
BY DEF Done, DoneOf, InFlight, Unread

LEMMA FlightInit == ASSUME Init PROVE FlightInv /\ ClientsInv
<1>1. \A m \in Master : inq[m] = << >> /\ m \in Source /\ Len(sent[m]) = 0
  BY DEF Init, Source
<1>2. FlightInv
  BY <1>1, FlightEmpty DEF FlightInv
<1>3. QED
  BY <1>2 DEF Init, ClientsInv

\* Nothing is sent or read.
LEMMA FlightQuiet ==
  ASSUME FlightInv, UNCHANGED << inq, sent >>
  PROVE  FlightInv' /\ Done' = Done
<1>1. FlightInv'
  BY DEF FlightInv
<1>2. QED
  BY <1>1, DoneForm

\* Links break.
LEMMA FlightLost ==
  ASSUME TypeOK, FlightInv, UNCHANGED << sent, got, Subs >>,
         \A m \in Master : inq'[m] \in {inq[m], << >>}
  PROVE  FlightInv' /\ \E S \in SUBSET Source : PS!LoseInFlight(S)
<1> DEFINE S == {m \in Master : inq'[m] = << >>}
<1>1. \A m \in Master : Len(sent[m]) \in Nat /\ m \in Source /\ m # Udp
  BY ConstantsOK DEF TypeOK, Source
<1>2. \A m \in S : Flight(inq'[m], Len(sent[m]), Len(sent[m]))
  BY <1>1, FlightEmpty
<1>3. FlightInv'
  BY <1>2 DEF FlightInv
<1>4. \A m \in S : DoneOf(inq'[m], Len(sent[m])) = Len(sent[m])
  BY <1>2, FlightDone
<1>5. Done' = [s \in Source |-> IF s \in S THEN Len(sent[s]) ELSE Done[s]]
  <2>1. \A s \in Source : s = Udp \/ s \in Master
    BY DEF Source
  <2> QED
    BY <1>1, <1>4, <2>1, DoneForm
<1>6. S \in SUBSET Source
  BY <1>1
<1>7. QED
  BY <1>3, <1>5, <1>6 DEF PS!LoseInFlight

-----------------------------------------------------------------------------
(* Deliveries.                                                              *)

\* A packet reaches the consumers that count as subscribed: a channel with a
\* holder has a reference.
LEMMA PushHands ==
  ASSUME Inv, NEW s, NEW n, NEW ch \in Channel, PushPacket(s, n, ch)
  PROVE  PS!HandOver(s, n, ch)
<1>1. \A c \in Client : ch \in chans[c] => ch \in Wanted
  <2> SUFFICES ASSUME NEW c \in Client, ch \in chans[c] PROVE refcount[ch] > 0
    BY DEF Wanted
  <2>1. c \in Holders(ch) /\ IsFiniteSet(Holders(ch))
    BY HoldersFinite DEF Holders
  <2>2. Cardinality(Holders(ch)) \in Nat /\ Cardinality(Holders(ch)) # 0
    BY <2>1, FS_CardinalityType, FS_EmptySet
  <2> QED
    BY <2>2 DEF Inv, RefcountExact
<1>2. \A c \in Client :
        ch \in Subs[c] <=> LongEnough(ch) /\ ch \in chans[c] /\ status[c] = "live"
  BY DEF Subs
<1>3. QED
  BY <1>1, <1>2 DEF PushPacket, PS!HandOver

LEMMA ReadStep ==
  ASSUME RelayInv, NEW m \in Master, ReadFromMaster(m)
  PROVE  FlightInv' /\ [PS!Next]_PS!vars
<1>1. /\ inq[m] # << >> /\ inq' = [inq EXCEPT ![m] = Tail(@)]
      /\ UNCHANGED << sent, status, chans >>
      /\ IF Head(inq[m]) = Pong THEN UNCHANGED got
         ELSE PushPacket(m, Head(inq[m]), sent[m][Head(inq[m])])
  BY DEF ReadFromMaster
<1>2. /\ inq \in [Master -> Seq(Nat)] /\ sent \in [Source -> Seq(Channel)]
      /\ m \in Source /\ m # Udp
  BY ConstantsOK DEF RelayInv, Inv, TypeOK, Source
<1>3. PICK k : Flight(inq[m], Len(sent[m]), k)
  BY DEF RelayInv, FlightInv
<1>4. Subs' = Subs
  BY <1>1 DEF Subs
<1>5. inq'[m] = Tail(inq[m]) /\ \A x \in Master \ {m} : inq'[x] = inq[x]
  BY <1>1, <1>2
<1>6. \A s \in Source : s = Udp \/ s = m \/ s \in Master \ {m}
  BY DEF Source
<1>7. CASE Head(inq[m]) = Pong
  <2>1. Flight(inq'[m], Len(sent[m]), k)
    BY <1>1, <1>3, <1>5, <1>7, FlightRead
  <2>2. FlightInv'
    BY <1>1, <1>5, <2>1 DEF RelayInv, FlightInv
  <2>3. DoneOf(inq'[m], Len(sent[m])) = DoneOf(inq[m], Len(sent[m]))
    BY <1>3, <2>1, FlightDone
  <2>4. Done' = Done
    BY <1>1, <1>5, <1>6, <2>3, DoneForm
  <2> QED
    BY <1>1, <1>4, <1>7, <2>2, <2>4 DEF PS!vars
<1>8. CASE Head(inq[m]) # Pong
  <2>1. /\ Head(inq[m]) = k + 1 /\ k < Len(sent[m])
        /\ Flight(inq'[m], Len(sent[m]), k + 1)
    BY <1>1, <1>3, <1>5, <1>8, FlightRead
  <2>2. FlightInv'
    BY <1>1, <1>5, <2>1 DEF RelayInv, FlightInv
  <2>3. DoneOf(inq'[m], Len(sent[m])) = k + 1 /\ DoneOf(inq[m], Len(sent[m])) = k
    BY <1>3, <2>1, FlightDone
  <2>4. Done[m] = k /\ Done' = [Done EXCEPT ![m] = @ + 1]
    BY <1>1, <1>2, <1>5, <1>6, <2>3, DoneForm
  <2>5. sent[m][k + 1] \in Channel
    <3>1. k + 1 \in 1 .. Len(sent[m])
      BY <1>3, <2>1 DEF Flight
    <3> QED
      BY <1>2, <3>1
  <2>6. PS!HandOver(m, k + 1, sent[m][k + 1])
    BY <1>1, <1>8, <2>1, <2>5, PushHands DEF RelayInv
  <2>7. PS!Deliver(m)
    BY <1>1, <1>4, <2>1, <2>4, <2>6 DEF PS!Deliver
  <2> QED
    BY <1>2, <2>2, <2>7 DEF PS!Next
<1>9. QED
  BY <1>7, <1>8

LEMMA DatagramStep ==
  ASSUME RelayInv, NEW ch \in Channel, IncomingDatagram(ch)
  PROVE  FlightInv' /\ [PS!Next]_PS!vars
<1>1. /\ sent' = [sent EXCEPT ![Udp] = Append(@, ch)]
      /\ PushPacket(Udp, Len(sent[Udp]) + 1, ch)
      /\ UNCHANGED << status, chans, inq >>
  BY DEF IncomingDatagram, linkVars
<1>2. sent \in [Source -> Seq(Channel)] /\ Udp \in Source /\ Udp \notin Master
  BY ConstantsOK DEF RelayInv, Inv, TypeOK, Source
<1>3. \A m \in Master : sent'[m] = sent[m] /\ inq'[m] = inq[m]
  BY <1>1, <1>2 DEF Source
<1>4. FlightInv'
  BY <1>3 DEF RelayInv, FlightInv
<1>5. Done[Udp] = Len(sent[Udp]) /\ Len(sent'[Udp]) = Len(sent[Udp]) + 1
  BY <1>1, <1>2, DoneForm
<1>6. \A s \in Source : s = Udp \/ s \in Master
  BY DEF Source
<1>7. Done' = [Done EXCEPT ![Udp] = @ + 1]
  BY <1>2, <1>3, <1>5, <1>6, DoneForm
<1>8. Subs' = Subs
  BY <1>1 DEF Subs
<1>9. PS!HandOver(Udp, Done[Udp] + 1, ch)
  BY <1>1, <1>5, PushHands DEF RelayInv
<1>10. PS!Inject(Udp, ch)
  BY <1>1, <1>5, <1>7, <1>8, <1>9 DEF PS!Inject
<1>11. QED
  BY <1>2, <1>4, <1>10 DEF PS!Next

\* A master sends a ping reply, or a packet.
LEMMA SendStep ==
  ASSUME RelayInv, NEW m \in Master,
         MasterEcho(m) \/ \E ch \in Channel : MasterPublish(m, ch)
  PROVE  FlightInv' /\ [PS!Next]_PS!vars
<1>1. UNCHANGED << status, chans, got >>
  BY DEF MasterEcho, MasterPublish, clientVars
<1>2. /\ inq \in [Master -> Seq(Nat)] /\ sent \in [Source -> Seq(Channel)]
      /\ m \in Source /\ m # Udp
  BY ConstantsOK DEF RelayInv, Inv, TypeOK, Source
<1>3. PICK k : Flight(inq[m], Len(sent[m]), k)
  BY DEF RelayInv, FlightInv
<1>4. Subs' = Subs
  BY <1>1 DEF Subs
<1>5. \A s \in Source : s = Udp \/ s = m \/ s \in Master \ {m}
  BY DEF Source
<1>6. CASE MasterEcho(m)
  <2>1. inq' = [inq EXCEPT ![m] = Append(@, Pong)] /\ UNCHANGED sent
    BY <1>6 DEF MasterEcho
  <2>2. inq'[m] = Append(inq[m], Pong) /\ \A x \in Master \ {m} : inq'[x] = inq[x]
    BY <1>2, <2>1
  <2>3. Flight(inq'[m], Len(sent[m]), k)
    BY <1>3, <2>2, FlightPong
  <2>4. FlightInv'
    BY <2>1, <2>2, <2>3 DEF RelayInv, FlightInv
  <2>5. DoneOf(inq'[m], Len(sent[m])) = DoneOf(inq[m], Len(sent[m]))
    BY <1>3, <2>3, FlightDone
  <2>6. Done' = Done
    BY <2>1, <2>2, <1>5, <2>5, DoneForm
  <2> QED
    BY <1>1, <1>4, <2>1, <2>4, <2>6 DEF PS!vars
<1>7. ASSUME NEW ch \in Channel, MasterPublish(m, ch)
      PROVE  FlightInv' /\ [PS!Next]_PS!vars
  <2>1. /\ sent' = [sent EXCEPT ![m] = Append(@, ch)]
        /\ inq' = [inq EXCEPT ![m] = Append(@, Len(sent[m]) + 1)]
    BY <1>7 DEF MasterPublish
  <2>2. /\ sent'[m] = Append(sent[m], ch) /\ Len(sent'[m]) = Len(sent[m]) + 1
        /\ inq'[m] = Append(inq[m], Len(sent[m]) + 1)
        /\ sent'[Udp] = sent[Udp]
        /\ \A x \in Master \ {m} : inq'[x] = inq[x] /\ sent'[x] = sent[x]
    BY <1>2, <2>1 DEF Source
  <2>3. Flight(inq'[m], Len(sent'[m]), k)
    BY <1>3, <2>2, FlightData
  <2>4. FlightInv'
    BY <2>2, <2>3 DEF RelayInv, FlightInv
  <2>5. DoneOf(inq'[m], Len(sent'[m])) = DoneOf(inq[m], Len(sent[m]))
    BY <1>3, <2>3, FlightDone
  <2>6. Done' = Done
    BY <2>2, <1>5, <2>5, DoneForm
  <2>7. PS!Publish(m, ch)
    BY <1>1, <1>4, <2>1, <2>6 DEF PS!Publish
  <2> QED
    BY <1>2, <2>4, <2>7 DEF PS!Next
<1>8. QED
  BY <1>6, <1>7

-----------------------------------------------------------------------------
(* Consumers come, subscribe and leave.                                     *)

LEMMA ConsumerStep ==
  ASSUME RelayInv, NEW c \in Client, ClientStep(c)
  PROVE  FlightInv' /\ [PS!Next]_PS!vars
<1>1. UNCHANGED << inq, sent >>
  BY DEF ClientStep, IncomingTcp, HandleSubscribe, HandleUnsubscribe, HandleRefused,
         SocketDisconnected, DeleteClient, ChannelAddRef, ChannelDelRef, WriteToMasters,
         linkVars
<1>2. FlightInv' /\ Done' = Done
  BY <1>1, FlightQuiet DEF RelayInv
<1>3. /\ status \in [Client -> {"free", "live", "doomed"}]
      /\ chans \in [Client -> SUBSET Channel]
      /\ ClientsInv
  BY DEF RelayInv, Inv, TypeOK
<1>4. CASE IncomingTcp(c)
  <2>1. Subs' = Subs /\ got' = got
    BY <1>3, <1>4 DEF IncomingTcp, Subs, ClientsInv
  <2> QED
    BY <1>1, <1>2, <2>1 DEF PS!vars
<1>5. ASSUME NEW ch \in Channel, HandleSubscribe(c, ch)
      PROVE  [PS!Next]_PS!vars
  <2>1. /\ chans' = [chans EXCEPT ![c] = @ \cup {ch}]
        /\ UNCHANGED << status, got >>
    BY <1>5 DEF HandleSubscribe
  <2>2. CASE status[c] = "live" /\ LongEnough(ch)
    <3>1. Subs' = [Subs EXCEPT ![c] = @ \cup {ch}]
      BY <1>3, <2>1, <2>2 DEF Subs
    <3>2. PS!Subscribe(c, ch)
      BY <1>1, <1>2, <2>1, <3>1 DEF PS!Subscribe
    <3> QED
      BY <3>2 DEF PS!Next
  <2>3. CASE ~(status[c] = "live" /\ LongEnough(ch))
    <3>1. Subs' = Subs
      BY <1>3, <2>1, <2>3 DEF Subs
    <3> QED
      BY <1>1, <1>2, <2>1, <3>1 DEF PS!vars
  <2> QED
    BY <2>2, <2>3
<1>6. ASSUME NEW ch \in Channel, HandleUnsubscribe(c, ch)
      PROVE  [PS!Next]_PS!vars
  <2>1. /\ chans' = [chans EXCEPT ![c] = @ \ {ch}]
        /\ UNCHANGED << status, got >>
    BY <1>6 DEF HandleUnsubscribe
  <2>2. Subs' = [Subs EXCEPT ![c] = @ \ {ch}]
    BY <1>3, <2>1 DEF Subs
  <2>3. PS!Unsubscribe(c, ch)
    BY <1>1, <1>2, <2>1, <2>2 DEF PS!Unsubscribe
  <2> QED
    BY <2>3 DEF PS!Next
<1>7. CASE HandleRefused(c) \/ SocketDisconnected(c)
  <2>1. /\ status' = [status EXCEPT ![c] = "doomed"]
        /\ UNCHANGED << chans, got >>
    BY <1>7 DEF HandleRefused, SocketDisconnected
  <2>2. Subs' = [Subs EXCEPT ![c] = {}]
    BY <1>3, <2>1 DEF Subs
  <2>3. PS!Leave(c)
    BY <1>1, <1>2, <2>1, <2>2 DEF PS!Leave
  <2> QED
    BY <1>2, <2>3 DEF PS!Next
<1>8. CASE DeleteClient(c)
  <2>1. /\ status[c] = "doomed" /\ status' = [status EXCEPT ![c] = "free"]
        /\ chans' = [chans EXCEPT ![c] = {}]
        /\ got' = [got EXCEPT ![c] = << >>]
    BY <1>8 DEF DeleteClient
  <2>2. Subs' = Subs /\ Subs[c] = {}
    BY <1>3, <2>1 DEF Subs
  <2>3. PS!Forget(c)
    BY <1>1, <1>2, <2>1, <2>2 DEF PS!Forget
  <2> QED
    BY <1>2, <2>3 DEF PS!Next
<1>9. QED
  BY <1>2, <1>4, <1>5, <1>6, <1>7, <1>8 DEF ClientStep

-----------------------------------------------------------------------------
(* Every step.                                                              *)

LEMMA RelayStep ==
  ASSUME RelayInv, [Next]_vars
  PROVE  RelayInv' /\ [PS!Next]_PS!vars
<1>1. Inv' /\ ClientsInv'
  BY TypeStep, InvStep, ClientsStep DEF RelayInv, Inv
<1>2. ASSUME FlightInv', [PS!Next]_PS!vars
      PROVE  RelayInv' /\ [PS!Next]_PS!vars
  BY <1>1, <1>2 DEF RelayInv
<1>3. CASE UNCHANGED << inq, sent, status, chans, got >>
  <2>1. Subs' = Subs
    BY <1>3 DEF Subs
  <2> QED
    BY <1>2, <1>3, <2>1, FlightQuiet DEF PS!vars, RelayInv
<1>4. ASSUME UNCHANGED << sent, status, chans, got >>,
             \A m \in Master : inq'[m] \in {inq[m], << >>}
      PROVE  RelayInv' /\ [PS!Next]_PS!vars
  <2>1. Subs' = Subs
    BY <1>4 DEF Subs
  <2>2. FlightInv' /\ \E S \in SUBSET Source : PS!LoseInFlight(S)
    BY <1>4, <2>1, FlightLost DEF RelayInv, Inv
  <2> QED
    BY <1>2, <2>2 DEF PS!Next
<1>5. ASSUME NEW c \in Client, ClientStep(c) PROVE RelayInv' /\ [PS!Next]_PS!vars
  BY <1>2, <1>5, ConsumerStep
<1>6. ASSUME NEW ch \in Channel, IncomingDatagram(ch)
      PROVE  RelayInv' /\ [PS!Next]_PS!vars
  BY <1>2, <1>6, DatagramStep
<1>7. ASSUME NEW m \in Master, LinkStep(m) PROVE RelayInv' /\ [PS!Next]_PS!vars
  <2>1. CASE ReadFromMaster(m)
    BY <1>2, <2>1, ReadStep
  <2>2. CASE MasterEcho(m) \/ \E ch \in Channel : MasterPublish(m, ch)
    BY <1>2, <2>2, SendStep
  <2>3. CASE LinkLost(m)
    <3>1. /\ UNCHANGED << sent, status, chans, got >>
          /\ inq' = [inq EXCEPT ![m] = << >>]
      BY <2>3 DEF LinkLost, clientVars
    <3>2. \A n \in Master : inq'[n] \in {inq[n], << >>}
      BY <3>1 DEF RelayInv, Inv, TypeOK
    <3> QED
      BY <1>4, <3>1, <3>2
  <2>4. CASE MasterConnected(m) \/ MasterSubscription(m) \/ MasterMisparse(m) \/ PathChange(m)
    BY <1>3, <2>4 DEF MasterConnected, MasterSubscription, MasterMisparse, PathChange,
                      clientVars, linkVars
  <2> QED
    BY <1>7, <2>1, <2>2, <2>3, <2>4 DEF LinkStep
<1>8. CASE Timer \/ \E conf \in Confs : Reload(conf)
  <2>1. UNCHANGED << sent, status, chans, got >> /\ \E s, a : CheckMasters(s, a)
    BY <1>8 DEF Timer, Reload, clientVars
  <2>2. \A m \in Master : inq'[m] \in {inq[m], << >>}
    BY <2>1 DEF CheckMasters
  <2> QED
    BY <1>4, <2>1, <2>2
<1>9. CASE UNCHANGED vars
  BY <1>3, <1>9 DEF vars, clientVars, linkVars
<1>10. QED
  BY <1>5, <1>6, <1>7, <1>8, <1>9 DEF Next

LEMMA RelayInit == ASSUME Init PROVE RelayInv /\ PS!Init
<1>1. RelayInv
  BY TypeInit, InvInit, FlightInit DEF RelayInv, Inv
<1>2. Subs = [c \in Client |-> {}]
  BY DEF Init, Subs
<1>3. \A m \in Master : DoneOf(inq[m], Len(sent[m])) = 0
  <2>1. \A m \in Master : inq[m] = << >> /\ Len(sent[m]) = 0
    BY DEF Init, Source
  <2> QED
    BY <2>1, FlightEmpty, FlightDone
<1>4. Done = [s \in Source |-> 0]
  BY <1>3, DoneForm DEF Init, Source
<1>5. QED
  BY <1>1, <1>2, <1>4 DEF Init, PS!Init

\* The relay keeps the promises of PubSub: whatever is counted, broken, redialled or
\* deleted later, a packet reaches once and in order exactly the consumers subscribed.
THEOREM RelayImplementsPubSub == Spec => ImplementsPubSub
<1>1. Init => RelayInv /\ PS!Init
  BY RelayInit
<1>2. RelayInv /\ [Next]_vars => RelayInv' /\ [PS!Next]_PS!vars
  BY RelayStep
<1>3. QED
  BY <1>1, <1>2, PTL DEF Spec, ImplementsPubSub, PS!Spec
=============================================================================
