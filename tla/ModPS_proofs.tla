---------------------------- MODULE ModPS_proofs ----------------------------
(***************************************************************************)
(* Theorems about ModPS, for every set of clients, channels and masters and *)
(* every value of the bounds.                                               *)
(***************************************************************************)
EXTENDS ModPS, FiniteSetTheorems, TLAPS

-----------------------------------------------------------------------------
(* What becomes of a channel when a batch is queued or handled.             *)

\* The batch queued last decides for the channels it names.
LEMMA WillHoldAppend ==
  ASSUME NEW q \in Seq(Batch), NEW b \in Batch, NEW S, NEW ch
  PROVE  WillHold(Append(q, b), S, ch) <=>
           IF ch \in b.chs THEN b.op = "sub" ELSE WillHold(q, S, ch)
<1> DEFINE r == Append(q, b)
           n == Len(q) + 1
<1>1. /\ DOMAIN r = 1..n /\ DOMAIN q = 1..(n - 1) /\ n \in Nat \ {0}
      /\ r[n] = b
      /\ \A i \in 1..(n - 1) : r[i] = q[i]
  OBVIOUS
<1> HIDE DEF r, n
<1>2. CASE ch \in b.chs
  <2>1. n \in Naming(r, ch) /\ \A j \in Naming(r, ch) : j <= n
    BY <1>1, <1>2 DEF Naming
  <2>2. \A i \in Naming(r, ch) : (\A j \in Naming(r, ch) : j <= i) => i = n
    BY <2>1, <1>1 DEF Naming
  <2>3. QED
    BY <2>1, <2>2, <1>1, <1>2 DEF WillHold, r
<1>3. CASE ch \notin b.chs
  <2>1. Naming(r, ch) = Naming(q, ch)
    BY <1>1, <1>3 DEF Naming
  <2>2. \A i \in Naming(q, ch) : r[i] = q[i]
    BY <1>1 DEF Naming
  <2>3. QED
    BY <2>1, <2>2, <1>3 DEF WillHold, r
<1>4. QED
  BY <1>2, <1>3

\* Handling the oldest batch changes nothing about the outcome.
LEMMA WillHoldTail ==
  ASSUME NEW q \in Seq(Batch), q # <<>>, NEW S, NEW T, NEW ch,
         ch \in Head(q).chs => (ch \in T <=> Head(q).op = "sub"),
         ch \notin Head(q).chs => (ch \in T <=> ch \in S)
  PROVE  WillHold(Tail(q), T, ch) <=> WillHold(q, S, ch)
<1> DEFINE r == Tail(q)
           n == Len(q)
<1>1. /\ DOMAIN r = 1..(n - 1) /\ DOMAIN q = 1..n /\ n \in Nat \ {0}
      /\ q[1] = Head(q)
      /\ \A i \in 1..(n - 1) : r[i] = q[i + 1]
  OBVIOUS
<1> HIDE DEF r, n
<1>2. \A i \in 1..(n - 1) : i \in Naming(r, ch) <=> i + 1 \in Naming(q, ch)
  BY <1>1 DEF Naming
<1>3. /\ Naming(r, ch) \subseteq 1..(n - 1) /\ Naming(q, ch) \subseteq 1..n
      /\ 1 \in Naming(q, ch) <=> ch \in Head(q).chs
  BY <1>1 DEF Naming
<1>4. CASE Naming(r, ch) = {}
  <2>1. Naming(q, ch) \subseteq {1}
    <3> SUFFICES ASSUME NEW i \in Naming(q, ch), i # 1 PROVE FALSE
      OBVIOUS
    <3>1. i - 1 \in 1..(n - 1) /\ (i - 1) + 1 = i
      BY <1>1, <1>3
    <3>2. QED
      BY <3>1, <1>2, <1>4
  <2>2. QED
    BY <2>1, <1>1, <1>3, <1>4 DEF WillHold, r
<1>5. CASE Naming(r, ch) # {}
  <2>1. ASSUME NEW i \in Naming(r, ch), \A j \in Naming(r, ch) : j <= i
        PROVE  i + 1 \in Naming(q, ch) /\ \A j \in Naming(q, ch) : j <= i + 1
    <3>1. i + 1 \in Naming(q, ch)
      BY <1>2, <1>3
    <3>2. ASSUME NEW j \in Naming(q, ch) PROVE j <= i + 1
      <4>1. CASE j = 1
        BY <4>1, <1>1, <1>3
      <4>2. CASE j # 1
        <5>1. j - 1 \in 1..(n - 1) /\ (j - 1) + 1 = j
          BY <4>2, <1>1, <1>3
        <5>2. j - 1 <= i
          BY <5>1, <1>2, <2>1
        <5>3. QED
          BY <5>1, <5>2, <1>3, <1>1
      <4>3. QED
        BY <4>1, <4>2
    <3>3. QED
      BY <3>1, <3>2
  <2>2. ASSUME NEW i \in Naming(q, ch), \A j \in Naming(q, ch) : j <= i
        PROVE  i - 1 \in Naming(r, ch) /\ \A j \in Naming(r, ch) : j <= i - 1
    <3>1. \A j \in Naming(r, ch) : j + 1 <= i /\ j \in 1..(n - 1)
      BY <1>2, <1>3, <2>2
    <3>2. i # 1 /\ i \in 1..n
      BY <3>1, <1>5, <1>3, <1>1
    <3>3. i - 1 \in 1..(n - 1) /\ (i - 1) + 1 = i
      BY <3>2, <1>1
    <3>4. QED
      BY <3>1, <3>3, <1>1, <1>2, <2>2
  <2>3. \A i \in Naming(r, ch) : r[i] = q[i + 1]
    BY <1>1, <1>3
  <2>4. \A i \in Naming(q, ch) : i \in 1..n /\ (i - 1) + 1 = i
    BY <1>1, <1>3
  <2>5. Naming(q, ch) # {}
    BY <1>2, <1>3, <1>5
  <2>6. (\E i \in Naming(r, ch) : r[i].op = "sub" /\ \A j \in Naming(r, ch) : j <= i)
        <=> (\E i \in Naming(q, ch) : q[i].op = "sub" /\ \A j \in Naming(q, ch) : j <= i)
    <3>1. ASSUME NEW i \in Naming(r, ch), r[i].op = "sub", \A j \in Naming(r, ch) : j <= i
          PROVE  \E k \in Naming(q, ch) : q[k].op = "sub" /\ \A j \in Naming(q, ch) : j <= k
      BY <3>1, <2>1, <2>3
    <3>2. ASSUME NEW i \in Naming(q, ch), q[i].op = "sub", \A j \in Naming(q, ch) : j <= i
          PROVE  \E k \in Naming(r, ch) : r[k].op = "sub" /\ \A j \in Naming(r, ch) : j <= k
      BY <3>2, <2>2, <2>3, <2>4
    <3>3. QED
      BY <3>1, <3>2
  <2>7. QED
    BY <2>5, <2>6, <1>5 DEF WillHold, r
<1>6. QED
  BY <1>4, <1>5

\* So does handling a part of it, the rest staying at the head.
LEMMA WillHoldPart ==
  ASSUME NEW q \in Seq(Batch), q # <<>>, NEW S, NEW T, NEW ch, NEW part, NEW b,
         b = [op |-> Head(q).op, chs |-> Head(q).chs \ part],
         ch \in part => ch \in Head(q).chs /\ (ch \in T <=> Head(q).op = "sub"),
         ch \notin part => (ch \in T <=> ch \in S)
  PROVE  WillHold([q EXCEPT ![1] = b], T, ch) <=> WillHold(q, S, ch)
<1> DEFINE r == [q EXCEPT ![1] = b]
           n == Len(q)
<1>1. /\ DOMAIN r = 1..n /\ DOMAIN q = 1..n /\ n \in Nat \ {0} /\ 1 \in 1..n
      /\ q[1] = Head(q) /\ r[1] = b
      /\ \A i \in 1..n : i # 1 => r[i] = q[i]
  <2>1. q \in [1..n -> Batch] /\ n \in Nat \ {0}
    OBVIOUS
  <2>2. DOMAIN q = 1..n /\ 1 \in 1..n
    BY <2>1
  <2>3. DOMAIN r = DOMAIN q /\ r[1] = b /\ \A i \in DOMAIN q : i # 1 => r[i] = q[i]
    BY <2>2
  <2>4. q[1] = Head(q)
    OBVIOUS
  <2>5. QED
    BY <2>1, <2>2, <2>3, <2>4
<1>2. b.op = Head(q).op /\ b.chs = Head(q).chs \ part
  OBVIOUS
<1> HIDE DEF r, n
<1>3. /\ Naming(r, ch) \subseteq 1..n /\ Naming(q, ch) \subseteq 1..n
      /\ \A i \in 1..n : i # 1 => (i \in Naming(r, ch) <=> i \in Naming(q, ch))
      /\ 1 \in Naming(q, ch) <=> ch \in Head(q).chs
      /\ 1 \in Naming(r, ch) <=> ch \in Head(q).chs \ part
  BY <1>1, <1>2 DEF Naming
<1>4. \A i \in 1..n : r[i].op = q[i].op
  BY <1>1, <1>2
<1>5. CASE ch \notin part
  <2>1. \A i \in 1..n : i \in Naming(r, ch) <=> i \in Naming(q, ch)
    BY <1>3, <1>5
  <2>2. Naming(r, ch) = Naming(q, ch)
    BY <2>1, <1>3
  <2>3. \A i \in Naming(q, ch) : r[i].op = q[i].op
    BY <1>3, <1>4
  <2>4. WillHold(r, T, ch) <=> WillHold(q, S, ch)
    BY <2>2, <2>3, <1>5 DEF WillHold
  <2>5. QED
    BY <2>4 DEF r
<1>6. CASE ch \in part
  <2>1. Naming(q, ch) = Naming(r, ch) \cup {1} /\ 1 \notin Naming(r, ch)
    <3>1. 1 \in Naming(q, ch) /\ 1 \notin Naming(r, ch)
      BY <1>3, <1>6
    <3>2. \A i \in 1..n : i \in Naming(q, ch) <=> i \in Naming(r, ch) \cup {1}
      BY <3>1, <1>3
    <3>3. QED
      BY <3>1, <3>2, <1>1, <1>3
  <2>2. CASE Naming(r, ch) = {}
    <3>1. WillHold(r, T, ch) <=> ch \in T
      BY <2>2 DEF WillHold
    <3>2. WillHold(q, S, ch) <=> q[1].op = "sub"
      BY <2>1, <2>2 DEF WillHold
    <3>3. QED
      BY <3>1, <3>2, <1>1, <1>6 DEF r
  <2>3. CASE Naming(r, ch) # {}
    <3>1. \A i \in Naming(r, ch) : i > 1 /\ r[i].op = q[i].op /\ i \in Int
      BY <2>1, <1>3, <1>1, <1>4
    <3>2. ASSUME NEW i \in Naming(r, ch), r[i].op = "sub", \A j \in Naming(r, ch) : j <= i
          PROVE  i \in Naming(q, ch) /\ q[i].op = "sub" /\ \A j \in Naming(q, ch) : j <= i
      BY <3>1, <3>2, <2>1
    <3>3. ASSUME NEW i \in Naming(q, ch), q[i].op = "sub", \A j \in Naming(q, ch) : j <= i
          PROVE  i \in Naming(r, ch) /\ r[i].op = "sub" /\ \A j \in Naming(r, ch) : j <= i
      BY <3>1, <3>3, <2>1, <2>3
    <3>4. WillHold(r, T, ch) <=> \E i \in Naming(r, ch) : r[i].op = "sub"
                                    /\ \A j \in Naming(r, ch) : j <= i
      BY <2>3 DEF WillHold
    <3>5. WillHold(q, S, ch) <=> \E i \in Naming(q, ch) : q[i].op = "sub"
                                    /\ \A j \in Naming(q, ch) : j <= i
      BY <2>1 DEF WillHold
    <3>6. WillHold(r, T, ch) <=> WillHold(q, S, ch)
      BY <3>2, <3>3, <3>4, <3>5
    <3>7. QED
      BY <3>6 DEF r
  <2>4. QED
    BY <2>2, <2>3
<1>7. QED
  BY <1>5, <1>6
-----------------------------------------------------------------------------
(* Type correctness.                                                        *)

LinkType ==
  /\ sock \in [Master -> {"absent", "null", "unconnected", "connecting", "connected"}]
  /\ age \in [Master -> Nat]
  /\ pipe \in [Master -> Seq(Batch)]
  /\ framed \in [Master -> BOOLEAN]
  /\ mSubs \in [Master -> SUBSET Channel]
  /\ inq \in [Master -> Seq(Nat)]

LEMMA WriteType ==
  ASSUME TypeOK, NEW op \in {"sub", "unsub"}, NEW chs \in SUBSET Channel,
         WriteToMasters(op, chs)
  PROVE  LinkType'
<1> DEFINE b == [op |-> op, chs |-> chs]
<1>1. ASSUME chs # {} PROVE b \in Batch
  BY <1>1 DEF Batch
<1>2. ASSUME NEW m \in Master, chs # {} PROVE Append(pipe[m], b) \in Seq(Batch)
  BY <1>1, <1>2 DEF TypeOK
<1>3. pipe' \in [Master -> Seq(Batch)]
  BY <1>2 DEF TypeOK, WriteToMasters
<1>4. framed' \in [Master -> BOOLEAN]
  BY DEF TypeOK, WriteToMasters
<1>5. QED
  BY <1>3, <1>4 DEF TypeOK, WriteToMasters, LinkType

LEMMA PingType ==
  ASSUME NEW q \in Seq(Batch)
  PROVE  WithPing(q) \in Seq(Batch)
BY DEF WithPing, Batch

LEMMA OlderType ==
  ASSUME TypeOK, NEW late \in SUBSET Master
  PROVE  Older(late) \in [Master -> Nat]
BY DEF TypeOK, Older

LEMMA CheckMastersType ==
  ASSUME TypeOK,
         NEW s \in [Master -> {"absent", "null", "unconnected", "connecting", "connected"}],
         NEW a \in [Master -> Nat],
         CheckMasters(s, a)
  PROVE  LinkType'
<1>1. \A m \in Master : WithPing(pipe[m]) \in Seq(Batch)
  BY PingType DEF TypeOK
<1>2. \A m \in Master : <<>> \in Seq(Batch) /\ <<>> \in Seq(Nat) /\ {} \in SUBSET Channel
  OBVIOUS
<1>3. sock' \in [Master -> {"absent", "null", "unconnected", "connecting", "connected"}]
      /\ age' \in [Master -> Nat]
  BY DEF CheckMasters, Keeps, Dials
<1>4. pipe' \in [Master -> Seq(Batch)]
  BY <1>1, <1>2 DEF CheckMasters, Keeps, Dials, TypeOK
<1>5. framed' \in [Master -> BOOLEAN]
  BY DEF CheckMasters, Keeps, Dials, TypeOK
<1>6. mSubs' \in [Master -> SUBSET Channel] /\ inq' \in [Master -> Seq(Nat)]
  BY <1>2 DEF CheckMasters, Keeps, Dials, TypeOK
<1>7. QED
  BY <1>3, <1>4, <1>5, <1>6 DEF LinkType

LEMMA PushType ==
  ASSUME TypeOK, NEW s \in Source, NEW n \in Nat, NEW ch, PushPacket(s, n, ch)
  PROVE  got' \in [Client -> Seq(Source \X Nat)]
<1>1. \A c \in Client : Append(got[c], <<s, n>>) \in Seq(Source \X Nat)
  BY DEF TypeOK
<1>2. QED
  BY <1>1 DEF PushPacket, TypeOK

LEMMA TypeStep ==
  ASSUME TypeOK, [Next]_vars
  PROVE  TypeOK'
<1> USE DEF vars, clientVars, linkVars
<1>1. CASE UNCHANGED vars
  BY <1>1 DEF TypeOK
<1>2. ASSUME NEW c \in Client, IncomingTcp(c) PROVE TypeOK'
  BY <1>2 DEF TypeOK, IncomingTcp
<1>3. ASSUME NEW c \in Client, NEW ch \in Channel, HandleSubscribe(c, ch) PROVE TypeOK'
  <2>1. refcount' \in [Channel -> Nat]
    BY <1>3 DEF HandleSubscribe, ChannelAddRef, TypeOK
  <2>2. LinkType'
    BY <1>3, WriteType DEF HandleSubscribe, ChannelAddRef
  <2>3. chans' \in [Client -> SUBSET Channel] /\ running' \in Client \cup {None}
    BY <1>3 DEF HandleSubscribe, TypeOK
  <2>4. QED
    BY <1>3, <2>1, <2>2, <2>3 DEF HandleSubscribe, ChannelAddRef, TypeOK, LinkType
<1>4. ASSUME NEW chs \in SUBSET Channel, ChannelDelRef(chs)
      PROVE  LinkType' /\ refcount' \in [Channel -> Nat] /\ crashed' \in BOOLEAN
  <2>1. refcount' \in [Channel -> Nat]
    BY <1>4 DEF ChannelDelRef, TypeOK
  <2>2. {ch \in chs : refcount[ch] <= 1} \in SUBSET Channel
    OBVIOUS
  <2>3. QED
    BY <1>4, <2>1, <2>2, WriteType DEF ChannelDelRef
<1>5. ASSUME NEW c \in Client, NEW ch \in Channel, HandleUnsubscribe(c, ch) PROVE TypeOK'
  <2>1. LinkType' /\ refcount' \in [Channel -> Nat] /\ crashed' \in BOOLEAN
    BY <1>4, <1>5 DEF HandleUnsubscribe
  <2>2. chans' \in [Client -> SUBSET Channel] /\ running' \in Client \cup {None}
    BY <1>5 DEF HandleUnsubscribe, TypeOK
  <2>3. QED
    BY <1>5, <2>1, <2>2 DEF HandleUnsubscribe, TypeOK, LinkType
<1>6. ASSUME NEW c \in Client, HandleRefused(c) PROVE TypeOK'
  BY <1>6 DEF HandleRefused, TypeOK
<1>7. ASSUME NEW c \in Client, SocketDisconnected(c) PROVE TypeOK'
  BY <1>7 DEF SocketDisconnected, TypeOK
<1>8. ASSUME NEW c \in Client, DeleteClient(c) PROVE TypeOK'
  <2>1. LinkType' /\ refcount' \in [Channel -> Nat] /\ crashed' \in BOOLEAN
    BY <1>4, <1>8 DEF DeleteClient, TypeOK
  <2>2. /\ chans' \in [Client -> SUBSET Channel]
        /\ status' \in [Client -> {"free", "live", "doomed"}]
    BY <1>8 DEF DeleteClient, TypeOK
  <2>3. got' \in [Client -> Seq(Source \X Nat)]
    <3>1. <<>> \in Seq(Source \X Nat)
      OBVIOUS
    <3>2. QED
      BY <1>8, <3>1 DEF DeleteClient, TypeOK
  <2>4. QED
    BY <1>8, <2>1, <2>2, <2>3 DEF DeleteClient, TypeOK, LinkType
<1>9. ASSUME NEW ch \in Channel, IncomingDatagram(ch) PROVE TypeOK'
  <2>1. Udp \in Source /\ Len(sent[Udp]) + 1 \in Nat
    BY DEF TypeOK, Source
  <2>2. got' \in [Client -> Seq(Source \X Nat)]
    BY <1>9, <2>1, PushType DEF IncomingDatagram
  <2>3. Append(sent[Udp], ch) \in Seq(Channel)
    BY <2>1 DEF TypeOK
  <2>4. sent' \in [Source -> Seq(Channel)]
    BY <1>9, <2>3 DEF IncomingDatagram, TypeOK
  <2>5. QED
    BY <1>9, <2>2, <2>4 DEF IncomingDatagram, TypeOK
<1>10. ASSUME NEW m \in Master, ReadFromMaster(m) PROVE TypeOK'
  <2>1. Head(inq[m]) \in Nat /\ Tail(inq[m]) \in Seq(Nat)
    BY <1>10 DEF ReadFromMaster, TypeOK
  <2>2. got' \in [Client -> Seq(Source \X Nat)]
    <3>1. m \in Source
      BY DEF Source
    <3>2. CASE Head(inq[m]) = Pong
      BY <1>10, <3>2 DEF ReadFromMaster, TypeOK
    <3>3. CASE Head(inq[m]) # Pong
      BY <1>10, <2>1, <3>1, <3>3, PushType DEF ReadFromMaster
    <3>4. QED
      BY <3>2, <3>3
  <2>3. QED
    BY <1>10, <2>1, <2>2 DEF ReadFromMaster, TypeOK
<1>11. ASSUME NEW conf \in Confs, Reload(conf) PROVE TypeOK'
  <2> DEFINE s == Configured(conf)
  <2>1. s \in [Master -> {"absent", "null", "unconnected", "connecting", "connected"}]
    BY DEF TypeOK, Configured
  <2>2. PICK late \in SUBSET Master : CheckMasters(s, Older(late))
    BY <1>11 DEF Reload
  <2> HIDE DEF s
  <2>3. LinkType'
    BY <2>1, <2>2, OlderType, CheckMastersType
  <2>4. limit' \in SUBSET Channel
    BY <1>11, ConstantsOK DEF Reload
  <2>5. QED
    BY <1>11, <2>3, <2>4 DEF Reload, TypeOK, LinkType
<1>12. CASE Timer
  <2>1. CheckMasters(sock, Older(Master))
    BY <1>12 DEF Timer
  <2>2. LinkType'
    BY <2>1, OlderType, CheckMastersType DEF TypeOK
  <2>3. QED
    BY <1>12, <2>2 DEF Timer, TypeOK, LinkType
<1>13. ASSUME NEW m \in Master, MasterConnected(m) PROVE TypeOK'
  <2>1. ASSUME Wanted # {}
        PROVE  Append(pipe[m], [op |-> "sub", chs |-> Wanted]) \in Seq(Batch)
    <3>1. Wanted \in SUBSET Channel
      BY DEF Wanted
    <3>2. [op |-> "sub", chs |-> Wanted] \in Batch
      BY <2>1, <3>1 DEF Batch
    <3>3. pipe[m] \in Seq(Batch)
      BY DEF TypeOK
    <3>4. QED
      BY <3>2, <3>3
  <2>2. pipe' \in [Master -> Seq(Batch)]
    BY <1>13, <2>1 DEF MasterConnected, Resubscribe, TypeOK
  <2>3. framed' \in [Master -> BOOLEAN]
    BY <1>13 DEF MasterConnected, TypeOK
  <2>4. QED
    BY <1>13, <2>2, <2>3 DEF MasterConnected, TypeOK
<1>14. ASSUME NEW m \in Master, LinkLost(m) PROVE TypeOK'
  <2>1. <<>> \in Seq(Batch) /\ <<>> \in Seq(Nat)
    OBVIOUS
  <2>2. pipe' \in [Master -> Seq(Batch)] /\ inq' \in [Master -> Seq(Nat)]
    BY <1>14, <2>1 DEF LinkLost, TypeOK
  <2>3. QED
    BY <1>14, <2>2 DEF LinkLost, TypeOK
<1>15. ASSUME NEW m \in Master, MasterSubscription(m) PROVE TypeOK'
  <2> DEFINE b == Head(pipe[m])
  <2>1. PICK part \in SUBSET b.chs \ {{}} :
          /\ mSubs' = [mSubs EXCEPT ![m] = IF b.op = "sub" THEN @ \cup part ELSE @ \ part]
          /\ pipe' = [pipe EXCEPT ![m] =
                        IF part = b.chs THEN Tail(@)
                        ELSE [@ EXCEPT ![1] = [op |-> b.op, chs |-> b.chs \ part]]]
    BY <1>15 DEF MasterSubscription
  <2>2. /\ pipe[m] \in Seq(Batch) /\ pipe[m] # <<>> /\ b \in Batch
        /\ Tail(pipe[m]) \in Seq(Batch)
    BY <1>15 DEF MasterSubscription, TypeOK
  <2>3. b.chs \in SUBSET Channel /\ b.op \in {"sub", "unsub"}
    BY <1>15, <2>2 DEF MasterSubscription, Batch
  <2>4. mSubs' \in [Master -> SUBSET Channel]
    BY <2>1, <2>3 DEF TypeOK
  <2>5. ASSUME part # b.chs
        PROVE  [pipe[m] EXCEPT ![1] = [op |-> b.op, chs |-> b.chs \ part]] \in Seq(Batch)
    <3>1. [op |-> b.op, chs |-> b.chs \ part] \in Batch
      BY <2>1, <2>3, <2>5 DEF Batch
    <3> DEFINE r == [op |-> b.op, chs |-> b.chs \ part]
    <3> HIDE DEF r
    <3>2. pipe[m] \in [1..Len(pipe[m]) -> Batch] /\ Len(pipe[m]) \in Nat
      BY <2>2
    <3>3. [pipe[m] EXCEPT ![1] = r] \in [1..Len(pipe[m]) -> Batch]
      BY <3>1, <3>2 DEF r
    <3>4. [pipe[m] EXCEPT ![1] = r] \in Seq(Batch)
      BY <3>2, <3>3
    <3>5. QED
      BY <3>4 DEF r
  <2>6. pipe' \in [Master -> Seq(Batch)]
    BY <2>1, <2>2, <2>5 DEF TypeOK
  <2>7. QED
    BY <1>15, <2>4, <2>6 DEF MasterSubscription, TypeOK
<1>16. ASSUME NEW m \in Master, MasterEcho(m) PROVE TypeOK'
  <2>1. Tail(pipe[m]) \in Seq(Batch) /\ Append(inq[m], Pong) \in Seq(Nat)
    BY <1>16 DEF MasterEcho, TypeOK, Pong
  <2>2. pipe' \in [Master -> Seq(Batch)] /\ inq' \in [Master -> Seq(Nat)]
    BY <1>16, <2>1 DEF MasterEcho, TypeOK
  <2>3. QED
    BY <1>16, <2>2 DEF MasterEcho, TypeOK
<1>17. ASSUME NEW m \in Master, MasterMisparse(m) PROVE TypeOK'
  <2>1. Tail(pipe[m]) \in Seq(Batch)
    BY <1>17 DEF MasterMisparse, TypeOK
  <2>2. pipe' \in [Master -> Seq(Batch)] /\ mSubs' \in [Master -> SUBSET Channel]
    BY <1>17, <2>1 DEF MasterMisparse, TypeOK
  <2>3. QED
    BY <1>17, <2>2 DEF MasterMisparse, TypeOK
<1>18. ASSUME NEW m \in Master, NEW ch \in Channel, MasterPublish(m, ch) PROVE TypeOK'
  <2>1. m \in Source /\ Len(sent[m]) + 1 \in Nat
    BY DEF TypeOK, Source
  <2>2. Append(inq[m], Len(sent[m]) + 1) \in Seq(Nat) /\ Append(sent[m], ch) \in Seq(Channel)
    BY <2>1 DEF TypeOK
  <2>3. inq' \in [Master -> Seq(Nat)] /\ sent' \in [Source -> Seq(Channel)]
    BY <1>18, <2>2 DEF MasterPublish, TypeOK
  <2>4. QED
    BY <1>18, <2>3 DEF MasterPublish, TypeOK
<1>19. ASSUME NEW m \in Master, PathChange(m) PROVE TypeOK'
  BY <1>19 DEF PathChange, TypeOK
<1>20. QED
  BY <1>1, <1>2, <1>3, <1>5, <1>6, <1>7, <1>8, <1>9, <1>10, <1>11, <1>12, <1>13, <1>14,
     <1>15, <1>16, <1>17, <1>18, <1>19 DEF Next, ClientStep, LinkStep

LEMMA TypeInit == ASSUME Init PROVE TypeOK
<1>1. <<>> \in Seq(Batch) /\ <<>> \in Seq(Nat) /\ <<>> \in Seq(Channel)
      /\ <<>> \in Seq(Source \X Nat)
  OBVIOUS
<1>2. /\ status \in [Client -> {"free", "live", "doomed"}]
      /\ chans \in [Client -> SUBSET Channel]
      /\ got \in [Client -> Seq(Source \X Nat)]
  BY <1>1 DEF Init
<1>3. /\ refcount \in [Channel -> Nat]
      /\ limit \in SUBSET Channel
      /\ sent \in [Source -> Seq(Channel)]
      /\ up \in [Master -> BOOLEAN]
      /\ running \in Client \cup {None}
      /\ crashed \in BOOLEAN
  BY <1>1 DEF Init
<1>4. LinkType
  BY <1>1 DEF Init, LinkType
<1>5. QED
  BY <1>2, <1>3, <1>4 DEF LinkType, TypeOK

\* The variables keep their types: in particular the counters stay natural and
\* every batch towards a master is a ping or names a channel.
THEOREM TypeCorrect == Spec => []TypeOK
<1>1. Init => TypeOK
  BY TypeInit
<1>2. TypeOK /\ [Next]_vars => TypeOK'
  BY TypeStep
<1>3. QED
  BY <1>1, <1>2, PTL DEF Spec

-----------------------------------------------------------------------------
(* Reference counting.                                                      *)

LEMMA HoldersFinite ==
  ASSUME NEW ch PROVE IsFiniteSet(Holders(ch))
BY ConstantsOK, FS_Subset DEF Holders

LEMMA AddRefExact ==
  ASSUME TypeOK, RefcountExact, NEW c \in Client, NEW ch \in Channel, ch \notin chans[c],
         ChannelAddRef(ch), chans' = [chans EXCEPT ![c] = @ \cup {ch}]
  PROVE  RefcountExact'
<1> SUFFICES ASSUME NEW d \in Channel PROVE refcount'[d] = Cardinality(Holders(d)')
  BY DEF RefcountExact
<1>1. refcount[d] = Cardinality(Holders(d)) /\ IsFiniteSet(Holders(d))
  BY HoldersFinite DEF RefcountExact
<1>2. CASE d = ch
  <2>1. Holders(d)' = Holders(d) \cup {c} /\ c \notin Holders(d)
    BY <1>2 DEF Holders, TypeOK
  <2>2. Cardinality(Holders(d)') = Cardinality(Holders(d)) + 1
    BY <2>1, <1>1, FS_AddElement
  <2>3. QED
    BY <2>2, <1>1, <1>2 DEF ChannelAddRef, TypeOK
<1>3. CASE d # ch
  <2>1. Holders(d)' = Holders(d)
    BY <1>3 DEF Holders, TypeOK
  <2>2. QED
    BY <2>1, <1>1, <1>3 DEF ChannelAddRef, TypeOK
<1>4. QED
  BY <1>2, <1>3

LEMMA DelRefExact ==
  ASSUME TypeOK, RefcountExact, NEW c \in Client, NEW chs \in SUBSET chans[c],
         ChannelDelRef(chs), chans' = [chans EXCEPT ![c] = @ \ chs]
  PROVE  RefcountExact' /\ ~crashed'
<1>1. \A d \in Channel : refcount[d] = Cardinality(Holders(d)) /\ IsFiniteSet(Holders(d))
  BY HoldersFinite DEF RefcountExact
<1>2. chs \subseteq Channel
  BY DEF TypeOK
<1>3. ASSUME NEW d \in chs
      PROVE  refcount[d] > 0 /\ Cardinality(Holders(d)') = refcount[d] - 1
  <2>1. Holders(d)' = Holders(d) \ {c} /\ c \in Holders(d)
    BY <1>2 DEF Holders, TypeOK
  <2>2. Cardinality(Holders(d) \ {c}) = Cardinality(Holders(d)) - 1
    BY <2>1, <1>1, <1>2, FS_RemoveElement
  <2>3. Cardinality(Holders(d)) # 0
    BY <2>1, <1>1, <1>2, FS_EmptySet
  <2>4. QED
    BY <2>1, <2>2, <2>3, <1>1, <1>2 DEF TypeOK
<1>4. ~crashed'
  BY <1>2, <1>3 DEF ChannelDelRef
<1>5. ASSUME NEW d \in Channel PROVE refcount'[d] = Cardinality(Holders(d)')
  <2>1. CASE d \in chs
    BY <2>1, <1>3 DEF ChannelDelRef
  <2>2. CASE d \notin chs
    <3>1. Holders(d)' = Holders(d)
      BY <2>2 DEF Holders, TypeOK
    <3>2. QED
      BY <3>1, <2>2, <1>1 DEF ChannelDelRef
  <2>3. QED
    BY <2>1, <2>2
<1>6. QED
  BY <1>4, <1>5 DEF RefcountExact

-----------------------------------------------------------------------------
(* Upstream subscriptions.                                                  *)

\* A channel is written upstream exactly when it becomes, or stops being, wanted.
LEMMA WriteMirrored ==
  ASSUME TypeOK, UpstreamMirrored,
         NEW op \in {"sub", "unsub"}, NEW chs \in SUBSET Channel, WriteToMasters(op, chs),
         Wanted' = IF op = "sub" THEN Wanted \cup chs ELSE Wanted \ chs
  PROVE  UpstreamMirrored'
<1> DEFINE b == [op |-> op, chs |-> chs]
<1> SUFFICES ASSUME NEW m \in Master, NEW ch \in Channel, framed'[m]
             PROVE  LET held == WillHold(pipe'[m], mSubs'[m], ch)
                    IN /\ held => m \in Linked' /\ ch \in Wanted'
                       /\ sock'[m] = "connected" /\ ch \in Wanted' => held
  BY DEF UpstreamMirrored
<1>1. /\ framed[m] /\ sock' = sock /\ mSubs' = mSubs /\ Linked' = Linked
      /\ sock[m] = "connected" => m \in Linked
  BY DEF WriteToMasters, Linked
<1>2. LET held == WillHold(pipe[m], mSubs[m], ch)
      IN /\ held => m \in Linked /\ ch \in Wanted
         /\ sock[m] = "connected" /\ ch \in Wanted => held
  BY <1>1 DEF UpstreamMirrored
<1>3. CASE m \in Linked /\ chs # {}
  <2>1. b \in Batch /\ pipe[m] \in Seq(Batch)
    BY <1>3 DEF Batch, TypeOK
  <2>2. pipe'[m] = Append(pipe[m], b)
    BY <1>3 DEF WriteToMasters
  <2>3. WillHold(pipe'[m], mSubs[m], ch)
          <=> IF ch \in chs THEN op = "sub" ELSE WillHold(pipe[m], mSubs[m], ch)
    BY <2>1, <2>2, WillHoldAppend
  <2>4. QED
    BY <2>3, <1>1, <1>2, <1>3
<1>4. CASE ~(m \in Linked /\ chs # {})
  <2>1. pipe'[m] = pipe[m]
    BY <1>4 DEF WriteToMasters
  <2>2. QED
    BY <2>1, <1>1, <1>2, <1>4
<1>5. QED
  BY <1>3, <1>4

\* Pings name no channel, and a link that is given up is emptied.
LEMMA CheckMastersMirrored ==
  ASSUME TypeOK, UpstreamMirrored, NEW s, NEW a,
         \A m \in Master : s[m] \in {"connecting", "connected"} => s[m] = sock[m],
         CheckMasters(s, a), UNCHANGED refcount
  PROVE  UpstreamMirrored'
<1>1. Wanted' = Wanted
  BY DEF Wanted
<1> SUFFICES ASSUME NEW m \in Master, NEW ch \in Channel, framed'[m]
             PROVE  LET held == WillHold(pipe'[m], mSubs'[m], ch)
                    IN /\ held => m \in Linked' /\ ch \in Wanted
                       /\ sock'[m] = "connected" /\ ch \in Wanted => held
  BY <1>1 DEF UpstreamMirrored
<1>2. CASE Keeps(s, a, m)
  <2>1. framed[m] /\ sock'[m] = sock[m] /\ mSubs'[m] = mSubs[m]
    BY <1>2 DEF CheckMasters, Keeps, Dials
  <2>2. pipe'[m] = pipe[m] \/ pipe'[m] = Append(pipe[m], [op |-> "ping", chs |-> {}])
    BY <1>2 DEF CheckMasters, Keeps, Dials, WithPing
  <2>3. [op |-> "ping", chs |-> {}] \in Batch /\ pipe[m] \in Seq(Batch)
    BY DEF Batch, TypeOK
  <2>4. WillHold(pipe'[m], mSubs'[m], ch) <=> WillHold(pipe[m], mSubs[m], ch)
    <3> DEFINE b == [op |-> "ping", chs |-> {}]
    <3>1. WillHold(Append(pipe[m], b), mSubs[m], ch) <=>
            IF ch \in b.chs THEN b.op = "sub" ELSE WillHold(pipe[m], mSubs[m], ch)
      BY <2>3, WillHoldAppend
    <3>2. ch \notin b.chs
      OBVIOUS
    <3> HIDE DEF b
    <3>3. WillHold(Append(pipe[m], b), mSubs[m], ch) <=> WillHold(pipe[m], mSubs[m], ch)
      BY <3>1, <3>2
    <3>4. QED
      BY <3>3, <2>1, <2>2 DEF b
  <2>5. m \in Linked' <=> m \in Linked
    BY <2>1 DEF Linked
  <2>6. QED
    BY <2>1, <2>4, <2>5 DEF UpstreamMirrored
<1>3. CASE ~Keeps(s, a, m)
  <2>1. pipe'[m] = <<>> /\ mSubs'[m] = {}
    BY <1>3 DEF CheckMasters, Keeps, Dials
  <2>2. sock'[m] # "connected"
    BY <1>3 DEF CheckMasters, Keeps, Dials
  <2>3. ~WillHold(pipe'[m], mSubs'[m], ch)
    BY <2>1 DEF WillHold, Naming
  <2>4. QED
    BY <2>2, <2>3
<1>4. QED
  BY <1>2, <1>3
-----------------------------------------------------------------------------
(* The inductive invariant.                                                 *)

Inv ==
  /\ TypeOK
  /\ RefcountExact
  /\ NeverAborts
  /\ UpstreamMirrored

LEMMA InvInit == ASSUME Init PROVE RefcountExact /\ NeverAborts /\ UpstreamMirrored
<1>1. \A ch \in Channel : Holders(ch) = {}
  BY DEF Init, Holders
<1>2. RefcountExact
  BY <1>1, FS_EmptySet DEF Init, RefcountExact
<1>3. \A m \in Master, ch \in Channel : ~WillHold(pipe[m], mSubs[m], ch)
  BY DEF Init, WillHold, Naming
<1>4. \A m \in Master : sock[m] # "connected"
  BY DEF Init
<1>5. QED
  BY <1>2, <1>3, <1>4 DEF Init, NeverAborts, UpstreamMirrored

\* A step that leaves the subscriptions and the links alone.
LEMMA InvFrame ==
  ASSUME Inv, UNCHANGED <<chans, refcount, sock, pipe, framed, mSubs, crashed>>
  PROVE  RefcountExact' /\ NeverAborts' /\ UpstreamMirrored'
<1>1. /\ \A ch : Holders(ch)' = Holders(ch)
      /\ Wanted' = Wanted /\ Linked' = Linked
  BY DEF Holders, Wanted, Linked
<1>2. RefcountExact' /\ NeverAborts'
  BY <1>1 DEF Inv, RefcountExact, NeverAborts
<1>3. UpstreamMirrored'
  BY <1>1 DEF Inv, UpstreamMirrored
<1>4. QED
  BY <1>2, <1>3

LEMMA ReleaseStep ==
  ASSUME Inv, NEW c \in Client, NEW chs \in SUBSET chans[c],
         ChannelDelRef(chs), chans' = [chans EXCEPT ![c] = @ \ chs]
  PROVE  RefcountExact' /\ NeverAborts' /\ UpstreamMirrored'
<1> DEFINE last == {ch \in chs : refcount[ch] <= 1}
<1>1. RefcountExact' /\ NeverAborts'
  BY DelRefExact DEF Inv, NeverAborts
<1>2. last \in SUBSET Channel /\ chs \subseteq Channel
  BY DEF Inv, TypeOK
<1>3. Wanted' = Wanted \ last
  BY <1>2 DEF ChannelDelRef, Wanted, Inv, TypeOK
<1>4. WriteToMasters("unsub", last)
  BY DEF ChannelDelRef
<1> HIDE DEF last
<1>5. UpstreamMirrored'
  BY <1>2, <1>3, <1>4, WriteMirrored DEF Inv
<1>6. QED
  BY <1>1, <1>5

\* What leaves Holders alone, and crashed, while links change.
LEMMA LinkFrame ==
  ASSUME Inv, UNCHANGED <<chans, refcount, crashed>>
  PROVE  RefcountExact' /\ NeverAborts' /\ Wanted' = Wanted
BY DEF Inv, RefcountExact, NeverAborts, Holders, Wanted

\* A step that changes one link only.
LEMMA OneLink ==
  ASSUME Inv, UNCHANGED refcount, NEW m \in Master,
         \A n \in Master \ {m} : /\ sock'[n] = sock[n] /\ pipe'[n] = pipe[n]
                                 /\ framed'[n] = framed[n] /\ mSubs'[n] = mSubs[n],
         \A ch \in Channel :
           LET held == WillHold(pipe'[m], mSubs'[m], ch)
           IN framed'[m] => /\ held => sock'[m] \in {"connecting", "connected"}
                                       /\ ch \in Wanted
                            /\ sock'[m] = "connected" /\ ch \in Wanted => held
  PROVE  UpstreamMirrored'
<1>1. Wanted' = Wanted
  BY DEF Wanted
<1> SUFFICES ASSUME NEW n \in Master, NEW ch \in Channel, framed'[n]
             PROVE  LET held == WillHold(pipe'[n], mSubs'[n], ch)
                    IN /\ held => n \in Linked' /\ ch \in Wanted
                       /\ sock'[n] = "connected" /\ ch \in Wanted => held
  BY <1>1 DEF UpstreamMirrored
<1>2. n \in Linked' <=> sock'[n] \in {"connecting", "connected"}
  BY DEF Linked
<1>3. CASE n = m
  BY <1>2, <1>3
<1>4. CASE n # m
  <2>1. n \in Linked' <=> n \in Linked
    BY <1>4, <1>2 DEF Linked
  <2>2. QED
    BY <2>1, <1>4 DEF Inv, UpstreamMirrored
<1>5. QED
  BY <1>3, <1>4
LEMMA InvStep ==
  ASSUME Inv, [Next]_vars
  PROVE  RefcountExact' /\ NeverAborts' /\ UpstreamMirrored'
<1> USE DEF vars, clientVars, linkVars
<1>1. CASE UNCHANGED <<chans, refcount, sock, pipe, framed, mSubs, crashed>>
  BY <1>1, InvFrame
<1>2. ASSUME NEW c \in Client, NEW ch \in Channel, HandleSubscribe(c, ch)
      PROVE  RefcountExact' /\ NeverAborts' /\ UpstreamMirrored'
  <2> DEFINE new == IF refcount[ch] = 0 THEN {ch} ELSE {}
  <2>1. RefcountExact'
    BY <1>2, AddRefExact DEF HandleSubscribe, Inv
  <2>2. NeverAborts'
    BY <1>2 DEF HandleSubscribe, ChannelAddRef, Inv, NeverAborts
  <2>3. new \in SUBSET Channel /\ WriteToMasters("sub", new)
    BY <1>2 DEF HandleSubscribe, ChannelAddRef
  <2>4. Wanted' = Wanted \cup new
    BY <1>2 DEF HandleSubscribe, ChannelAddRef, Wanted, Inv, TypeOK
  <2> HIDE DEF new
  <2>5. UpstreamMirrored'
    BY <2>3, <2>4, WriteMirrored DEF Inv
  <2>6. QED
    BY <2>1, <2>2, <2>5
<1>3. ASSUME NEW c \in Client, NEW ch \in Channel, HandleUnsubscribe(c, ch)
      PROVE  RefcountExact' /\ NeverAborts' /\ UpstreamMirrored'
  <2>1. {ch} \in SUBSET chans[c]
    BY <1>3 DEF HandleUnsubscribe
  <2>2. ChannelDelRef({ch}) /\ chans' = [chans EXCEPT ![c] = @ \ {ch}]
    BY <1>3 DEF HandleUnsubscribe
  <2>3. QED
    BY <2>1, <2>2, ReleaseStep
<1>4. ASSUME NEW c \in Client, DeleteClient(c)
      PROVE  RefcountExact' /\ NeverAborts' /\ UpstreamMirrored'
  <2>1. ChannelDelRef(chans[c]) /\ chans' = [chans EXCEPT ![c] = {}]
    BY <1>4 DEF DeleteClient
  <2>2. chans' = [chans EXCEPT ![c] = @ \ chans[c]]
    BY <2>1 DEF Inv, TypeOK
  <2>3. QED
    BY <2>1, <2>2, ReleaseStep
<1>5. ASSUME NEW conf \in Confs, Reload(conf)
      PROVE  RefcountExact' /\ NeverAborts' /\ UpstreamMirrored'
  <2> DEFINE s == Configured(conf)
  <2>1. \A m \in Master : s[m] \in {"connecting", "connected"} => s[m] = sock[m]
    BY DEF Configured
  <2>2. PICK late \in SUBSET Master :
          CheckMasters(s, Older(late)) /\ UNCHANGED <<chans, refcount, crashed>>
    BY <1>5 DEF Reload, clientVars
  <2> HIDE DEF s
  <2>3. UpstreamMirrored'
    BY <2>1, <2>2, CheckMastersMirrored DEF Inv
  <2>4. QED
    BY <2>2, <2>3, LinkFrame
<1>6. CASE Timer
  <2>1. CheckMasters(sock, Older(Master)) /\ UNCHANGED <<chans, refcount, crashed>>
    BY <1>6 DEF Timer, clientVars
  <2>2. UpstreamMirrored'
    BY <2>1, CheckMastersMirrored DEF Inv
  <2>3. QED
    BY <2>1, <2>2, LinkFrame
<1>7. ASSUME NEW m \in Master, MasterConnected(m)
      PROVE  RefcountExact' /\ NeverAborts' /\ UpstreamMirrored'
  <2> DEFINE b == [op |-> "sub", chs |-> Wanted]
  <2>1. /\ UNCHANGED <<chans, refcount, crashed, mSubs>>
        /\ sock[m] = "connecting"
        /\ sock' = [sock EXCEPT ![m] = "connected"]
        /\ framed' = [framed EXCEPT ![m] = @ /\ Whole(Wanted)]
        /\ pipe' = [pipe EXCEPT ![m] = IF Wanted = {} THEN @ ELSE Append(@, b)]
    BY <1>7 DEF MasterConnected, Resubscribe
  <2>2. pipe[m] \in Seq(Batch) /\ (Wanted # {} => b \in Batch)
    BY DEF Inv, TypeOK, Batch, Wanted
  <2>3. ASSUME NEW ch \in Channel, framed'[m]
        PROVE  WillHold(pipe'[m], mSubs'[m], ch) <=> ch \in Wanted
    <3>1. WillHold(pipe[m], mSubs[m], ch) => ch \in Wanted
      BY <2>1, <2>3 DEF Inv, TypeOK, UpstreamMirrored
    <3>2. CASE Wanted = {}
      BY <3>1, <3>2, <2>1 DEF Inv, TypeOK
    <3>3. CASE Wanted # {}
      <4>1. pipe'[m] = Append(pipe[m], b) /\ mSubs'[m] = mSubs[m]
        BY <3>3, <2>1 DEF Inv, TypeOK
      <4>2. WillHold(Append(pipe[m], b), mSubs[m], ch) <=>
              IF ch \in b.chs THEN b.op = "sub" ELSE WillHold(pipe[m], mSubs[m], ch)
        BY <3>3, <2>2, WillHoldAppend
      <4>3. b.chs = Wanted /\ b.op = "sub"
        OBVIOUS
      <4> HIDE DEF b
      <4>4. QED
        BY <4>1, <4>2, <4>3, <3>1
    <3>4. QED
      BY <3>2, <3>3
  <2>4. sock'[m] = "connected"
    BY <2>1 DEF Inv, TypeOK
  <2>5. \A n \in Master \ {m} : /\ sock'[n] = sock[n] /\ pipe'[n] = pipe[n]
                                /\ framed'[n] = framed[n] /\ mSubs'[n] = mSubs[n]
    BY <2>1 DEF Inv, TypeOK
  <2>6. UpstreamMirrored'
    BY <2>1, <2>3, <2>4, <2>5, OneLink
  <2>7. QED
    BY <2>1, <2>6, LinkFrame
<1>8. ASSUME NEW m \in Master, LinkLost(m)
      PROVE  RefcountExact' /\ NeverAborts' /\ UpstreamMirrored'
  <2>1. /\ sock'[m] = "unconnected" /\ pipe'[m] = <<>> /\ mSubs'[m] = {}
        /\ UNCHANGED <<chans, refcount, crashed>>
    BY <1>8 DEF LinkLost, Inv, TypeOK
  <2>2. \A ch : ~WillHold(pipe'[m], mSubs'[m], ch)
    BY <2>1 DEF WillHold, Naming
  <2>3. \A n \in Master \ {m} : /\ sock'[n] = sock[n] /\ pipe'[n] = pipe[n]
                                /\ framed'[n] = framed[n] /\ mSubs'[n] = mSubs[n]
    BY <1>8 DEF LinkLost, Inv, TypeOK
  <2>4. UpstreamMirrored'
    BY <2>1, <2>2, <2>3, OneLink
  <2>5. QED
    BY <2>1, <2>4, LinkFrame
<1>9. ASSUME NEW m \in Master, UNCHANGED <<chans, refcount, crashed, sock, framed>>,
             \A n \in Master \ {m} : pipe'[n] = pipe[n] /\ mSubs'[n] = mSubs[n],
             framed[m] => \A ch \in Channel : WillHold(pipe'[m], mSubs'[m], ch)
                                                <=> WillHold(pipe[m], mSubs[m], ch)
      PROVE  RefcountExact' /\ NeverAborts' /\ UpstreamMirrored'
  <2>1. UpstreamMirrored'
    BY <1>9, OneLink DEF Inv, UpstreamMirrored, Linked
  <2>2. QED
    BY <1>9, <2>1, LinkFrame
<1>10. ASSUME NEW m \in Master, MasterSubscription(m)
       PROVE  RefcountExact' /\ NeverAborts' /\ UpstreamMirrored'
  <2> DEFINE b == Head(pipe[m])
  <2>1. PICK part \in SUBSET b.chs \ {{}} :
          /\ mSubs' = [mSubs EXCEPT ![m] = IF b.op = "sub" THEN @ \cup part ELSE @ \ part]
          /\ pipe' = [pipe EXCEPT ![m] =
                        IF part = b.chs THEN Tail(@)
                        ELSE [@ EXCEPT ![1] = [op |-> b.op, chs |-> b.chs \ part]]]
    BY <1>10 DEF MasterSubscription
  <2>2. pipe[m] \in Seq(Batch) /\ pipe[m] # <<>>
    BY <1>10 DEF MasterSubscription, Inv, TypeOK
  <2>3. mSubs'[m] = IF b.op = "sub" THEN mSubs[m] \cup part ELSE mSubs[m] \ part
    BY <2>1 DEF Inv, TypeOK
  <2>4. ASSUME NEW ch
        PROVE  WillHold(pipe'[m], mSubs'[m], ch) <=> WillHold(pipe[m], mSubs[m], ch)
    <3>1. /\ ch \in part => ch \in b.chs /\ (ch \in mSubs'[m] <=> b.op = "sub")
          /\ ch \notin part => (ch \in mSubs'[m] <=> ch \in mSubs[m])
      BY <2>1, <2>3
    <3>2. CASE part = b.chs
      <4>1. pipe'[m] = Tail(pipe[m])
        BY <2>1, <3>2 DEF Inv, TypeOK
      <4>2. /\ ch \in Head(pipe[m]).chs => (ch \in mSubs'[m] <=> Head(pipe[m]).op = "sub")
            /\ ch \notin Head(pipe[m]).chs => (ch \in mSubs'[m] <=> ch \in mSubs[m])
        BY <3>1, <3>2
      <4>3. WillHold(Tail(pipe[m]), mSubs'[m], ch) <=> WillHold(pipe[m], mSubs[m], ch)
        BY <4>2, <2>2, WillHoldTail
      <4>4. QED
        BY <4>1, <4>3
    <3>3. CASE part # b.chs
      <4> DEFINE r == [op |-> b.op, chs |-> b.chs \ part]
      <4>1. pipe'[m] = [pipe[m] EXCEPT ![1] = r]
        BY <2>1, <3>3 DEF Inv, TypeOK
      <4>2. r = [op |-> Head(pipe[m]).op, chs |-> Head(pipe[m]).chs \ part]
        OBVIOUS
      <4> HIDE DEF r
      <4>3. QED
        BY <4>1, <4>2, <3>1, <2>2, WillHoldPart
    <3>4. QED
      BY <3>2, <3>3
  <2>5. \A n \in Master \ {m} : pipe'[n] = pipe[n] /\ mSubs'[n] = mSubs[n]
    BY <2>1 DEF Inv, TypeOK
  <2>6. QED
    BY <1>10, <2>4, <2>5, <1>9 DEF MasterSubscription
<1>11. ASSUME NEW m \in Master, MasterEcho(m)
       PROVE  RefcountExact' /\ NeverAborts' /\ UpstreamMirrored'
  <2>1. /\ pipe[m] \in Seq(Batch) /\ pipe[m] # <<>> /\ Head(pipe[m]) \in Batch
        /\ pipe'[m] = Tail(pipe[m]) /\ mSubs' = mSubs
    BY <1>11 DEF MasterEcho, Inv, TypeOK
  <2>2. Head(pipe[m]).chs = {}
    BY <1>11, <2>1 DEF MasterEcho, Batch
  <2>3. ASSUME NEW ch
        PROVE  WillHold(pipe'[m], mSubs'[m], ch) <=> WillHold(pipe[m], mSubs[m], ch)
    <3>1. ch \notin Head(pipe[m]).chs
      BY <2>2
    <3>2. WillHold(Tail(pipe[m]), mSubs[m], ch) <=> WillHold(pipe[m], mSubs[m], ch)
      BY <3>1, <2>1, WillHoldTail
    <3>3. QED
      BY <3>2, <2>1
  <2>4. \A n \in Master \ {m} : pipe'[n] = pipe[n] /\ mSubs'[n] = mSubs[n]
    BY <1>11 DEF MasterEcho, Inv, TypeOK
  <2>5. QED
    BY <1>11, <2>3, <2>4, <1>9 DEF MasterEcho
<1>12. ASSUME NEW m \in Master, MasterMisparse(m)
       PROVE  RefcountExact' /\ NeverAborts' /\ UpstreamMirrored'
  <2>1. \A n \in Master \ {m} : pipe'[n] = pipe[n] /\ mSubs'[n] = mSubs[n]
    BY <1>12 DEF MasterMisparse, Inv, TypeOK
  <2>2. QED
    BY <1>12, <2>1, <1>9 DEF MasterMisparse
<1>13. ASSUME NEW c \in Client, IncomingTcp(c) \/ HandleRefused(c) \/ SocketDisconnected(c)
       PROVE  RefcountExact' /\ NeverAborts' /\ UpstreamMirrored'
  BY <1>13, <1>1 DEF IncomingTcp, HandleRefused, SocketDisconnected
<1>14. ASSUME NEW ch \in Channel, IncomingDatagram(ch)
       PROVE  RefcountExact' /\ NeverAborts' /\ UpstreamMirrored'
  BY <1>14, <1>1 DEF IncomingDatagram
<1>15. ASSUME NEW m \in Master, ReadFromMaster(m)
       PROVE  RefcountExact' /\ NeverAborts' /\ UpstreamMirrored'
  BY <1>15, <1>1 DEF ReadFromMaster
<1>16. ASSUME NEW m \in Master, NEW ch \in Channel, MasterPublish(m, ch)
       PROVE  RefcountExact' /\ NeverAborts' /\ UpstreamMirrored'
  BY <1>16, <1>1 DEF MasterPublish
<1>17. ASSUME NEW m \in Master, PathChange(m)
       PROVE  RefcountExact' /\ NeverAborts' /\ UpstreamMirrored'
  BY <1>17, <1>1 DEF PathChange
<1>18. CASE UNCHANGED vars
  BY <1>18, <1>1
<1>19. QED
  BY <1>2, <1>3, <1>4, <1>5, <1>6, <1>7, <1>8, <1>10, <1>11, <1>12, <1>13, <1>14, <1>15,
     <1>16, <1>17, <1>18 DEF Next, ClientStep, LinkStep

LEMMA InvAlways == Spec => []Inv
<1>1. Init => Inv
  <2>1. Init => TypeOK
    BY TypeInit
  <2>2. QED
    BY <2>1, InvInit DEF Inv
<1>2. Inv /\ [Next]_vars => Inv'
  BY TypeStep, InvStep DEF Inv
<1>3. QED
  BY <1>1, <1>2, PTL DEF Spec

\* However clients subscribe, leave and are deleted later, channel_refcount
\* counts the client objects holding each channel.
THEOREM RefcountCorrect == Spec => []RefcountExact
BY InvAlways, PTL DEF Inv

\* The abort() that "can't happen" does not.
THEOREM AbortUnreachable == Spec => []NeverAborts
BY InvAlways, PTL DEF Inv

\* With any number of masters, clients and channels, across reloads, outages
\* and reconnections, a master's subscriptions converge to what clients hold.
THEOREM UpstreamCorrect == Spec => []UpstreamMirrored
BY InvAlways, PTL DEF Inv

-----------------------------------------------------------------------------
(* No entry of masters is NULL between two handlers.                        *)

THEOREM NullMasterUnreachable == Spec => []NoNullMaster
<1>1. Init => NoNullMaster
  BY DEF Init, NoNullMaster
<1>2. ASSUME NoNullMaster, [Next]_vars PROVE NoNullMaster'
  <2>1. ASSUME NEW s, NEW a, CheckMasters(s, a) PROVE NoNullMaster'
    BY <2>1 DEF CheckMasters, Keeps, Dials, NoNullMaster
  <2>2. CASE sock' = sock
    BY <1>2, <2>2 DEF NoNullMaster
  <2>3. ASSUME NEW m \in Master, NEW v \in {"connected", "unconnected"},
               sock' = [sock EXCEPT ![m] = v]
        PROVE  NoNullMaster'
    BY <1>2, <2>3 DEF NoNullMaster
  <2>4. CASE \E c \in Client : ClientStep(c)
    <3>1. sock' = sock
      BY <2>4, ZenonT(60) DEF ClientStep, IncomingTcp, HandleSubscribe, HandleUnsubscribe, HandleRefused,
           SocketDisconnected, DeleteClient, ChannelAddRef, ChannelDelRef, WriteToMasters,
           linkVars
    <3>2. QED
      BY <3>1, <2>2
  <2>5. CASE \E ch \in Channel : IncomingDatagram(ch)
    BY <2>5, <2>2 DEF IncomingDatagram, linkVars
  <2>6. ASSUME NEW m \in Master, LinkStep(m) PROVE NoNullMaster'
    <3>1. \/ sock' = sock
          \/ sock' = [sock EXCEPT ![m] = "connected"]
          \/ sock' = [sock EXCEPT ![m] = "unconnected"]
      BY <2>6 DEF LinkStep, ReadFromMaster, MasterConnected, LinkLost, MasterSubscription,
           MasterEcho, MasterMisparse, MasterPublish, PathChange, linkVars
    <3>2. QED
      BY <3>1, <2>2, <2>3
  <2>7. CASE Timer \/ \E conf \in Confs : Reload(conf)
    BY <2>1, <2>7 DEF Timer, Reload
  <2>8. CASE UNCHANGED vars
    BY <2>2, <2>8 DEF vars, linkVars
  <2>9. QED
    BY <1>2, <2>4, <2>5, <2>6, <2>7, <2>8 DEF Next
<1>3. QED
  BY <1>1, <1>2, PTL DEF Spec

-----------------------------------------------------------------------------
(* How old a link grows.                                                    *)

\* The timer has redialled every link that nothing was read on for longer.
AgeInv == \A m \in Master : sock[m] \in {"connecting", "connected"} => age[m] <= StaleAfter

\* Only checkMasters() gives up a link to dial it again: clients append to its queue, a
\* loss leaves it unconnected, and what the master takes leaves it connected.
LEMMA LinksKept ==
  ASSUME TypeOK, [Next]_vars, NEW m \in Master, Redialled(m)
  PROVE  Timer \/ \E conf \in Confs : Reload(conf)
<1>1. /\ sock'[m] = "connecting"
      /\ sock[m] = "connected" \/ Len(pipe'[m]) < Len(pipe[m])
      /\ pipe \in [Master -> Seq(Batch)] /\ DOMAIN sock = Master
  BY DEF Redialled, TypeOK
<1>2. ~(sock' = sock /\ pipe' = pipe)
  <2>1. Len(pipe[m]) \in Nat
    BY <1>1
  <2> QED
    BY <1>1, <2>1
<1>3. ASSUME NEW op \in {"sub", "unsub"}, NEW chs, WriteToMasters(op, chs) PROVE FALSE
  <2>1. sock' = sock /\ pipe'[m] \in {pipe[m], Append(pipe[m], [op |-> op, chs |-> chs])}
    BY <1>3 DEF WriteToMasters
  <2>2. Len(pipe[m]) \in Nat /\ Len(Append(pipe[m], [op |-> op, chs |-> chs])) = Len(pipe[m]) + 1
    BY <1>1
  <2> QED
    BY <1>1, <2>1, <2>2
<1>4. ASSUME NEW c \in Client PROVE ~ClientStep(c)
  <2>1. ASSUME NEW ch \in Channel PROVE ~HandleSubscribe(c, ch) /\ ~HandleUnsubscribe(c, ch)
    BY <1>3 DEF HandleSubscribe, HandleUnsubscribe, ChannelAddRef, ChannelDelRef
  <2>2. ~DeleteClient(c)
    BY <1>3 DEF DeleteClient, ChannelDelRef
  <2>3. ~IncomingTcp(c) /\ ~HandleRefused(c) /\ ~SocketDisconnected(c)
    BY <1>2 DEF IncomingTcp, HandleRefused, SocketDisconnected, linkVars
  <2> QED
    BY <2>1, <2>2, <2>3 DEF ClientStep
<1>5. ASSUME NEW ch \in Channel PROVE ~IncomingDatagram(ch)
  BY <1>2 DEF IncomingDatagram, linkVars
<1>6. ASSUME NEW n \in Master PROVE ~LinkStep(n)
  <2>1. ~MasterConnected(n) /\ ~LinkLost(n)
    <3>1. ASSUME NEW v \in {"connected", "unconnected"}, sock' = [sock EXCEPT ![n] = v],
                 NEW q, pipe' = [pipe EXCEPT ![n] = q]
          PROVE  FALSE
      <4>1. sock[m] = sock'[m] /\ m # n
        BY <1>1, <3>1
      <4>2. pipe'[m] = pipe[m] /\ Len(pipe[m]) \in Nat
        BY <1>1, <3>1, <4>1
      <4> QED
        BY <1>1, <4>1, <4>2
    <3>2. ~MasterConnected(n)
      BY <3>1 DEF MasterConnected
    <3>3. ~LinkLost(n)
      BY <3>1 DEF LinkLost
    <3> QED
      BY <3>2, <3>3
  <2>2. ASSUME sock[n] = "connected", sock' = sock, NEW q, pipe' = [pipe EXCEPT ![n] = q]
        PROVE  FALSE
    <3>1. m # n /\ sock[m] = "connecting"
      BY <1>1, <2>2
    <3>2. pipe'[m] = pipe[m] /\ Len(pipe[m]) \in Nat
      BY <1>1, <2>2, <3>1
    <3> QED
      BY <1>1, <3>1, <3>2
  <2>3. ~MasterSubscription(n) /\ ~MasterEcho(n) /\ ~MasterMisparse(n)
    <3>1. ~MasterSubscription(n)
      BY <2>2 DEF MasterSubscription, Reachable
    <3>2. ~MasterEcho(n) /\ ~MasterMisparse(n)
      BY <2>2 DEF MasterEcho, MasterMisparse, Reachable
    <3> QED
      BY <3>1, <3>2
  <2>4. ~ReadFromMaster(n) /\ ~PathChange(n) /\ ~\E ch \in Channel : MasterPublish(n, ch)
    BY <1>2 DEF ReadFromMaster, PathChange, MasterPublish, linkVars
  <2> QED
    BY <2>1, <2>3, <2>4 DEF LinkStep
<1>7. ~UNCHANGED vars
  BY <1>2 DEF vars, linkVars
<1>8. QED
  BY <1>4, <1>5, <1>6, <1>7 DEF Next

LEMMA AgeStep ==
  ASSUME TypeOK, AgeInv, [Next]_vars
  PROVE  AgeInv'
<1>1. StaleAfter \in Nat /\ age \in [Master -> Nat] /\ DOMAIN sock = Master
  BY ConstantsOK DEF TypeOK
<1>2. ASSUME NEW s, NEW a \in [Master -> Nat], CheckMasters(s, a) PROVE AgeInv'
  <2>1. \A m \in Master : age'[m] = IF Keeps(s, a, m) THEN a[m] ELSE 0
    BY <1>2 DEF CheckMasters
  <2>2. \A m \in Master : Keeps(s, a, m) => a[m] <= StaleAfter
    BY DEF Keeps
  <2> QED
    BY <1>1, <2>1, <2>2 DEF AgeInv
<1>3. ASSUME sock' = sock, age' = age PROVE AgeInv'
  BY <1>3 DEF AgeInv
<1>4. CASE \E c \in Client : ClientStep(c)
  <2>1. sock' = sock /\ age' = age
    BY <1>4, ZenonT(60) DEF ClientStep, IncomingTcp, HandleSubscribe, HandleUnsubscribe, HandleRefused,
       SocketDisconnected, DeleteClient, ChannelAddRef, ChannelDelRef, WriteToMasters, linkVars
  <2> QED
    BY <1>3, <2>1
<1>5. CASE \E ch \in Channel : IncomingDatagram(ch)
  BY <1>3, <1>5 DEF IncomingDatagram, linkVars
<1>6. ASSUME NEW m \in Master, LinkStep(m) PROVE AgeInv'
  <2>1. CASE ReadFromMaster(m)
    <3>1. sock' = sock /\ age' = [age EXCEPT ![m] = 0]
      BY <2>1 DEF ReadFromMaster
    <3> QED
      BY <1>1, <3>1 DEF AgeInv
  <2>2. CASE MasterConnected(m)
    <3>1. sock[m] = "connecting" /\ sock' = [sock EXCEPT ![m] = "connected"] /\ age' = age
      BY <2>2 DEF MasterConnected
    <3> QED
      BY <1>1, <3>1 DEF AgeInv
  <2>3. CASE LinkLost(m)
    <3>1. sock' = [sock EXCEPT ![m] = "unconnected"] /\ age' = age
      BY <2>3 DEF LinkLost
    <3> QED
      BY <1>1, <3>1 DEF AgeInv
  <2>4. CASE \/ MasterSubscription(m) \/ MasterEcho(m) \/ MasterMisparse(m) \/ PathChange(m)
             \/ \E ch \in Channel : MasterPublish(m, ch)
    BY <1>3, <2>4 DEF MasterSubscription, MasterEcho, MasterMisparse, PathChange, MasterPublish,
       linkVars
  <2> QED
    BY <1>6, <2>1, <2>2, <2>3, <2>4 DEF LinkStep
<1>7. CASE \E conf \in Confs : Reload(conf)
  BY <1>2, <1>7, OlderType DEF Reload
<1>8. CASE Timer
  BY <1>2, <1>8, OlderType DEF Timer
<1>9. CASE UNCHANGED vars
  BY <1>3, <1>9 DEF vars, linkVars
<1>10. QED
  BY <1>4, <1>5, <1>6, <1>7, <1>8, <1>9 DEF Next

\* checkMasters() gives up a link that is up or being dialled, on the timer or at the end of
\* reload(), only once nothing was read on it for StaleAfter ticks: the links heard since
\* survive any reload that lists them, whatever the masters, the limit and the outages.
THEOREM RedialCorrect == Spec => OnlySilentRedialled
<1>1. TypeOK /\ AgeInv /\ [Next]_vars =>
        [\A m \in Master : Redialled(m) => age[m] = StaleAfter]_vars
  <2> SUFFICES ASSUME TypeOK, AgeInv, [Next]_vars, NEW m \in Master, Redialled(m)
               PROVE  age[m] = StaleAfter
    OBVIOUS
  <2>1. /\ StaleAfter \in Nat /\ age[m] \in Nat /\ age[m] <= StaleAfter
        /\ sock[m] \in {"connecting", "connected"} /\ sock'[m] = "connecting"
        /\ sock[m] = "connected" \/ Len(pipe'[m]) < Len(pipe[m])
    BY ConstantsOK DEF TypeOK, AgeInv, Redialled, Linked
  <2>2. ASSUME NEW late \in SUBSET Master, NEW s, s[m] \in {"absent", sock[m]},
               CheckMasters(s, Older(late))
        PROVE  m \in late /\ age[m] = StaleAfter
    <3>1. s[m] = sock[m]
      BY <2>1, <2>2 DEF CheckMasters, Keeps, Dials
    <3>2. ~Keeps(s, Older(late), m)
      <4> SUFFICES ASSUME Keeps(s, Older(late), m) PROVE FALSE
        OBVIOUS
      <4>1. sock'[m] = s[m]
           /\ pipe'[m] = IF s[m] = "connected" THEN WithPing(pipe[m]) ELSE pipe[m]
        BY <2>2 DEF CheckMasters
      <4>2. sock[m] = "connecting" /\ pipe'[m] = pipe[m]
        BY <2>1, <3>1, <4>1
      <4>3. Len(pipe[m]) \in Nat
        BY DEF TypeOK
      <4> QED
        BY <2>1, <4>2, <4>3
    <3>3. ~(Older(late)[m] <= StaleAfter)
      BY <2>1, <3>1, <3>2 DEF Keeps
    <3>4. Older(late)[m] = IF m \in late THEN age[m] + 1 ELSE age[m]
      BY DEF Older
    <3> QED
      BY <2>1, <3>3, <3>4
  <2>3. CASE Timer
    BY <2>2, <2>3 DEF Timer
  <2>4. ASSUME NEW conf \in Confs, Reload(conf) PROVE age[m] = StaleAfter
    <3>1. PICK late \in SUBSET Master : CheckMasters(Configured(conf), Older(late))
      BY <2>4 DEF Reload
    <3>2. Configured(conf)[m] \in {"absent", sock[m]}
      BY <2>1 DEF Configured
    <3> QED
      BY <2>2, <3>1, <3>2
  <2> QED
    BY <2>3, <2>4, LinksKept
<1>2. Init => AgeInv
  BY DEF Init, AgeInv
<1>3. TypeOK /\ AgeInv /\ [Next]_vars => AgeInv'
  BY AgeStep
<1>4. QED
  BY <1>1, <1>2, <1>3, TypeCorrect, PTL DEF Spec, OnlySilentRedialled

=============================================================================
