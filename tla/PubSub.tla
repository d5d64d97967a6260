------------------------------- MODULE PubSub -------------------------------
(***************************************************************************)
(* What a relay promises its consumers, whatever it does with reference     *)
(* counts, upstream subscriptions, reconnections and deletions: each packet *)
(* of a source is handed once, in the source's order, to exactly the        *)
(* consumers subscribed to its channel at that moment; packets are lost     *)
(* only together, all those in flight from a source when its link breaks.   *)
(***************************************************************************)
EXTENDS Naturals, Sequences

CONSTANTS Client, Channel, Source

VARIABLES
  subs,   \* subs[c]: channels consumer c is subscribed to
  sent,   \* sent[s]: channel of each packet of s, in order
  done,   \* done[s]: packets of s that are delivered or lost
  got     \* got[c]: packets handed to c: <<source, number>>

vars == <<subs, sent, done, got>>

Init ==
  /\ subs = [c \in Client |-> {}]
  /\ sent = [s \in Source |-> <<>>]
  /\ done = [s \in Source |-> 0]
  /\ got = [c \in Client |-> <<>>]

Subscribe(c, ch) ==
  /\ subs' = [subs EXCEPT ![c] = @ \cup {ch}]
  /\ UNCHANGED <<sent, done, got>>

Unsubscribe(c, ch) ==
  /\ subs' = [subs EXCEPT ![c] = @ \ {ch}]
  /\ UNCHANGED <<sent, done, got>>

Leave(c) ==
  /\ subs' = [subs EXCEPT ![c] = {}]
  /\ UNCHANGED <<sent, done, got>>

\* The identity of a consumer that left is free for another one.
Forget(c) ==
  /\ subs[c] = {}
  /\ got' = [got EXCEPT ![c] = <<>>]
  /\ UNCHANGED <<subs, sent, done>>

HandOver(s, n, ch) ==
  got' = [c \in Client |-> IF ch \in subs[c] THEN Append(got[c], <<s, n>>) ELSE got[c]]

Publish(s, ch) ==
  /\ sent' = [sent EXCEPT ![s] = Append(@, ch)]
  /\ UNCHANGED <<subs, done, got>>

Deliver(s) ==
  /\ done[s] < Len(sent[s])
  /\ done' = [done EXCEPT ![s] = @ + 1]
  /\ HandOver(s, done[s] + 1, sent[s][done[s] + 1])
  /\ UNCHANGED <<subs, sent>>

\* A packet that is delivered as it is sent.
Inject(s, ch) ==
  /\ done[s] = Len(sent[s])
  /\ sent' = [sent EXCEPT ![s] = Append(@, ch)]
  /\ done' = [done EXCEPT ![s] = @ + 1]
  /\ HandOver(s, done[s] + 1, ch)
  /\ UNCHANGED subs

LoseInFlight(S) ==
  /\ done' = [s \in Source |-> IF s \in S THEN Len(sent[s]) ELSE done[s]]
  /\ UNCHANGED <<subs, sent, got>>

Next ==
  \/ \E c \in Client : Leave(c) \/ Forget(c)
  \/ \E c \in Client, ch \in Channel : Subscribe(c, ch) \/ Unsubscribe(c, ch)
  \/ \E s \in Source : Deliver(s)
  \/ \E s \in Source, ch \in Channel : Publish(s, ch) \/ Inject(s, ch)
  \/ \E S \in SUBSET Source : LoseInFlight(S)

Spec == Init /\ [][Next]_vars
=============================================================================
