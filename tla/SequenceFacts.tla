---------------------------- MODULE SequenceFacts ----------------------------
(***************************************************************************)
(* Facts about sequences of anything, for the proofs about modules whose   *)
(* sequences hold values that need no type.                                *)
(***************************************************************************)
EXTENDS Integers, Sequences, SequencesExt, SequenceTheorems, FiniteSetTheorems,
        TLAPS

IsSeq(s) == s \in Seq(ToSet(s))

LEMMA FunctionIsSeq ==
  ASSUME NEW S, NEW n \in Nat, NEW f \in [1 .. n -> S]
  PROVE  f \in Seq(S) /\ Len(f) = n
<1>1. f \in Seq(S)
  OBVIOUS
<1>2. QED
  BY <1>1

\* A sequence is one of its own elements.
LEMMA OwnElements ==
  ASSUME NEW S, NEW s \in Seq(S)
  PROVE  IsSeq(s)
<1>1. Len(s) \in Nat /\ s \in [1 .. Len(s) -> S] /\ DOMAIN s = 1 .. Len(s)
  BY LenProperties
<1>2. s \in [1 .. Len(s) -> ToSet(s)]
  BY <1>1 DEF ToSet
<1>3. QED
  BY <1>1, <1>2, FunctionIsSeq DEF IsSeq

\* An element at the end of a sequence.
LEMMA AppendIsSeq ==
  ASSUME NEW s, IsSeq(s), NEW e
  PROVE  /\ IsSeq(Append(s, e)) /\ Len(s) \in Nat /\ DOMAIN s = 1 .. Len(s)
         /\ Len(Append(s, e)) = Len(s) + 1
         /\ DOMAIN Append(s, e) = 1 .. Len(s) + 1
         /\ \A i \in 1 .. Len(s) : Append(s, e)[i] = s[i]
         /\ Append(s, e)[Len(s) + 1] = e
<1> DEFINE S == ToSet(s) \cup {e}
           t == Append(s, e)
<1>1. s \in Seq(S)
  BY SeqMonotonic DEF IsSeq
<1>2. /\ Len(s) \in Nat /\ DOMAIN s = 1 .. Len(s)
      /\ t \in Seq(S) /\ Len(t) = Len(s) + 1 /\ DOMAIN t = 1 .. Len(t)
      /\ \A i \in 1 .. Len(s) : t[i] = s[i]
      /\ t[Len(s) + 1] = e
  <2> HIDE DEF S
  <2>1. e \in S
    BY DEF S
  <2> QED
    BY <1>1, <2>1
<1>3. QED
  BY <1>2, OwnElements

\* An element of a sequence is replaced.
LEMMA ExceptIsSeq ==
  ASSUME NEW s, IsSeq(s), NEW i \in 1 .. Len(s), NEW e
  PROVE  /\ IsSeq([s EXCEPT ![i] = e])
         /\ Len([s EXCEPT ![i] = e]) = Len(s)
         /\ DOMAIN [s EXCEPT ![i] = e] = DOMAIN s
<1> DEFINE S == ToSet(s) \cup {e}
           t == [s EXCEPT ![i] = e]
<1>1. s \in Seq(S)
  BY SeqMonotonic DEF IsSeq
<1>2. t \in Seq(S) /\ Len(t) = Len(s)
  BY <1>1, ExceptSeq
<1>3. QED
  BY <1>2, OwnElements

\* Two elements at the end of a sequence.
LEMMA ConcatTwo ==
  ASSUME NEW s, IsSeq(s), NEW a, NEW b
  PROVE  /\ IsSeq(s \o << a, b >>)
         /\ ToSet(s \o << a, b >>) = ToSet(s) \cup {a, b}
         /\ IsSuffix(<< a, b >>, s \o << a, b >>)
<1> DEFINE S == ToSet(s) \cup {a, b}
           p == << a, b >>
           t == s \o p
           n == Len(s)
<1>1. s \in Seq(S) /\ p \in Seq(S) /\ Len(p) = 2 /\ p[1] = a /\ p[2] = b
  BY SeqMonotonic DEF IsSeq
<1>2. /\ t \in Seq(S) /\ Len(t) = n + 2 /\ n \in Nat
      /\ \A i \in 1 .. n + 2 : t[i] = IF i <= n THEN s[i] ELSE p[i - n]
  <2> HIDE DEF S, p
  <2> QED
    BY <1>1, ConcatProperties, LenProperties, SMTT(60)
<1>3. DOMAIN s = 1 .. n /\ DOMAIN t = 1 .. n + 2 /\ t \in [1 .. n + 2 -> S]
  BY <1>1, <1>2, LenProperties
<1>4. t[n + 1] = a /\ t[n + 2] = b /\ \A i \in 1 .. n : t[i] = s[i]
  <2>1. n + 1 \in 1 .. n + 2 /\ n + 2 \in 1 .. n + 2 /\ n + 1 - n = 1 /\ n + 2 - n = 2
    BY <1>2
  <2> HIDE DEF t, p, n
  <2>2. \A i \in 1 .. n : i \in 1 .. n + 2 /\ i <= n
    BY <1>2
  <2> QED
    BY <1>1, <1>2, <2>1, <2>2
<1>5. ToSet(t) = ToSet(s) \cup {a, b}
  <2> HIDE DEF t, n, p
  <2>1. \A i \in 1 .. n + 2 : i \in 1 .. n \/ i = n + 1 \/ i = n + 2
    BY <1>2
  <2>2. 1 .. n \subseteq 1 .. n + 2 /\ {n + 1, n + 2} \subseteq 1 .. n + 2
    BY <1>2
  <2> QED
    BY <1>3, <1>4, <2>1, <2>2 DEF ToSet
<1>6. IsSeq(t)
  BY <1>2, <1>5 DEF IsSeq
<1>7. IsSuffix(p, t)
  <2> DEFINE q == Reverse(p)
             r == Reverse(t)
  <2>1. /\ q \in Seq(S) /\ Len(q) = 2 /\ q[1] = b /\ q[2] = a
    <3>1. q = [i \in 1 .. 2 |-> p[(2 - i) + 1]]
      BY <1>1 DEF Reverse
    <3>2. \A i \in 1 .. 2 : (2 - i) + 1 \in 1 .. 2
      OBVIOUS
    <3>3. \A i \in 1 .. 2 : p[i] \in S
      BY <1>1, ElementOfSeq
    <3>4. q \in [1 .. 2 -> S]
      BY <3>1, <3>2, <3>3
    <3>5. q \in Seq(S) /\ Len(q) = 2
      BY <3>4, FunctionIsSeq
    <3> QED
      BY <3>1, <3>5, <1>1
  <2>2. /\ r \in Seq(S) /\ Len(r) = n + 2 /\ r[1] = b /\ r[2] = a
    <3>1. r = [i \in 1 .. n + 2 |-> t[(n + 2 - i) + 1]]
      BY <1>2 DEF Reverse
    <3> HIDE DEF r, t, n
    <3>2. \A i \in 1 .. n + 2 : (n + 2 - i) + 1 \in 1 .. n + 2
      BY <1>2
    <3>3. r \in [1 .. n + 2 -> S]
      BY <3>1, <3>2, <1>3
    <3>4. r \in Seq(S) /\ Len(r) = n + 2
      BY <3>3, <1>2, FunctionIsSeq
    <3>5. /\ 1 \in 1 .. n + 2 /\ 2 \in 1 .. n + 2
          /\ (n + 2 - 1) + 1 = n + 2 /\ (n + 2 - 2) + 1 = n + 1
      BY <1>2
    <3> QED
      BY <3>1, <3>4, <3>5, <1>4
  <2> HIDE DEF q, r
  <2>3. SubSeq(q, 1, 2) = SubSeq(r, 1, 2)
    <3>1. /\ SubSeq(q, 1, 2) \in Seq(S) /\ Len(SubSeq(q, 1, 2)) = 2
          /\ \A i \in 1 .. 2 : SubSeq(q, 1, 2)[i] = q[i]
      <4>1. \A i \in 1 .. 2 : q[i] \in S
        BY <2>1, ElementOfSeq
      <4> QED
        BY <4>1, SubSeqProperties
    <3>2. /\ SubSeq(r, 1, 2) \in Seq(S) /\ Len(SubSeq(r, 1, 2)) = 2
          /\ \A i \in 1 .. 2 : SubSeq(r, 1, 2)[i] = r[i]
      <4>1. \A i \in 1 .. 2 : r[i] \in S
        BY <2>2, <1>2, ElementOfSeq
      <4> QED
        BY <4>1, SubSeqProperties
    <3> QED
      BY <3>1, <3>2, <2>1, <2>2, SeqEqual
  <2>4. Len(q) <= Len(r)
    BY <2>1, <2>2, <1>2
  <2> QED
    BY <2>1, <2>3, <2>4 DEF IsSuffix, IsPrefix, q, r
<1>8. QED
  BY <1>5, <1>6, <1>7

\* The last element of a sequence is taken off.
LEMMA FrontIsSeq ==
  ASSUME NEW s, IsSeq(s), s # << >>
  PROVE  /\ IsSeq(Front(s)) /\ Len(s) \in Nat \ {0} /\ DOMAIN s = 1 .. Len(s)
         /\ DOMAIN Front(s) = 1 .. Len(s) - 1
         /\ \A i \in 1 .. Len(s) - 1 : Front(s)[i] = s[i]
         /\ Last(s) = s[Len(s)]
<1> DEFINE S == ToSet(s)
           n == Len(s) - 1
<1>1. s \in Seq(S) /\ Len(s) \in Nat \ {0} /\ DOMAIN s = 1 .. Len(s)
  BY EmptySeq, LenProperties DEF IsSeq
<1>2. n \in Nat /\ \A i \in 1 .. n : i \in 1 .. Len(s)
  BY <1>1
<1>3. \A i \in 1 .. n : s[i] \in S
  BY <1>1, <1>2 DEF ToSet
<1> HIDE DEF S, n
<1>4. /\ SubSeq(s, 1, n) \in Seq(S) /\ Len(SubSeq(s, 1, n)) = n
      /\ \A i \in 1 .. n : SubSeq(s, 1, n)[i] = s[i]
  <2>1. /\ SubSeq(s, 1, n) \in Seq(S)
        /\ Len(SubSeq(s, 1, n)) = IF 1 <= n THEN n - 1 + 1 ELSE 0
        /\ \A i \in 1 .. n - 1 + 1 : SubSeq(s, 1, n)[i] = s[1 + i - 1]
    BY <1>2, <1>3, SubSeqProperties
  <2>2. n - 1 + 1 = n /\ (~(1 <= n) => n = 0) /\ \A i \in 1 .. n : 1 + i - 1 = i
    BY <1>2
  <2> QED
    BY <2>1, <2>2
<1>5. DOMAIN SubSeq(s, 1, n) = 1 .. n
  BY <1>4, LenProperties
<1>6. IsSeq(SubSeq(s, 1, n))
  BY <1>4, OwnElements
<1>7. Front(s) = SubSeq(s, 1, n)
  BY DEF Front, n
<1>8. QED
  BY <1>1, <1>4, <1>5, <1>6, <1>7 DEF Last, n

\* The elements of a sequence, and the sequences with elements of a set.
LEMMA SeqElements ==
  ASSUME NEW S, NEW s
  PROVE  s \in Seq(S) <=> IsSeq(s) /\ ToSet(s) \subseteq S
<1>1. ASSUME s \in Seq(S) PROVE IsSeq(s) /\ ToSet(s) \subseteq S
  <2>1. \A i \in DOMAIN s : s[i] \in S
    BY <1>1, LenProperties, ElementOfSeq
  <2> QED
    BY <1>1, <2>1, OwnElements DEF ToSet
<1>2. ASSUME IsSeq(s), ToSet(s) \subseteq S PROVE s \in Seq(S)
  BY <1>2, SeqMonotonic DEF IsSeq
<1>3. QED
  BY <1>1, <1>2

LEMMA ElementsOfConcat ==
  ASSUME NEW s, IsSeq(s), NEW t, IsSeq(t)
  PROVE  IsSeq(s \o t) /\ ToSet(s \o t) = ToSet(s) \cup ToSet(t)
<1> DEFINE S == ToSet(s) \cup ToSet(t)
           m == Len(s)
           n == Len(t)
           u == s \o t
<1>1. s \in Seq(S) /\ t \in Seq(S)
  BY SeqElements
<1>2. /\ u \in Seq(S) /\ m \in Nat /\ n \in Nat /\ Len(u) = m + n
      /\ \A i \in 1 .. m + n : u[i] = IF i <= m THEN s[i] ELSE t[i - m]
      /\ DOMAIN s = 1 .. m /\ DOMAIN t = 1 .. n
  <2> HIDE DEF S
  <2> QED
    BY <1>1, ConcatProperties, LenProperties
<1>3. IsSeq(u) /\ ToSet(u) \subseteq S
  <2> HIDE DEF u, S
  <2> QED
    BY <1>2, SeqElements
<1>4. DOMAIN u = 1 .. m + n
  <2> HIDE DEF u, S
  <2> QED
    BY <1>2, LenProperties
<1> HIDE DEF u, m, n
<1>5. ASSUME NEW i \in 1 .. m PROVE s[i] \in ToSet(u)
  <2>1. i \in 1 .. m + n /\ i <= m
    BY <1>2
  <2> QED
    BY <1>2, <1>4, <2>1 DEF ToSet
<1>6. ASSUME NEW i \in 1 .. n PROVE t[i] \in ToSet(u)
  <2>1. m + i \in 1 .. m + n /\ ~(m + i <= m) /\ (m + i) - m = i
    BY <1>2
  <2>2. u[m + i] = t[i]
    BY <1>2, <2>1
  <2> QED
    BY <1>4, <2>1, <2>2 DEF ToSet
<1>7. ToSet(s) \subseteq ToSet(u) /\ ToSet(t) \subseteq ToSet(u)
  BY <1>2, <1>5, <1>6 DEF ToSet
<1>8. QED
  BY <1>3, <1>7 DEF u

LEMMA ElementsOfAppend ==
  ASSUME NEW s, IsSeq(s), NEW e
  PROVE  IsSeq(Append(s, e)) /\ ToSet(Append(s, e)) = ToSet(s) \cup {e}
<1> DEFINE n == Len(s)
           u == Append(s, e)
<1>1. /\ IsSeq(u) /\ n \in Nat /\ DOMAIN s = 1 .. n /\ DOMAIN u = 1 .. n + 1
      /\ \A i \in 1 .. n : u[i] = s[i]
      /\ u[n + 1] = e
  BY AppendIsSeq
<1> HIDE DEF n, u
<1>2. 1 .. n + 1 = 1 .. n \cup {n + 1}
  BY <1>1
<1>3. ToSet(u) = ToSet(s) \cup {e}
  BY <1>1, <1>2 DEF ToSet
<1>4. QED
  BY <1>1, <1>3 DEF u

LEMMA ElementsOfFront ==
  ASSUME NEW s, IsSeq(s), s # << >>
  PROVE  /\ IsSeq(Front(s)) /\ Last(s) \in ToSet(s)
         /\ ToSet(s) = ToSet(Front(s)) \cup {Last(s)}
<1> DEFINE n == Len(s)
           u == Front(s)
<1>1. /\ IsSeq(u) /\ n \in Nat \ {0} /\ DOMAIN s = 1 .. n /\ DOMAIN u = 1 .. n - 1
      /\ \A i \in 1 .. n - 1 : u[i] = s[i]
      /\ Last(s) = s[n]
  BY FrontIsSeq
<1> HIDE DEF n, u
<1>2. 1 .. n = 1 .. n - 1 \cup {n}
  BY <1>1
<1>3. ToSet(s) = ToSet(u) \cup {Last(s)}
  BY <1>1, <1>2 DEF ToSet
<1>4. QED
  BY <1>1, <1>3 DEF u

LEMMA ElementsOfTail ==
  ASSUME NEW s, IsSeq(s), s # << >>
  PROVE  /\ IsSeq(Tail(s)) /\ Head(s) \in ToSet(s)
         /\ ToSet(s) = ToSet(Tail(s)) \cup {Head(s)}
<1> DEFINE S == ToSet(s)
           n == Len(s)
           u == Tail(s)
<1>1. s \in Seq(S) /\ n \in Nat \ {0} /\ DOMAIN s = 1 .. n
  BY EmptySeq, LenProperties DEF IsSeq
<1>2. /\ u \in Seq(S) /\ Len(u) = n - 1
      /\ \A i \in 1 .. n - 1 : u[i] = s[i + 1]
      /\ Head(s) = s[1]
  BY <1>1, HeadTailProperties
<1> HIDE DEF n, u, S
<1>3. DOMAIN u = 1 .. n - 1 /\ IsSeq(u)
  BY <1>2, LenProperties, OwnElements
<1>4. 1 \in 1 .. n /\ \A i \in 1 .. n : i = 1 \/ (i - 1 \in 1 .. n - 1 /\ (i - 1) + 1 = i)
  BY <1>1
<1>5. \A i \in 1 .. n - 1 : i + 1 \in 1 .. n
  BY <1>1
<1>6. ASSUME NEW i \in 1 .. n PROVE s[i] \in ToSet(u) \cup {Head(s)}
  <2>1. CASE i = 1
    BY <1>2, <2>1
  <2>2. CASE i # 1
    <3>1. i - 1 \in 1 .. n - 1 /\ (i - 1) + 1 = i
      BY <1>4, <2>2
    <3>2. u[i - 1] = s[i]
      BY <1>2, <3>1
    <3> QED
      BY <1>3, <3>1, <3>2 DEF ToSet
  <2> QED
    BY <2>1, <2>2
<1>7. ToSet(s) \subseteq ToSet(u) \cup {Head(s)}
  BY <1>1, <1>6 DEF ToSet
<1>8. ToSet(u) \cup {Head(s)} \subseteq ToSet(s)
  BY <1>1, <1>2, <1>3, <1>4, <1>5, SMTT(60) DEF ToSet
<1>9. QED
  BY <1>3, <1>7, <1>8 DEF u

\* An element of a sequence is replaced.
LEMMA ElementsOfExcept ==
  ASSUME NEW s, IsSeq(s), NEW i \in DOMAIN s, NEW e
  PROVE  /\ IsSeq([s EXCEPT ![i] = e])
         /\ ToSet([s EXCEPT ![i] = e]) \subseteq ToSet(s) \cup {e}
         /\ ToSet(s) \subseteq ToSet([s EXCEPT ![i] = e]) \cup {s[i]}
         /\ e \in ToSet([s EXCEPT ![i] = e])
<1> DEFINE u == [s EXCEPT ![i] = e]
<1>1. DOMAIN s = 1 .. Len(s)
  BY LenProperties DEF IsSeq
<1>2. /\ IsSeq(u) /\ DOMAIN u = DOMAIN s
      /\ \A j \in DOMAIN s : u[j] = IF j = i THEN e ELSE s[j]
  BY <1>1, ExceptIsSeq
<1> HIDE DEF u
<1>3. QED
  BY <1>2 DEF ToSet, u

LEMMA ElementsOfEmpty == IsSeq(<< >>) /\ ToSet(<< >>) = {}
<1> DEFINE none == << >>
<1>1. none \in Seq({})
  BY EmptySeq
<1> HIDE DEF none
<1>2. IsSeq(none) /\ ToSet(none) \subseteq {}
  BY <1>1, SeqElements
<1>3. QED
  BY <1>2 DEF none

LEMMA ElementsOfOne ==
  ASSUME NEW e
  PROVE  IsSeq(<< e >>) /\ ToSet(<< e >>) = {e} /\ << e >> # << >>
<1>1. << e >> \in Seq({e}) /\ Len(<< e >>) = 1 /\ << e >>[1] = e
  OBVIOUS
<1>2. IsSeq(<< e >>) /\ ToSet(<< e >>) \subseteq {e} /\ DOMAIN << e >> = 1 .. 1
  BY <1>1, SeqElements, LenProperties
<1>3. 1 \in DOMAIN << e >>
  BY <1>2
<1>4. e \in ToSet(<< e >>)
  BY <1>1, <1>3 DEF ToSet
<1>5. QED
  BY <1>1, <1>2, <1>4, EmptySeq

\* A set of natural numbers has a least one: for no infinite chain of finite sets shrinks.
LEMMA LeastNatural ==
  ASSUME NEW T \in SUBSET Nat, T # {}
  PROVE  \E k \in T : \A x \in T : k <= x
<1> DEFINE Below(k) == {x \in T : x <= k}
           Sets == {Below(k) : k \in T}
<1>1. \A k \in T : IsFiniteSet(Below(k))
  <2> TAKE k \in T
  <2>1. Below(k) \in SUBSET Nat /\ k \in Nat /\ \A x \in Below(k) : x <= k
    OBVIOUS
  <2> QED
    BY <2>1, FS_BoundedSetOfNaturals
<1>2. Sets \subseteq FiniteSubsetsOf(Nat) /\ Sets # {}
  BY <1>1 DEF FiniteSubsetsOf
<1>3. PICK X \in Sets : \A Y \in Sets : << Y, X >> \notin StrictSubsetOrdering(Nat)
  <2> HIDE DEF Sets
  <2>1. IsWellFoundedOn(StrictSubsetOrdering(Nat), FiniteSubsetsOf(Nat))
    BY FS_StrictSubsetOrderingWellFounded
  <2> QED
    BY <1>2, <2>1, WFMin
<1>4. PICK k \in T : X = Below(k)
  BY <1>3
<1>5. ASSUME NEW x \in T, ~(k <= x)
      PROVE  FALSE
  <2>1. x \in Nat /\ k \in Nat /\ x < k
    BY <1>5
  <2>2. Below(x) \subseteq Below(k)
    <3>1. \A y \in T : y \in Nat
      OBVIOUS
    <3>2. \A y \in T : y <= x => y <= k
      BY <2>1, <3>1
    <3> QED
      BY <3>2
  <2>3. k \in Below(k) /\ k \notin Below(x)
    BY <2>1
  <2>4. << Below(x), Below(k) >> \in StrictSubsetOrdering(Nat)
    BY <2>2, <2>3 DEF StrictSubsetOrdering
  <2> QED
    BY <2>4, <1>3, <1>4, <1>5
<1>6. QED
  BY <1>5

=============================================================================
