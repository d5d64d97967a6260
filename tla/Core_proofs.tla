----------------------------- MODULE Core_proofs -----------------------------
(***************************************************************************)
(* Proofs about Core for every set of modules, daemons, ports and contents  *)
(* of the settings file.                                                    *)
(***************************************************************************)
EXTENDS Core, TLAPS, SequenceTheorems

-----------------------------------------------------------------------------
(* Sequences.                                                               *)

LEMMA FrontProperties ==
  ASSUME NEW S, NEW s \in Seq(S)
  PROVE  /\ SubSeq(s, 1, Len(s) - 1) \in Seq(S)
         /\ s # <<>> => /\ Len(SubSeq(s, 1, Len(s) - 1)) = Len(s) - 1
                        /\ \A i \in 1..(Len(s) - 1) : SubSeq(s, 1, Len(s) - 1)[i] = s[i]
         /\ Len(s) = 1 => SubSeq(s, 1, Len(s) - 1) = <<>>
<1>1. Len(s) \in Nat /\ \A i \in 1..(Len(s) - 1) : s[i] \in S
  OBVIOUS
<1>2. CASE s = <<>>
  BY <1>2, SubSeqEmpty
<1>3. CASE s # <<>>
  <2> DEFINE n == Len(s) - 1
  <2>1. n \in Nat /\ 1 \in Int /\ n \in Int
    BY <1>1, <1>3
  <2>2. \A i \in 1..n : s[i] \in S
    BY <1>1
  <2>3. /\ SubSeq(s, 1, n) \in Seq(S)
        /\ Len(SubSeq(s, 1, n)) = IF 1 <= n THEN n - 1 + 1 ELSE 0
        /\ \A i \in 1..(n - 1 + 1) : SubSeq(s, 1, n)[i] = s[1 + i - 1]
    <3> HIDE DEF n
    <3> QED
      BY <2>1, <2>2, SubSeqProperties
  <2>5. /\ Len(SubSeq(s, 1, n)) = n
        /\ \A i \in 1..n : SubSeq(s, 1, n)[i] = s[i]
    <3> HIDE DEF n
    <3>1. n - 1 + 1 = n /\ (~(1 <= n) => n = 0) /\ \A i \in 1..n : 1 + i - 1 = i
      BY <2>1
    <3> QED
      BY <2>3, <3>1
  <2>4. Len(s) = 1 => SubSeq(s, 1, n) = <<>>
    BY <2>1, SubSeqEmpty
  <2> QED
    BY <1>3, <2>3, <2>4, <2>5
<1> QED
  BY <1>2, <1>3

-----------------------------------------------------------------------------
(* Types.                                                                   *)

LEMMA TypeInit == Init => TypeOK
<1> SUFFICES ASSUME Init PROVE TypeOK
  OBVIOUS
<1>1. links \in [Port -> [Daemon -> Nat]]
  BY DEF Init, None
<1>2. conf \in [Daemon -> (Key \cup {Null}) \X Nat]
  BY DEF Init, Unread
<1>3. lock \in Daemon \cup {"main", Null} /\ (lock = "main" <=> InSection)
  BY ConstantsOK DEF Init, InSection
<1>4. /\ stack \in Seq(Module) /\ group \in Seq(Key \cup {"preload", "daemons", "ports"})
      /\ queue \in [Daemon -> Seq(Event)]
  BY DEF Init
<1>5. /\ todo \subseteq IF InSection THEN KeysOf(pc) ELSE {}
      /\ asked \in Key \cup {Null} /\ (asked # Null => pc = "daemons" /\ asked \in KeysOf(pc))
      /\ ~InSection => stack = <<>>
  BY DEF Init, InSection
<1>6. /\ daemons \in [Key -> Daemon \cup {Null}]
      /\ keyOf \in [Daemon -> Key \cup {Null}]
      /\ inst \in [Daemon -> {"free", "running", "dying", "deleting"}]
      /\ receiver \in [Port -> Daemon \cup {Null, Unbound}]
      /\ reading \in [Daemon -> {"no", "waits", "holds"}]
      /\ inCharge \in [Conn -> Daemon \cup {Null, Unbound}]
      /\ served \in [Conn -> SUBSET Daemon]
  BY DEF Init
<1>7. /\ settings \in Settings /\ stale \in BOOLEAN
      /\ pc \in {"idle", "preload", "daemons", "ports", "emit"}
      /\ modules \subseteq Module /\ notices \subseteq Port \X Daemon /\ aborted \in BOOLEAN
  BY DEF Init
<1> QED
  BY <1>1, <1>2, <1>3, <1>4, <1>5, <1>6, <1>7 DEF TypeOK

LEMMA EnterType ==
  ASSUME TypeOK, NEW section \in {"preload", "daemons", "ports"},
         NEW g \in Seq(Key \cup {"preload", "daemons", "ports"}), Enter(section, g)
  PROVE  /\ pc' = section
         /\ todo' \subseteq KeysOf(section)
         /\ group' \in Seq(Key \cup {"preload", "daemons", "ports"})
BY AppendProperties DEF Enter

LEMMA TargetType ==
  ASSUME TypeOK, NEW p \in Port, NEW t \in Daemon \cup {Null}, SetTarget(p, t)
  PROVE  /\ receiver' \in [Port -> Daemon \cup {Null, Unbound}]
         /\ links' \in [Port -> [Daemon -> Nat]]
<1>1. receiver' \in [Port -> Daemon \cup {Null, Unbound}]
  BY DEF TypeOK, SetTarget
<1>2. links' \in [Port -> [Daemon -> Nat]]
  <2> DEFINE rest == [d \in Daemon |-> IF d = receiver[p] THEN 0 ELSE links[p][d]]
  <2>1. rest \in [Daemon -> Nat]
    BY DEF TypeOK
  <2>2. t \in Daemon => [rest EXCEPT ![t] = @ + 1] \in [Daemon -> Nat]
    BY <2>1
  <2> QED
    BY <2>1, <2>2 DEF TypeOK, SetTarget
<1> QED
  BY <1>1, <1>2

\* The lock, the prefix and the readers go together: the prefix is the section
\* or the daemon of the owner of the lock, and every reader owns it.
ConfigInv ==
  /\ \A d \in Daemon : lock = d <=> reading[d] = "holds"
  /\ group = IF lock = "main" THEN <<pc>> ELSE IF lock = Null THEN <<>> ELSE <<keyOf[lock]>>
  /\ \A d \in Daemon : reading[d] # "no" => inst[d] \in {"running", "dying"}
  /\ \A d \in Daemon : inst[d] = "free" => conf[d] = Unread
  /\ OwnConfig

\* The daemons in the table run and know their key; only a daemon whose
\* deleteLater() was called has a deferred delete to come.
DaemonInv ==
  /\ \A k \in Key : daemons[k] # Null => keyOf[daemons[k]] = k /\ inst[daemons[k]] = "running"
  /\ \A d \in Daemon : inst[d] # "free" => keyOf[d] \in Key
  /\ \A d \in Daemon : \A i \in DOMAIN queue[d] : queue[d][i] = "delete" => inst[d] = "dying"

LEMMA TypeStep == TypeOK /\ ConfigInv /\ DaemonInv /\ [Next]_vars => TypeOK'
<1> SUFFICES ASSUME TypeOK, ConfigInv, DaemonInv, [Next]_vars PROVE TypeOK'
  OBVIOUS
<1> USE DEF KeysOf, InSection, settingVars, loadVars, daemonVars, routeVars, configVars, workVars
<1> DEFINE Groups == Seq(Key \cup {"preload", "daemons", "ports"})
<1>0. EndGroup \in Groups
  BY FrontProperties DEF TypeOK, EndGroup
<1>1. CASE UNCHANGED vars
  BY <1>1 DEF TypeOK, vars
<1>2. CASE SettingsSync
  BY <1>2 DEF TypeOK, SettingsSync
<1>3. CASE BeginReload
  <2>1. pc' = "preload" /\ todo' \subseteq KeysOf(pc') /\ group' \in Groups
    BY <1>3, EnterType DEF TypeOK, BeginReload
  <2> QED
    BY <1>3, <2>1 DEF TypeOK, BeginReload
<1>4. ASSUME NEW x \in Module, AskModule(x) PROVE TypeOK'
  BY <1>4 DEF TypeOK, AskModule, Probe, Free
<1>5. CASE Load
  <2>1. stack' \in Seq(Module) /\ modules' \subseteq Module
    <3>1. Pop \in Seq(Module)
      BY FrontProperties DEF TypeOK, Pop
    <3>2. Missing(Top) \subseteq Module /\ Top \in Module
      BY <1>5, ConstantsOK DEF TypeOK, Load, Missing, Top
    <3>3. \A y \in Missing(Top) : Append(stack, y) \in Seq(Module)
      BY <3>2, AppendProperties DEF TypeOK
    <3>4. CASE \E y \in Missing(Top) : stack' = Append(stack, y) /\ UNCHANGED modules
      BY <3>3, <3>4 DEF TypeOK
    <3>5. CASE modules' = modules \cup {Top} /\ stack' = Pop
      BY <3>1, <3>2, <3>5 DEF TypeOK
    <3>6. CASE Fails
      BY <3>6 DEF TypeOK, Fails
    <3> QED
      BY <1>5, <3>4, <3>5, <3>6 DEF Load
  <2> QED
    BY <1>5, <2>1 DEF TypeOK, Load
<1>6. CASE EndPreload
  <2>1. pc' = "daemons" /\ todo' \subseteq KeysOf(pc') /\ group' \in Groups
    BY <1>0, <1>6, EnterType DEF EndPreload
  <2> QED
    BY <1>6, <2>1 DEF TypeOK, EndPreload, Free
<1>7. ASSUME NEW k \in Key, AskDaemon(k) PROVE TypeOK'
  <2>1. settings.daemons[k] \in Module
    BY <1>7, ConstantsOK DEF TypeOK, AskDaemon, Free
  <2>2. CASE daemons[k] # Null
    BY <1>7, <2>2 DEF TypeOK, AskDaemon, Free
  <2>3. CASE daemons[k] = Null
    <3>1. asked' = k /\ stack' = IF settings.daemons[k] \in modules THEN <<>>
                                  ELSE <<settings.daemons[k]>>
      BY <1>7, <2>3 DEF AskDaemon, Probe
    <3>2. stack' \in Seq(Module)
      BY <2>1, <3>1
    <3>3. k \in KeysOf(pc) /\ pc = "daemons"
      BY <1>7 DEF TypeOK, AskDaemon, Free
    <3> QED
      BY <1>7, <3>1, <3>2, <3>3 DEF TypeOK, AskDaemon, Free
  <2> QED
    BY <2>2, <2>3
<1>8. CASE Instanciate
  <2>1. CASE UNCHANGED daemonVars
    BY <1>8, <2>1 DEF TypeOK, Instanciate
  <2>2. CASE ~UNCHANGED daemonVars
    <3> DEFINE d == CHOOSE free \in FreeDaemons : TRUE
    <3>1. d \in Daemon
      BY <1>8, <2>2 DEF Instanciate, FreeDaemons
    <3>2. /\ daemons' = [daemons EXCEPT ![asked] = d]
          /\ keyOf' = [keyOf EXCEPT ![d] = asked]
          /\ inst' = [inst EXCEPT ![d] = "running"]
          /\ UNCHANGED aborted
      BY <1>8, <2>2 DEF Instanciate
    <3> HIDE DEF d
    <3> QED
      BY <1>8, <3>1, <3>2 DEF TypeOK, Instanciate
  <2> QED
    BY <2>1, <2>2
<1>9. CASE EndDaemons
  <2>1. pc' = "ports" /\ todo' \subseteq KeysOf(pc') /\ group' \in Groups
    BY <1>0, <1>9, EnterType DEF EndDaemons
  <2>2. queue' \in [Daemon -> Seq(Event)]
    BY <1>9, AppendProperties DEF TypeOK, EndDaemons, Event
  <2> QED
    BY <1>9, <2>1, <2>2 DEF TypeOK, EndDaemons, Free
<1>10. ASSUME NEW p \in Port, Route(p) PROVE TypeOK'
  <2>1. GetDaemon(settings.ports[p]) \in Daemon \cup {Null}
    BY <1>10, ConstantsOK DEF TypeOK, Route, GetDaemon, Free
  <2>2. /\ receiver' \in [Port -> Daemon \cup {Null, Unbound}]
        /\ links' \in [Port -> [Daemon -> Nat]]
    BY <1>10, <2>1, TargetType DEF Route, TypeOK
  <2> QED
    BY <1>10, <2>2 DEF TypeOK, Route, Free
<1>11. CASE EndPorts
  BY <1>0, <1>11, ConstantsOK DEF TypeOK, EndPorts, None, Free
<1>12. CASE Emit
  <2>1. queue' \in [Daemon -> Seq(Event)]
    BY <1>12, AppendProperties DEF TypeOK, Emit, Event
  <2> QED
    BY <1>12, <2>1, ConstantsOK DEF TypeOK, Emit
<1>13. ASSUME NEW d \in Daemon, DaemonStep(d) PROVE TypeOK'
  <2>0. queue[d] # <<>> => Tail(queue[d]) \in Seq(Event)
    BY HeadTailProperties DEF TypeOK
  <2>1. CASE DaemonReload(d)
    BY <2>0, <2>1, SMTT(60) DEF TypeOK, DaemonReload, Next1, TakeEvent
  <2>2. CASE BeginGroup(d)
    <3>1. keyOf[d] \in Key
      BY <2>2 DEF ConfigInv, DaemonInv, BeginGroup
    <3>2. group' \in Groups
      BY <2>2, <3>1, AppendProperties DEF TypeOK, BeginGroup
    <3> QED
      BY <2>2, <3>2, ConstantsOK DEF TypeOK, BeginGroup
  <2>3. CASE GetConfig(d)
    <3>1. lock = d /\ lock # "main"
      BY <2>3, ConstantsOK DEF ConfigInv, GetConfig
    <3>2. ValuesUnder(group) \in (Key \cup {Null}) \X Nat
      BY ConstantsOK, SMTT(60) DEF TypeOK, ValuesUnder, Empty
    <3> QED
      BY <1>0, <2>3, <3>1, <3>2, ConstantsOK DEF TypeOK, GetConfig
  <2>4. ASSUME NEW c \in Conn, Serve(d, c) PROVE TypeOK'
    BY <2>0, <2>4, SMTT(60) DEF TypeOK, Serve, Next1, TakeEvent
  <2>5. CASE DeleteDaemon(d)
    BY <2>5, SMTT(60) DEF TypeOK, DeleteDaemon
  <2>6. CASE QThreadDestroyed(d)
    BY <2>6 DEF TypeOK, QThreadDestroyed
  <2> QED
    BY <1>13, <2>1, <2>2, <2>3, <2>4, <2>5, <2>6 DEF DaemonStep
<1>14. ASSUME NEW p \in Port, NEW d \in Daemon, TargetDestroyed(p, d) PROVE TypeOK'
  <2>1. /\ receiver' \in [Port -> Daemon \cup {Null, Unbound}]
        /\ links' \in [Port -> [Daemon -> Nat]]
    BY <1>14, TargetType DEF TargetDestroyed, TypeOK
  <2> QED
    BY <1>14, <2>1 DEF TypeOK, TargetDestroyed
<1>15. ASSUME NEW p \in Port, NEW c \in Conn, Incoming(p, c) PROVE TypeOK'
  <2>1. \A d \in Daemon : queue[d] \o [i \in 1..links[p][d] |-> c] \in Seq(Event)
    <3> SUFFICES ASSUME NEW d \in Daemon
                 PROVE  queue[d] \o [i \in 1..links[p][d] |-> c] \in Seq(Event)
      OBVIOUS
    <3>1. [i \in 1..links[p][d] |-> c] \in Seq(Event)
      <4>1. links[p][d] \in Nat /\ c \in Event
        BY DEF TypeOK, Event
      <4> QED
        BY <4>1, SeqDef
    <3>2. queue[d] \in Seq(Event)
      BY DEF TypeOK
    <3> HIDE DEF Groups
    <3> QED
      BY <3>1, <3>2, ConcatProperties
  <2>2. queue' \in [Daemon -> Seq(Event)]
    BY <1>15, <2>1 DEF TypeOK, Incoming
  <2> QED
    BY <1>15, <2>2 DEF TypeOK, Incoming
<1> QED
  BY <1>1, <1>2, <1>3, <1>4, <1>5, <1>6, <1>7, <1>8, <1>9, <1>10, <1>11, <1>12, <1>13, <1>14,
     <1>15 DEF Next, Reloading

-----------------------------------------------------------------------------
(* The table of daemons.                                                    *)

LEMMA AppendElements ==
  ASSUME NEW S, NEW s \in Seq(S), NEW e \in S, NEW i \in DOMAIN Append(s, e)
  PROVE  \/ i \in DOMAIN s /\ Append(s, e)[i] = s[i]
         \/ i = Len(s) + 1 /\ Append(s, e)[i] = e
BY AppendProperties

LEMMA TailElements ==
  ASSUME NEW S, NEW s \in Seq(S), s # <<>>, NEW i \in DOMAIN Tail(s)
  PROVE  i + 1 \in DOMAIN s /\ Tail(s)[i] = s[i + 1]
BY HeadTailProperties

LEMMA CopiesElements ==
  ASSUME NEW S, NEW s \in Seq(S), NEW c \in S, NEW n \in Nat,
         NEW i \in DOMAIN (s \o [j \in 1..n |-> c])
  PROVE  \/ i \in DOMAIN s /\ (s \o [j \in 1..n |-> c])[i] = s[i]
         \/ i \in (Len(s) + 1)..(Len(s) + n) /\ (s \o [j \in 1..n |-> c])[i] = c
<1>1. [j \in 1..n |-> c] \in Seq(S) /\ Len([j \in 1..n |-> c]) = n
  BY SeqDef
<1> DEFINE t == [j \in 1..n |-> c]
<1>2. \A j \in 1..n : t[j] = c
  OBVIOUS
<1> HIDE DEF t
<1> QED
  BY <1>1, <1>2, ConcatProperties DEF t

LEMMA DaemonFrame ==
  ASSUME DaemonInv, UNCHANGED <<daemons, keyOf, inst, queue>>
  PROVE  DaemonInv'
BY DEF DaemonInv

LEMMA DaemonStepInv ==
  ASSUME TypeOK, DaemonInv, [Next]_vars
  PROVE  DaemonInv'
<1> USE DEF settingVars, loadVars, daemonVars, routeVars, configVars, workVars
<1> DEFINE NoDelete == \A d \in Daemon : \A i \in DOMAIN queue[d] :
                         queue[d][i] = "delete" => inst[d] = "dying"
<1>1. CASE UNCHANGED <<daemons, keyOf, inst, queue>>
  BY <1>1, DaemonFrame
<1>2. CASE Instanciate /\ ~UNCHANGED daemonVars
  <2> DEFINE d == CHOOSE free \in FreeDaemons : TRUE
  <2>1. d \in Daemon /\ inst[d] = "free"
    BY <1>2 DEF Instanciate, FreeDaemons
  <2>2. /\ daemons' = [daemons EXCEPT ![asked] = d]
        /\ keyOf' = [keyOf EXCEPT ![d] = asked]
        /\ inst' = [inst EXCEPT ![d] = "running"]
        /\ UNCHANGED queue
    BY <1>2 DEF Instanciate
  <2>3. asked \in Key
    BY <1>2 DEF Instanciate, TypeOK
  <2> HIDE DEF d
  <2> QED
    BY <2>1, <2>2, <2>3, ConstantsOK DEF TypeOK, DaemonInv
<1>3. CASE EndDaemons
  <2> DEFINE gone == {k \in Key : settings.daemons[k] = Null /\ daemons[k] # Null}
             dead == {daemons[k] : k \in gone}
  <2>1. /\ daemons' = [k \in Key |-> IF k \in gone THEN Null ELSE daemons[k]]
        /\ inst' = [d \in Daemon |-> IF d \in dead THEN "dying" ELSE inst[d]]
        /\ queue' = [d \in Daemon |-> IF d \in dead THEN Append(queue[d], "delete")
                                                    ELSE queue[d]]
        /\ UNCHANGED keyOf
    BY <1>3 DEF EndDaemons
  <2>2. \A k \in Key \ gone : daemons[k] \notin dead \/ daemons[k] = Null
    BY DEF DaemonInv
  <2>3. dead \subseteq Daemon /\ \A d \in dead : inst[d] = "running" /\ keyOf[d] \in Key
    BY DEF DaemonInv, TypeOK
  <2>4. \A d \in Daemon : \A i \in DOMAIN queue'[d] : queue'[d][i] = "delete" => inst'[d] = "dying"
    <3> SUFFICES ASSUME NEW d \in Daemon, d \notin dead
                 PROVE \A i \in DOMAIN queue'[d] : queue'[d][i] = "delete" => inst'[d] = "dying"
      BY <2>1 DEF TypeOK
    <3> QED
      BY <2>1 DEF DaemonInv, TypeOK
  <2> HIDE DEF dead, gone
  <2>5. \A k \in Key : daemons'[k] # Null => keyOf'[daemons'[k]] = k /\ inst'[daemons'[k]] = "running"
    BY <2>1, <2>2 DEF DaemonInv, TypeOK
  <2>6. \A d \in Daemon : inst'[d] # "free" => keyOf'[d] \in Key
    BY <2>1, <2>3 DEF DaemonInv, TypeOK
  <2> QED
    BY <2>4, <2>5, <2>6 DEF DaemonInv
<1>4. CASE Emit
  <2>1. UNCHANGED <<daemons, keyOf, inst>>
    BY <1>4 DEF Emit
  <2>2. ASSUME NEW d \in Daemon, NEW i \in DOMAIN queue'[d], queue'[d][i] = "delete"
        PROVE  inst[d] = "dying"
    <3>1. queue'[d] \in {queue[d], Append(queue[d], "reload")}
      BY <1>4 DEF Emit, TypeOK
    <3>2. queue[d] \in Seq(Event) /\ "reload" \in Event
      BY DEF TypeOK, Event
    <3>3. ASSUME queue'[d] = Append(queue[d], "reload")
          PROVE  i \in DOMAIN queue[d] /\ queue[d][i] = "delete"
      <4>1. i \in DOMAIN Append(queue[d], "reload") /\ Append(queue[d], "reload")[i] = "delete"
        BY <2>2, <3>3
      <4> QED
        BY <3>2, <4>1, AppendElements
    <3>4. i \in DOMAIN queue[d] /\ queue[d][i] = "delete"
      BY <2>2, <3>1, <3>3
    <3> QED
      BY <3>4 DEF DaemonInv
  <2> QED
    BY <2>1, <2>2 DEF DaemonInv
<1>5. ASSUME NEW d \in Daemon, queue[d] # <<>>, TakeEvent(d), UNCHANGED <<daemons, keyOf, inst>>
      PROVE  DaemonInv'
  <2>1. ASSUME NEW e \in Daemon, NEW i \in DOMAIN queue'[e], queue'[e][i] = "delete"
        PROVE  inst[e] = "dying"
    <3>1. CASE e = d
      <4>1. queue'[e] = Tail(queue[d])
        BY <1>5, <3>1 DEF TakeEvent, TypeOK
      <4>2. i + 1 \in DOMAIN queue[e] /\ queue[e][i + 1] = "delete"
        BY <1>5, <2>1, <3>1, <4>1, TailElements DEF TypeOK
      <4> QED
        BY <4>2 DEF DaemonInv
    <3>2. CASE e # d
      BY <1>5, <2>1, <3>2 DEF TakeEvent, DaemonInv, TypeOK
    <3> QED
      BY <3>1, <3>2
  <2> QED
    BY <1>5, <2>1 DEF DaemonInv
<1>6. ASSUME NEW d \in Daemon, DeleteDaemon(d) PROVE DaemonInv'
  <2>1. inst[d] = "dying"
    <3>1. 1 \in DOMAIN queue[d] /\ queue[d][1] = "delete"
      BY <1>6 DEF DeleteDaemon, Next1, TypeOK
    <3> QED
      BY <3>1 DEF DaemonInv
  <2>2. /\ UNCHANGED <<daemons, keyOf>>
        /\ inst' = [inst EXCEPT ![d] = "deleting"]
        /\ queue' = [queue EXCEPT ![d] = <<>>]
    BY <1>6 DEF DeleteDaemon
  <2> QED
    BY <2>1, <2>2 DEF DaemonInv, TypeOK
<1>7. ASSUME NEW p \in Port, NEW c \in Conn, Incoming(p, c) PROVE DaemonInv'
  <2>1. UNCHANGED <<daemons, keyOf, inst>>
    BY <1>7 DEF Incoming
  <2>2. ASSUME NEW d \in Daemon, NEW i \in DOMAIN queue'[d], queue'[d][i] = "delete"
        PROVE  inst[d] = "dying"
    <3>1. queue'[d] \in {queue[d], queue[d] \o [j \in 1..links[p][d] |-> c]}
      BY <1>7 DEF Incoming, TypeOK
    <3>2. queue[d] \in Seq(Event) /\ c \in Event /\ links[p][d] \in Nat /\ c # "delete"
      BY ConstantsOK DEF TypeOK, Event
    <3> DEFINE copies == queue[d] \o [j \in 1..links[p][d] |-> c]
    <3>3. ASSUME queue'[d] = copies
          PROVE  i \in DOMAIN queue[d] /\ queue[d][i] = "delete"
      <4>1. i \in DOMAIN copies /\ copies[i] = "delete"
        <5> HIDE DEF copies
        <5> QED
          BY <2>2, <3>3
      <4> QED
        BY <3>2, <4>1, CopiesElements, SMTT(60)
    <3>4. i \in DOMAIN queue[d] /\ queue[d][i] = "delete"
      BY <2>2, <3>1, <3>3
    <3> QED
      BY <3>4 DEF DaemonInv
  <2> QED
    BY <2>1, <2>2 DEF DaemonInv
<1>8. ASSUME NEW d \in Daemon, DaemonStep(d) PROVE DaemonInv'
  <2>1. CASE DaemonReload(d)
    BY <1>5, <2>1 DEF DaemonReload, Next1
  <2>2. CASE BeginGroup(d) \/ GetConfig(d) \/ QThreadDestroyed(d)
    BY <1>1, <2>2 DEF BeginGroup, GetConfig, QThreadDestroyed
  <2>3. ASSUME NEW c \in Conn, Serve(d, c) PROVE DaemonInv'
    BY <1>5, <2>3 DEF Serve, Next1
  <2> QED
    BY <1>6, <1>8, <2>1, <2>2, <2>3 DEF DaemonStep
<1>9. CASE Reloading
  <2>1. CASE BeginReload \/ Load \/ EndPreload \/ EndPorts
    BY <1>1, <2>1 DEF BeginReload, Load, EndPreload, EndPorts
  <2>2. ASSUME NEW x \in Module, AskModule(x) PROVE DaemonInv'
    BY <1>1, <2>2 DEF AskModule
  <2>3. ASSUME NEW k \in Key, AskDaemon(k) PROVE DaemonInv'
    BY <1>1, <2>3 DEF AskDaemon
  <2>4. ASSUME NEW p \in Port, Route(p) PROVE DaemonInv'
    BY <1>1, <2>4 DEF Route
  <2>5. CASE Instanciate /\ UNCHANGED daemonVars
    BY <1>1, <2>5 DEF Instanciate
  <2> QED
    BY <1>2, <1>3, <1>4, <1>9, <2>1, <2>2, <2>3, <2>4, <2>5 DEF Reloading
<1>10. CASE UNCHANGED vars \/ SettingsSync
  BY <1>1, <1>10 DEF vars, SettingsSync
<1>11. ASSUME NEW p \in Port, NEW d \in Daemon, TargetDestroyed(p, d) PROVE DaemonInv'
  BY <1>1, <1>11 DEF TargetDestroyed
<1> QED
  BY <1>7, <1>8, <1>9, <1>10, <1>11 DEF Next
-----------------------------------------------------------------------------
(* The settings under settings_lock.                                        *)

LEMMA ConfigFrame ==
  ASSUME TypeOK, ConfigInv, UNCHANGED <<lock, group, reading, conf, keyOf, inst>>,
         lock = "main" => pc' = pc
  PROVE  ConfigInv'
BY DEF ConfigInv, OwnConfig

\* The prefix that endGroup() leaves is empty.
LEMMA EndGroupEmpty ==
  ASSUME TypeOK, ConfigInv, lock # Null
  PROVE  EndGroup = <<>>
<1>1. Len(group) = 1
  BY DEF ConfigInv
<1> QED
  BY <1>1, FrontProperties DEF TypeOK, EndGroup

LEMMA ConfigStep ==
  ASSUME TypeOK, ConfigInv, DaemonInv, [Next]_vars
  PROVE  ConfigInv'
<1> USE DEF settingVars, loadVars, daemonVars, routeVars, configVars, workVars
<1>0. \A g \in Seq(Key \cup {"preload", "daemons", "ports"}) :
        \A section \in {"preload", "daemons", "ports"} \cup Key :
          g = <<>> => Append(g, section) = <<section>>
  OBVIOUS
<1>1. CASE UNCHANGED vars \/ SettingsSync
  BY <1>1, ConfigFrame DEF vars, SettingsSync
<1>2. CASE BeginReload
  <2>1. group' = <<"preload">> /\ pc' = "preload" /\ lock' = "main"
    <3>1. group = <<>>
      BY <1>2, ConstantsOK DEF BeginReload, ConfigInv
    <3> QED
      BY <1>0, <1>2, <3>1 DEF BeginReload, Enter
  <2>2. \A d \in Daemon : lock' # d /\ reading[d] # "holds"
    BY <1>2, <2>1, ConstantsOK DEF BeginReload, ConfigInv
  <2>3. UNCHANGED <<reading, conf, keyOf, inst>>
    BY <1>2 DEF BeginReload
  <2> QED
    BY <2>1, <2>2, <2>3, ConstantsOK DEF ConfigInv, OwnConfig
<1>3. ASSUME lock = "main", group' = Append(EndGroup, pc'),
             UNCHANGED <<lock, reading, conf, keyOf>>,
             pc' \in {"preload", "daemons", "ports"},
             \A d \in Daemon : \/ inst'[d] = inst[d]
                               \/ inst[d] = "running" /\ inst'[d] = "dying"
      PROVE  ConfigInv'
  <2>1. group' = <<pc'>>
    <3>1. EndGroup = <<>>
      BY <1>3, EndGroupEmpty, ConstantsOK
    <3> QED
      BY <1>0, <1>3, <3>1
  <2>2. \A d \in Daemon : /\ reading[d] # "no" => inst'[d] \in {"running", "dying"}
                          /\ inst'[d] = "free" => inst[d] = "free"
    BY <1>3 DEF ConfigInv, TypeOK
  <2> QED
    BY <1>3, <2>1, <2>2 DEF ConfigInv, OwnConfig
<1>4. CASE EndPreload
  <2>1. lock = "main"
    BY <1>4 DEF EndPreload, Free, TypeOK, InSection
  <2> QED
    BY <1>3, <1>4, <2>1 DEF EndPreload, Enter
<1>5. CASE EndDaemons
  <2>1. lock = "main"
    BY <1>5 DEF EndDaemons, Free, TypeOK, InSection
  <2>2. \A d \in Daemon : \/ inst'[d] = inst[d]
                          \/ inst[d] = "running" /\ inst'[d] = "dying"
    <3> DEFINE gone == {k \in Key : settings.daemons[k] = Null /\ daemons[k] # Null}
               dead == {daemons[k] : k \in gone}
    <3>1. inst' = [d \in Daemon |-> IF d \in dead THEN "dying" ELSE inst[d]]
      BY <1>5 DEF EndDaemons
    <3>2. \A d \in dead : inst[d] = "running"
      BY DEF DaemonInv
    <3> HIDE DEF dead
    <3> QED
      BY <3>1, <3>2
  <2> QED
    BY <1>3, <1>5, <2>1, <2>2 DEF EndDaemons, Enter
<1>6. CASE EndPorts
  <2>1. lock = "main"
    BY <1>6 DEF EndPorts, Free, TypeOK, InSection
  <2>2. group' = <<>> /\ lock' = Null /\ UNCHANGED <<reading, conf, keyOf, inst>>
    BY <1>6, <2>1, EndGroupEmpty, ConstantsOK DEF EndPorts
  <2> QED
    BY <2>1, <2>2, ConstantsOK DEF ConfigInv, OwnConfig
<1>7. CASE Emit
  BY <1>7, ConfigFrame, ConstantsOK DEF Emit, TypeOK, InSection
<1>8. CASE Instanciate
  <2>1. pc = "daemons" /\ lock = "main" /\ UNCHANGED <<pc, lock, group, reading, conf>>
    BY <1>8 DEF Instanciate, TypeOK, InSection
  <2>2. CASE UNCHANGED daemonVars
    BY <2>1, <2>2, ConfigFrame
  <2>3. CASE ~UNCHANGED daemonVars
    <3> DEFINE d == CHOOSE free \in FreeDaemons : TRUE
    <3>1. d \in Daemon /\ inst[d] = "free"
      BY <1>8, <2>3 DEF Instanciate, FreeDaemons
    <3>2. keyOf' = [keyOf EXCEPT ![d] = asked] /\ inst' = [inst EXCEPT ![d] = "running"]
      BY <1>8, <2>3 DEF Instanciate
    <3> HIDE DEF d
    <3>3. conf[d] = Unread /\ reading[d] = "no"
      BY <3>1 DEF ConfigInv
    <3> QED
      BY <2>1, <3>1, <3>2, <3>3, ConstantsOK DEF ConfigInv, OwnConfig, TypeOK
  <2> QED
    BY <2>2, <2>3
<1>9. ASSUME NEW d \in Daemon, DaemonReload(d) PROVE ConfigInv'
  <2>1. /\ inst[d] \in {"running", "dying"} /\ reading[d] = "no"
        /\ reading' = [reading EXCEPT ![d] = "waits"]
        /\ UNCHANGED <<lock, group, conf, keyOf, inst, pc>>
    BY <1>9 DEF DaemonReload, Next1
  <2> QED
    BY <2>1 DEF ConfigInv, OwnConfig, TypeOK
<1>10. ASSUME NEW d \in Daemon, BeginGroup(d) PROVE ConfigInv'
  <2>1. /\ lock = Null /\ lock' = d /\ reading[d] = "waits"
        /\ reading' = [reading EXCEPT ![d] = "holds"]
        /\ UNCHANGED <<conf, keyOf, inst, pc>>
    BY <1>10 DEF BeginGroup
  <2>2. group' = <<keyOf[d]>>
    <3>1. keyOf[d] \in Key /\ group = <<>>
      BY <2>1, ConstantsOK DEF ConfigInv, DaemonInv
    <3> QED
      BY <1>10, <3>1, <1>0 DEF BeginGroup
  <2>3. \A e \in Daemon : lock' = e <=> reading'[e] = "holds"
    BY <2>1, ConstantsOK DEF ConfigInv, TypeOK
  <2>4. lock' # "main" /\ lock' # Null
    BY <2>1, ConstantsOK
  <2>5. group' = IF lock' = "main" THEN <<pc'>> ELSE IF lock' = Null THEN <<>>
                 ELSE <<keyOf'[lock']>>
    BY <2>1, <2>2, <2>4
  <2> QED
    BY <2>1, <2>3, <2>5 DEF ConfigInv, OwnConfig, TypeOK
<1>11. ASSUME NEW d \in Daemon, GetConfig(d) PROVE ConfigInv'
  <2>1. /\ lock = d /\ lock' = Null /\ reading' = [reading EXCEPT ![d] = "no"]
        /\ conf' = [conf EXCEPT ![d] = ValuesUnder(group)]
        /\ UNCHANGED <<keyOf, inst, pc>>
    BY <1>11 DEF GetConfig, ConfigInv
  <2>2. group = <<keyOf[d]>> /\ keyOf[d] \in Key /\ inst[d] # "free"
    BY <1>11, <2>1, ConstantsOK DEF ConfigInv, DaemonInv, GetConfig
  <2>3. ValuesUnder(group)[1] = keyOf[d]
    BY <2>2 DEF ValuesUnder
  <2>4. group' = <<>>
    BY <1>11, <2>1, EndGroupEmpty, ConstantsOK DEF GetConfig
  <2>5. \A e \in Daemon : lock' = e <=> reading'[e] = "holds"
    BY <2>1, ConstantsOK DEF ConfigInv, TypeOK
  <2>6. OwnConfig'
    BY <2>1, <2>3 DEF ConfigInv, OwnConfig, TypeOK
  <2>7. \A e \in Daemon : inst'[e] = "free" => conf'[e] = Unread
    BY <2>1, <2>2 DEF ConfigInv, TypeOK
  <2>8. \A e \in Daemon : reading'[e] # "no" => inst'[e] \in {"running", "dying"}
    BY <2>1 DEF ConfigInv, TypeOK
  <2> QED
    BY <2>1, <2>4, <2>5, <2>6, <2>7, <2>8, ConstantsOK DEF ConfigInv
<1>12. ASSUME NEW d \in Daemon, DeleteDaemon(d) PROVE ConfigInv'
  <2>1. /\ reading[d] = "no" /\ inst[d] \in {"running", "dying"}
        /\ inst' = [inst EXCEPT ![d] = "deleting"]
        /\ UNCHANGED <<lock, group, reading, conf, keyOf, pc>>
    BY <1>12 DEF DeleteDaemon, Next1
  <2> QED
    BY <2>1 DEF ConfigInv, OwnConfig, TypeOK
<1>13. ASSUME NEW d \in Daemon, DaemonStep(d) PROVE ConfigInv'
  <2>1. ASSUME NEW c \in Conn, Serve(d, c) PROVE ConfigInv'
    BY <2>1, ConfigFrame DEF Serve
  <2>2. CASE QThreadDestroyed(d)
    BY <2>2, ConfigFrame DEF QThreadDestroyed
  <2> QED
    BY <1>9, <1>10, <1>11, <1>12, <1>13, <2>1, <2>2 DEF DaemonStep
<1>14. CASE Reloading
  <2>1. CASE Load
    BY <2>1, ConfigFrame DEF Load
  <2>2. ASSUME NEW x \in Module, AskModule(x) PROVE ConfigInv'
    BY <2>2, ConfigFrame DEF AskModule
  <2>3. ASSUME NEW k \in Key, AskDaemon(k) PROVE ConfigInv'
    BY <2>3, ConfigFrame DEF AskDaemon
  <2>4. ASSUME NEW p \in Port, Route(p) PROVE ConfigInv'
    BY <2>4, ConfigFrame DEF Route
  <2> QED
    BY <1>2, <1>4, <1>5, <1>6, <1>7, <1>8, <1>14, <2>1, <2>2, <2>3, <2>4 DEF Reloading
<1>15. ASSUME NEW p \in Port, NEW d \in Daemon, TargetDestroyed(p, d) PROVE ConfigInv'
  BY <1>15, ConfigFrame DEF TargetDestroyed
<1>16. ASSUME NEW p \in Port, NEW c \in Conn, Incoming(p, c) PROVE ConfigInv'
  BY <1>16, ConfigFrame DEF Incoming
<1> QED
  BY <1>1, <1>13, <1>14, <1>15, <1>16 DEF Next

-----------------------------------------------------------------------------
(* modprobe().                                                              *)

Closed(S) == \A x \in S : DependsOn(x) \subseteq S

\* The modules that reloadConfig() asked modprobe() for, since the section
\* began or for the daemon at hand.
Done == IF pc = "preload" THEN settings.preload \ todo
        ELSE IF asked # Null THEN {settings.daemons[asked]} ELSE {}

\* What is loaded works and is complete.  The calls under way are for modules
\* that the first of them, stack[1], depends on: they are in every closed set
\* that it is in.
ModprobeInv ==
  /\ modules \subseteq Module \ Broken
  /\ Closed(modules)
  /\ stack # <<>> => stack[1] \in Done
  /\ stack # <<>> => \A S \in SUBSET Module :
       Closed(S) /\ stack[1] \in S => \A i \in DOMAIN stack : stack[i] \in S
  /\ \A x \in Done : (stack = <<>> \/ x # stack[1]) /\ Loadable(x) => x \in modules

LEMMA ModprobeFrame ==
  ASSUME ModprobeInv, UNCHANGED <<modules, stack, asked>>, Done' = Done
  PROVE  ModprobeInv'
BY DEF ModprobeInv, Closed, DependsOn, Loadable

\* Nothing is asked yet when a section begins or a daemon is dealt with.
LEMMA ModprobeFresh ==
  ASSUME ModprobeInv, UNCHANGED modules, stack' = <<>>, Done' = {}
  PROVE  ModprobeInv'
BY DEF ModprobeInv, Closed, DependsOn, Loadable

LEMMA ModprobeAsk ==
  ASSUME ModprobeInv, stack = <<>>, NEW x \in Module, Probe(x), UNCHANGED modules,
         Done' = Done \cup {x}
  PROVE  ModprobeInv'
<1>1. CASE x \in modules
  BY <1>1 DEF ModprobeInv, Probe, Closed, DependsOn, Loadable
<1>2. CASE x \notin modules
  <2>1. stack' = <<x>> /\ stack' # <<>> /\ DOMAIN stack' = {1} /\ stack'[1] = x
    BY <1>2 DEF Probe
  <2>2. \A S \in SUBSET Module : stack'[1] \in S => \A i \in DOMAIN stack' : stack'[i] \in S
    BY <2>1
  <2>3. \A y \in Done' : y # stack'[1] /\ Loadable(y) => y \in modules'
    BY <2>1 DEF ModprobeInv
  <2> QED
    BY <2>1, <2>2, <2>3 DEF ModprobeInv, Closed, DependsOn, Loadable
<1> QED
  BY <1>1, <1>2

LEMMA ModprobeLoad ==
  ASSUME TypeOK, ModprobeInv, Load
  PROVE  ModprobeInv'
<1>1. /\ stack \in Seq(Module) /\ stack # <<>> /\ Len(stack) \in Nat \ {0}
      /\ Len(stack) \in DOMAIN stack /\ Top = stack[Len(stack)] /\ Top \in Module
  BY DEF Load, Top, TypeOK
<1>2. Done' = Done /\ UNCHANGED asked
  BY DEF Load, Done, settingVars
<1>3. ASSUME NEW y \in Missing(Top), stack' = Append(stack, y), UNCHANGED modules
      PROVE  ModprobeInv'
  <2>1. y \in DependsOn(Top) /\ y \in Module
    BY <1>1, <1>3, ConstantsOK DEF Missing, DependsOn
  <2>2. /\ stack' # <<>> /\ stack'[1] = stack[1]
        /\ \A i \in DOMAIN stack' : \/ i \in DOMAIN stack /\ stack'[i] = stack[i]
                                    \/ stack'[i] = y
    BY <1>1, <1>3, <2>1, AppendProperties
  <2>3. ASSUME NEW S \in SUBSET Module, Closed(S), stack'[1] \in S
        PROVE  \A i \in DOMAIN stack' : stack'[i] \in S
    <3>1. \A i \in DOMAIN stack : stack[i] \in S
      BY <1>1, <2>2, <2>3 DEF ModprobeInv
    <3>2. y \in S
      BY <1>1, <2>1, <2>3, <3>1 DEF Closed
    <3> QED
      BY <2>2, <3>1, <3>2
  <2> QED
    BY <1>1, <1>2, <1>3, <2>2, <2>3 DEF ModprobeInv, Closed, DependsOn, Loadable
<1>4. ASSUME Missing(Top) = {}, Top \notin Broken, modules' = modules \cup {Top}, stack' = Pop
      PROVE  ModprobeInv'
  <2>1. DependsOn(Top) \subseteq modules
    BY <1>4 DEF Missing, DependsOn
  <2>2. modules' \subseteq Module \ Broken /\ Closed(modules')
    BY <1>1, <1>4, <2>1 DEF ModprobeInv, Closed
  <2>3. CASE Len(stack) = 1
    <3>1. stack' = <<>> /\ Top = stack[1]
      BY <1>1, <1>4, <2>3, FrontProperties DEF Pop
    <3> QED
      BY <1>1, <1>2, <1>4, <2>2, <3>1 DEF ModprobeInv, Closed, DependsOn, Loadable
  <2>4. CASE Len(stack) # 1
    <3>1. /\ stack' # <<>> /\ stack'[1] = stack[1]
          /\ \A i \in DOMAIN stack' : i \in DOMAIN stack /\ stack'[i] = stack[i]
      <4>1. /\ stack' \in Seq(Module) /\ Len(stack') = Len(stack) - 1
            /\ \A i \in 1..(Len(stack) - 1) : stack'[i] = stack[i]
        BY <1>1, <1>4, FrontProperties DEF Pop
      <4>2. 1 \in 1..(Len(stack) - 1) /\ Len(stack') > 0
        BY <1>1, <2>4, <4>1
      <4> QED
        BY <1>1, <4>1, <4>2
    <3>2. \A S \in SUBSET Module :
            Closed(S) /\ stack'[1] \in S => \A i \in DOMAIN stack' : stack'[i] \in S
      BY <1>1, <3>1 DEF ModprobeInv
    <3> QED
      BY <1>1, <1>2, <1>4, <2>2, <3>1, <3>2 DEF ModprobeInv, Closed, DependsOn, Loadable
  <2> QED
    BY <2>3, <2>4
<1>5. ASSUME Top \in Broken, Fails PROVE ModprobeInv'
  <2>1. ~Loadable(stack[1])
    <3> SUFFICES ASSUME NEW S \in SUBSET (Module \ Broken), stack[1] \in S,
                        \A y \in S : DependsOn(y) \subseteq S
                 PROVE  FALSE
      BY DEF Loadable
    <3>1. Top \in S
      BY <1>1 DEF ModprobeInv, Closed
    <3> QED
      BY <1>5, <3>1
  <2>2. stack' = <<>> /\ UNCHANGED modules
    BY <1>5 DEF Fails
  <2>3. \A x \in Done : Loadable(x) => x \in modules
    BY <1>1, <2>1 DEF ModprobeInv
  <2> QED
    BY <1>2, <2>2, <2>3 DEF ModprobeInv, Closed, DependsOn, Loadable
<1> QED
  BY <1>3, <1>4, <1>5 DEF Load

LEMMA ModprobeStep ==
  ASSUME TypeOK, ConfigInv, ModprobeInv, [Next]_vars
  PROVE  ModprobeInv'
<1> USE DEF settingVars, loadVars, daemonVars, routeVars, configVars, workVars
<1>1. ASSUME UNCHANGED <<settings, pc, todo, asked, stack, modules>> PROVE ModprobeInv'
  BY <1>1, ModprobeFrame DEF Done
<1>2. CASE UNCHANGED vars
  BY <1>1, <1>2 DEF vars
<1>3. CASE SettingsSync
  BY <1>3, ModprobeFrame DEF SettingsSync, Done, TypeOK
<1>4. CASE BeginReload
  <2>1. group = <<>> /\ stack = <<>>
    BY <1>4, ConstantsOK DEF BeginReload, ConfigInv, TypeOK, InSection
  <2>2. pc' = "preload" /\ todo' = settings.preload /\ UNCHANGED <<settings, stack, modules>>
    BY <1>4, <2>1 DEF BeginReload, Enter, KeysOf
  <2> QED
    BY <2>1, <2>2, ModprobeFresh DEF Done
<1>5. ASSUME NEW x \in Module, AskModule(x) PROVE ModprobeInv'
  <2>1. /\ pc = "preload" /\ stack = <<>> /\ x \in todo /\ todo' = todo \ {x} /\ Probe(x)
        /\ UNCHANGED <<settings, pc, modules>>
    BY <1>5 DEF AskModule, Free
  <2>2. Done' = Done \cup {x}
    BY <2>1 DEF Done, TypeOK, InSection, KeysOf
  <2> QED
    BY <2>1, <2>2, ModprobeAsk
<1>6. CASE Load
  BY <1>6, ModprobeLoad
<1>7. CASE EndPreload
  BY <1>7, ModprobeFresh DEF EndPreload, Enter, Free, Done
<1>8. ASSUME NEW k \in Key, AskDaemon(k) PROVE ModprobeInv'
  <2>1. pc = "daemons" /\ pc' = pc /\ stack = <<>> /\ asked = Null /\ k \in todo
        /\ UNCHANGED <<settings, modules>>
    BY <1>8 DEF AskDaemon, Free
  <2>2. Done = {}
    BY <2>1 DEF Done
  <2>3. CASE daemons[k] # Null
    BY <1>8, <2>1, <2>2, <2>3, ModprobeFrame DEF AskDaemon, Done
  <2>4. CASE daemons[k] = Null
    <3>1. asked' = k /\ Probe(settings.daemons[k]) /\ asked' # Null
      BY <1>8, <2>4, ConstantsOK DEF AskDaemon
    <3>2. Done' = Done \cup {settings.daemons[k]}
      BY <2>1, <2>2, <3>1 DEF Done
    <3>3. settings.daemons[k] \in Module
      BY <2>1, ConstantsOK DEF TypeOK, InSection, KeysOf
    <3> QED
      BY <2>1, <3>1, <3>2, <3>3, ModprobeAsk
  <2> QED
    BY <2>3, <2>4
<1>9. CASE Instanciate
  <2>1. pc' = "daemons" /\ asked' = Null /\ stack' = <<>> /\ UNCHANGED modules
    BY <1>9 DEF Instanciate, TypeOK
  <2> QED
    BY <2>1, ModprobeFresh DEF Done
<1>10. CASE EndDaemons
  BY <1>10, ModprobeFresh DEF EndDaemons, Enter, Free, Done
<1>11. ASSUME NEW p \in Port, Route(p) PROVE ModprobeInv'
  BY <1>11, ModprobeFresh DEF Route, Free, Done
<1>12. CASE EndPorts
  BY <1>12, ModprobeFresh DEF EndPorts, Free, Done
<1>13. CASE Emit
  BY <1>13, ModprobeFresh DEF Emit, Done, TypeOK, InSection
<1>14. ASSUME NEW d \in Daemon, DaemonStep(d) PROVE ModprobeInv'
  BY <1>1, <1>14 DEF DaemonStep, DaemonReload, BeginGroup, GetConfig, Serve, DeleteDaemon,
                     QThreadDestroyed
<1>15. ASSUME NEW p \in Port, NEW d \in Daemon, TargetDestroyed(p, d) PROVE ModprobeInv'
  BY <1>1, <1>15 DEF TargetDestroyed
<1>16. ASSUME NEW p \in Port, NEW c \in Conn, Incoming(p, c) PROVE ModprobeInv'
  BY <1>1, <1>16 DEF Incoming
<1> QED
  BY <1>2, <1>3, <1>4, <1>5, <1>6, <1>7, <1>8, <1>9, <1>10, <1>11, <1>12, <1>13, <1>14, <1>15,
     <1>16 DEF Next, Reloading

LEMMA ModprobeImplies ==
  ASSUME ModprobeInv
  PROVE  ModprobeRight
<1>1. \A x \in modules : Loadable(x)
  BY DEF ModprobeInv, Closed, Loadable
<1>2. stack = <<>> => \A x \in Done : x \in modules <=> Loadable(x)
  BY <1>1 DEF ModprobeInv
<1> QED
  BY <1>2 DEF ModprobeInv, ModprobeRight, Done, Closed

-----------------------------------------------------------------------------
(* Signals, slots and targets.                                              *)

\* A port is connected to its receiver, once, until that one is destroyed.
LinksInv ==
  \A p \in Port :
    /\ \A d \in Daemon : links[p][d] = IF receiver[p] = d /\ inst[d] # "deleting" THEN 1 ELSE 0
    /\ receiver[p] \in Daemon => inst[receiver[p]] # "free"
    /\ \A d \in Daemon : <<p, d>> \in notices => inst[d] = "deleting"

LEMMA TargetLinks ==
  ASSUME TypeOK, LinksInv, UNCHANGED <<inst, notices>>, NEW p \in Port, NEW t \in Daemon \cup {Null},
         t # Null => inst[t] = "running", SetTarget(p, t)
  PROVE  LinksInv'
<1> DEFINE rest == [d \in Daemon |-> IF d = receiver[p] THEN 0 ELSE links[p][d]]
<1>1. receiver' = [receiver EXCEPT ![p] = t] /\ receiver'[p] = t
  BY DEF SetTarget, TypeOK
<1>2. \A q \in Port \ {p} : receiver'[q] = receiver[q] /\ links'[q] = links[q]
  BY DEF SetTarget, TypeOK
<1>3. CASE t = receiver[p]
  <2>1. receiver'[p] = receiver[p] /\ links' = links
    BY <1>1, <1>3 DEF SetTarget
  <2> QED
    BY <1>2, <2>1 DEF LinksInv
<1>4. CASE t # receiver[p]
  <2>1. \A d \in Daemon : rest[d] = 0
    BY DEF LinksInv
  <2>2. links'[p] = IF t = Null THEN rest ELSE [rest EXCEPT ![t] = @ + 1]
    BY <1>4 DEF SetTarget, TypeOK
  <2>3. rest \in [Daemon -> {0}]
    BY <2>1
  <2> HIDE DEF rest
  <2>4. \A d \in Daemon : links'[p][d] = IF d = t THEN 1 ELSE 0
    BY <2>2, <2>3, ConstantsOK
  <2>5. t \in Daemon => inst[t] = "running"
    BY ConstantsOK
  <2>6. \A d \in Daemon : links'[p][d] = IF receiver'[p] = d /\ inst'[d] # "deleting" THEN 1 ELSE 0
    BY <1>1, <2>4, <2>5
  <2>7. \A q \in Port : receiver'[q] \in Daemon => inst'[receiver'[q]] # "free"
    BY <1>1, <1>2, <2>5 DEF LinksInv
  <2> QED
    BY <1>2, <2>6, <2>7 DEF LinksInv
<1> QED
  BY <1>3, <1>4

LEMMA LinksStep ==
  ASSUME TypeOK, DaemonInv, LinksInv, [Next]_vars
  PROVE  LinksInv'
<1> USE DEF settingVars, loadVars, daemonVars, routeVars, configVars, workVars
<1>1. ASSUME UNCHANGED <<inst, receiver, links, notices>> PROVE LinksInv'
  BY <1>1 DEF LinksInv
<1>2. CASE UNCHANGED vars \/ SettingsSync
  BY <1>1, <1>2 DEF vars, SettingsSync
<1>3. ASSUME UNCHANGED routeVars,
             \A d \in Daemon : \/ inst'[d] = inst[d]
                               \/ inst[d] = "free" /\ inst'[d] = "running"
                               \/ inst[d] = "running" /\ inst'[d] = "dying"
      PROVE  LinksInv'
  <2>1. \A d \in Daemon : (inst'[d] = "deleting" <=> inst[d] = "deleting")
                          /\ (inst[d] # "free" => inst'[d] # "free")
    BY <1>3
  <2>2. UNCHANGED <<receiver, links, notices>>
    BY <1>3
  <2> QED
    BY <2>1, <2>2 DEF LinksInv
<1>4. CASE Instanciate
  <2>1. CASE UNCHANGED daemonVars
    BY <1>1, <1>4, <2>1 DEF Instanciate
  <2>2. CASE ~UNCHANGED daemonVars
    <3> DEFINE d == CHOOSE free \in FreeDaemons : TRUE
    <3>1. d \in Daemon /\ inst[d] = "free" /\ inst' = [inst EXCEPT ![d] = "running"]
      BY <1>4, <2>2 DEF Instanciate, FreeDaemons
    <3> HIDE DEF d
    <3> QED
      BY <1>3, <1>4, <3>1 DEF Instanciate, TypeOK
  <2> QED
    BY <2>1, <2>2
<1>5. CASE EndDaemons
  <2> DEFINE dead == {daemons[k] : k \in {k \in Key : settings.daemons[k] = Null
                                                      /\ daemons[k] # Null}}
  <2>1. inst' = [d \in Daemon |-> IF d \in dead THEN "dying" ELSE inst[d]] /\ UNCHANGED routeVars
    BY <1>5 DEF EndDaemons
  <2>2. \A d \in dead : inst[d] = "running"
    BY DEF DaemonInv
  <2> HIDE DEF dead
  <2> QED
    BY <1>3, <2>1, <2>2
<1>6. ASSUME NEW p \in Port, Route(p) PROVE LinksInv'
  <2> DEFINE t == GetDaemon(settings.ports[p])
  <2>1. t \in Daemon \cup {Null} /\ (t # Null => inst[t] = "running")
    <3>1. settings.ports[p] \in Key
      BY <1>6, ConstantsOK DEF TypeOK, Route, Free, InSection, KeysOf
    <3> QED
      BY <3>1 DEF GetDaemon, TypeOK, DaemonInv
  <2>2. SetTarget(p, t) \/ UNCHANGED <<receiver, links>>
    BY <1>6 DEF Route
  <2>3. UNCHANGED <<inst, notices>>
    BY <1>6 DEF Route
  <2> HIDE DEF t
  <2> QED
    BY <1>1, <2>1, <2>2, <2>3, TargetLinks
<1>7. CASE EndPorts
  <2>1. UNCHANGED <<inst, notices>>
    BY <1>7 DEF EndPorts
  <2>2. ASSUME NEW p \in Port
        PROVE  \/ receiver'[p] = receiver[p] /\ links'[p] = links[p]
               \/ receiver'[p] = Unbound /\ \A d \in Daemon : links'[p][d] = 0
    BY <1>7 DEF EndPorts, None
  <2> QED
    BY <2>1, <2>2, ConstantsOK DEF LinksInv
<1>8. ASSUME NEW d \in Daemon, DeleteDaemon(d) PROVE LinksInv'
  <2>1. /\ inst[d] \in {"running", "dying"} /\ UNCHANGED receiver
        /\ inst' = [inst EXCEPT ![d] = "deleting"]
        /\ notices' = notices \cup {<<p, d>> : p \in {q \in Port : links[q][d] > 0}}
        /\ links' = [p \in Port |-> [links[p] EXCEPT ![d] = 0]]
    BY <1>8 DEF DeleteDaemon, Next1
  <2>2. \A e \in Daemon : inst'[e] = IF e = d THEN "deleting" ELSE inst[e]
    BY <2>1 DEF TypeOK
  <2>3. \A p \in Port, e \in Daemon : links'[p][e] = IF e = d THEN 0 ELSE links[p][e]
    BY <2>1 DEF TypeOK
  <2>4. \A p \in Port, e \in Daemon : <<p, e>> \in notices' => <<p, e>> \in notices \/ e = d
    BY <2>1
  <2> QED
    BY <2>1, <2>2, <2>3, <2>4 DEF LinksInv
<1>9. ASSUME NEW d \in Daemon, DaemonStep(d) PROVE LinksInv'
  BY <1>1, <1>8, <1>9 DEF DaemonStep, DaemonReload, BeginGroup, GetConfig, Serve, QThreadDestroyed
<1>10. CASE Reloading
  BY <1>1, <1>4, <1>5, <1>6, <1>7, <1>10
     DEF Reloading, BeginReload, AskModule, Load, EndPreload, AskDaemon, Emit
<1>11. ASSUME NEW p \in Port, NEW d \in Daemon, TargetDestroyed(p, d) PROVE LinksInv'
  <2> DEFINE fewer == notices' \subseteq notices /\ UNCHANGED inst
  <2>1. fewer
    BY <1>11 DEF TargetDestroyed
  <2>2. CASE UNCHANGED <<receiver, links>>
    BY <2>1, <2>2 DEF LinksInv
  <2>3. CASE receiver[p] = d /\ SetTarget(p, Null)
    <3>1. receiver' = [receiver EXCEPT ![p] = Null] /\ receiver[p] # Null
      BY <2>3, ConstantsOK DEF SetTarget
    <3>2. links' = [links EXCEPT ![p] = [e \in Daemon |-> IF e = d THEN 0 ELSE links[p][e]]]
      BY <2>3, <3>1 DEF SetTarget
    <3>3. \A q \in Port : /\ q # p => receiver'[q] = receiver[q] /\ links'[q] = links[q]
                          /\ q = p => receiver'[q] = Null /\ \A e \in Daemon : links'[q][e] = 0
      BY <2>3, <3>1, <3>2 DEF TypeOK, LinksInv
    <3> QED
      BY <2>1, <3>3, ConstantsOK DEF LinksInv
  <2> QED
    BY <1>11, <2>2, <2>3 DEF TargetDestroyed
<1>12. ASSUME NEW p \in Port, NEW c \in Conn, Incoming(p, c) PROVE LinksInv'
  BY <1>1, <1>12 DEF Incoming
<1> QED
  BY <1>2, <1>9, <1>10, <1>11, <1>12 DEF Next

\* Port p is unbound, or leads to the daemon that the settings name.
Current(p) ==
  receiver[p] # Unbound => settings.ports[p] # Null /\ receiver[p] = daemons[settings.ports[p]]

RouteInv ==
  \A p \in Port :
    /\ pc = "ports" /\ p \notin todo /\ settings.ports[p] # Null => Current(p)
    /\ pc = "emit" \/ (pc = "idle" /\ ~stale) => Current(p)

LEMMA RouteStep ==
  ASSUME TypeOK, ConfigInv, DaemonInv, LinksInv, RouteInv, [Next]_vars
  PROVE  RouteInv'
<1> USE DEF settingVars, loadVars, daemonVars, routeVars, configVars, workVars
<1>1. ASSUME UNCHANGED <<settings, stale, pc, todo, daemons, receiver>> PROVE RouteInv'
  BY <1>1 DEF RouteInv, Current
<1>2. ASSUME pc' \in {"preload", "daemons"} PROVE RouteInv'
  BY <1>2 DEF RouteInv
<1>3. CASE UNCHANGED vars \/ SettingsSync
  BY <1>1, <1>3 DEF vars, SettingsSync, RouteInv
<1>4. CASE BeginReload \/ EndPreload \/ Instanciate
  BY <1>2, <1>4 DEF BeginReload, EndPreload, Instanciate, Enter, TypeOK
<1>5. ASSUME NEW x \in Module, AskModule(x) PROVE RouteInv'
  BY <1>2, <1>5 DEF AskModule, Free
<1>6. ASSUME NEW k \in Key, AskDaemon(k) PROVE RouteInv'
  BY <1>2, <1>6 DEF AskDaemon, Free
<1>7. CASE EndDaemons
  <2>1. EndGroup = <<>>
    BY <1>7, EndGroupEmpty, ConstantsOK DEF EndDaemons, Free, TypeOK, InSection
  <2>2. pc' = "ports" /\ todo' = {p \in Port : settings'.ports[p] # Null}
    BY <1>7, <2>1 DEF EndDaemons, Enter, KeysOf
  <2> QED
    BY <2>2 DEF RouteInv
<1>8. ASSUME NEW p \in Port, Route(p) PROVE RouteInv'
  <2>1. /\ pc = "ports" /\ p \in todo /\ todo' = todo \ {p} /\ settings.ports[p] # Null
        /\ UNCHANGED <<settings, stale, pc, daemons>>
    BY <1>8 DEF Route, Free, TypeOK, InSection, KeysOf
  <2>2. /\ receiver'[p] \in {Unbound, daemons[settings.ports[p]]}
        /\ \A q \in Port \ {p} : receiver'[q] = receiver[q]
    BY <1>8 DEF Route, SetTarget, GetDaemon, TypeOK
  <2> QED
    BY <2>1, <2>2 DEF RouteInv, Current
<1>9. CASE EndPorts
  <2>1. /\ pc = "ports" /\ todo = {} /\ UNCHANGED <<settings, stale, daemons>>
        /\ receiver' = [p \in Port |-> IF settings.ports[p] = Null THEN Unbound ELSE receiver[p]]
    BY <1>9 DEF EndPorts, Free
  <2> QED
    BY <2>1 DEF RouteInv, Current
<1>10. CASE Emit
  BY <1>10 DEF Emit, RouteInv, Current
<1>11. CASE Load
  BY <1>1, <1>11 DEF Load
<1>12. ASSUME NEW d \in Daemon, DaemonStep(d) PROVE RouteInv'
  BY <1>1, <1>12 DEF DaemonStep, DaemonReload, BeginGroup, GetConfig, Serve, DeleteDaemon,
                     QThreadDestroyed
<1>13. ASSUME NEW p \in Port, NEW d \in Daemon, TargetDestroyed(p, d) PROVE RouteInv'
  <2>1. pc = "idle" /\ inst[d] = "deleting" /\ UNCHANGED <<settings, stale, pc, todo, daemons>>
    BY <1>13 DEF TargetDestroyed, LinksInv
  <2>2. CASE stale
    BY <2>1, <2>2 DEF RouteInv
  <2>3. CASE ~stale
    <3>1. receiver[p] # d
      <4>1. Current(p)
        BY <2>1, <2>3 DEF RouteInv
      <4>2. \A k \in Key : daemons[k] # d
        BY <2>1, ConstantsOK DEF DaemonInv
      <4>3. settings.ports[p] \in Key \cup {Null}
        BY ConstantsOK DEF TypeOK
      <4> QED
        BY <4>1, <4>2, <4>3, ConstantsOK DEF Current
    <3> QED
      BY <1>1, <1>13, <2>1, <3>1 DEF TargetDestroyed
  <2> QED
    BY <2>2, <2>3
<1>14. ASSUME NEW p \in Port, NEW c \in Conn, Incoming(p, c) PROVE RouteInv'
  BY <1>1, <1>14 DEF Incoming
<1> QED
  BY <1>3, <1>4, <1>5, <1>6, <1>7, <1>8, <1>9, <1>10, <1>11, <1>12, <1>13, <1>14
     DEF Next, Reloading

LEMMA RouteImplies ==
  ASSUME TypeOK, DaemonInv, RouteInv
  PROVE  RoutesCurrent
<1> SUFFICES ASSUME pc = "idle", ~stale, NEW p \in Port, receiver[p] # Unbound
             PROVE  /\ settings.ports[p] # Null
                    /\ receiver[p] = daemons[settings.ports[p]]
                    /\ receiver[p] # Null => inst[receiver[p]] = "running"
  BY DEF RoutesCurrent
<1>1. Current(p)
  BY DEF RouteInv
<1>2. settings.ports[p] \in Key \cup {Null}
  BY ConstantsOK DEF TypeOK
<1> QED
  BY <1>1, <1>2 DEF Current, DaemonInv

-----------------------------------------------------------------------------
(* Connections handed to the daemons.                                       *)

\* RoutedOnce by what each queue holds: every c waits at most once, with the
\* daemon in charge of it, and not after it was served.
OnceInv ==
  \A c \in Conn :
    /\ served[c] \subseteq {inCharge[c]}
    /\ \A d \in Daemon :
         /\ \A i \in DOMAIN queue[d] : queue[d][i] = c => inCharge[c] = d /\ served[c] = {}
         /\ \A i, j \in DOMAIN queue[d] : queue[d][i] = c /\ queue[d][j] = c => i = j

LEMMA OnceImplies ==
  ASSUME OnceInv
  PROVE  RoutedOnce
BY DEF OnceInv, RoutedOnce, Waiting

\* An event that is no connection disturbs nothing.
LEMMA OnceAppend ==
  ASSUME TypeOK, OnceInv, UNCHANGED <<inCharge, served>>, NEW e \in {"reload", "delete"},
         \A d \in Daemon : queue'[d] = queue[d] \/ queue'[d] = Append(queue[d], e)
  PROVE  OnceInv'
<1>1. ASSUME NEW d \in Daemon, NEW c \in Conn, NEW i \in DOMAIN queue'[d], queue'[d][i] = c
      PROVE  i \in DOMAIN queue[d] /\ queue[d][i] = c
  <2>1. queue[d] \in Seq(Event) /\ e \in Event /\ c # e
    BY ConstantsOK DEF TypeOK, Event
  <2>2. ASSUME queue'[d] = Append(queue[d], e) PROVE i \in DOMAIN queue[d] /\ queue[d][i] = c
    <3>1. i \in DOMAIN Append(queue[d], e) /\ Append(queue[d], e)[i] = c
      BY <1>1, <2>2
    <3> QED
      BY <2>1, <3>1, AppendElements
  <2> QED
    BY <1>1, <2>2
<1> QED
  BY <1>1 DEF OnceInv

\* What is left when d takes an event.
LEMMA OnceTake ==
  ASSUME TypeOK, OnceInv, NEW d \in Daemon, queue[d] # <<>>, TakeEvent(d)
  PROVE  \A e \in Daemon, c \in Conn :
           /\ \A i \in DOMAIN queue'[e] : queue'[e][i] = c =>
                /\ inCharge[c] = e /\ served[c] = {}
                /\ e = d => Head(queue[d]) # c
           /\ \A i, j \in DOMAIN queue'[e] : queue'[e][i] = c /\ queue'[e][j] = c => i = j
<1> SUFFICES ASSUME NEW e \in Daemon, NEW c \in Conn
             PROVE  /\ \A i \in DOMAIN queue'[e] : queue'[e][i] = c =>
                         /\ inCharge[c] = e /\ served[c] = {}
                         /\ e = d => Head(queue[d]) # c
                    /\ \A i, j \in DOMAIN queue'[e] :
                         queue'[e][i] = c /\ queue'[e][j] = c => i = j
  OBVIOUS
<1>1. CASE e # d
  BY <1>1, SMTT(60) DEF TakeEvent, OnceInv, TypeOK
<1>2. CASE e = d
  <2>1. queue[e] \in Seq(Event) /\ queue'[e] = Tail(queue[e])
    BY <1>2 DEF TakeEvent, TypeOK
  <2>2. ASSUME NEW i \in DOMAIN queue'[e]
        PROVE  i \in Nat \ {0} /\ i + 1 \in DOMAIN queue[e] /\ queue'[e][i] = queue[e][i + 1]
    <3>1. i \in DOMAIN Tail(queue[e])
      BY <2>1
    <3>2. i + 1 \in DOMAIN queue[e] /\ Tail(queue[e])[i] = queue[e][i + 1]
      BY <1>2, <2>1, <3>1, TailElements
    <3>3. i \in Nat \ {0}
      BY <1>2, <2>1, <3>1, HeadTailProperties
    <3> QED
      BY <2>1, <3>2, <3>3
  <2>3. 1 \in DOMAIN queue[e] /\ Head(queue[e]) = queue[e][1]
    BY <1>2, <2>1
  <2>4. ASSUME NEW i \in DOMAIN queue'[e], queue'[e][i] = c
        PROVE  inCharge[c] = e /\ served[c] = {} /\ Head(queue[d]) # c
    <3>1. i + 1 # 1
      BY <2>2
    <3> QED
      BY <1>2, <2>2, <2>3, <2>4, <3>1 DEF OnceInv
  <2>5. ASSUME NEW i \in DOMAIN queue'[e], NEW j \in DOMAIN queue'[e],
               queue'[e][i] = c, queue'[e][j] = c
        PROVE  i = j
    <3>1. i + 1 = j + 1
      BY <2>2, <2>5 DEF OnceInv
    <3> QED
      BY <2>2, <3>1
  <2> QED
    BY <2>4, <2>5
<1> QED
  BY <1>1, <1>2

LEMMA OnceStep ==
  ASSUME TypeOK, LinksInv, OnceInv, [Next]_vars
  PROVE  OnceInv'
<1> USE DEF settingVars, loadVars, daemonVars, routeVars, configVars, workVars
<1>1. ASSUME UNCHANGED workVars PROVE OnceInv'
  BY <1>1 DEF OnceInv
<1>2. CASE UNCHANGED vars \/ SettingsSync
  BY <1>1, <1>2 DEF vars, SettingsSync
<1>3. CASE EndDaemons
  <2> DEFINE dead == {daemons[k] : k \in {k \in Key : settings.daemons[k] = Null
                                                      /\ daemons[k] # Null}}
  <2>1. queue' = [d \in Daemon |-> IF d \in dead THEN Append(queue[d], "delete") ELSE queue[d]]
    BY <1>3 DEF EndDaemons
  <2> HIDE DEF dead
  <2>2. \A d \in Daemon : queue'[d] = queue[d] \/ queue'[d] = Append(queue[d], "delete")
    BY <2>1
  <2>3. UNCHANGED <<inCharge, served>>
    BY <1>3 DEF EndDaemons
  <2> QED
    BY <2>2, <2>3, OnceAppend
<1>4. CASE Emit
  <2>1. \A d \in Daemon : queue'[d] = queue[d] \/ queue'[d] = Append(queue[d], "reload")
    BY <1>4 DEF Emit
  <2>2. UNCHANGED <<inCharge, served>>
    BY <1>4 DEF Emit
  <2> QED
    BY <2>1, <2>2, OnceAppend
<1>5. CASE Reloading
  BY <1>1, <1>3, <1>4, <1>5
     DEF Reloading, BeginReload, AskModule, Load, EndPreload, AskDaemon, Instanciate, Route, EndPorts
<1>6. ASSUME NEW d \in Daemon, DaemonReload(d) PROVE OnceInv'
  <2>1. queue[d] # <<>> /\ TakeEvent(d) /\ UNCHANGED <<inCharge, served>>
    BY <1>6 DEF DaemonReload, Next1
  <2> QED
    BY <2>1, OnceTake DEF OnceInv
<1>7. ASSUME NEW d \in Daemon, NEW c \in Conn, Serve(d, c) PROVE OnceInv'
  <2>1. /\ queue[d] # <<>> /\ Head(queue[d]) = c /\ TakeEvent(d) /\ UNCHANGED inCharge
        /\ served' = [served EXCEPT ![c] = @ \cup {d}]
    BY <1>7 DEF Serve, Next1
  <2>2. inCharge[c] = d
    <3>1. 1 \in DOMAIN queue[d] /\ queue[d][1] = c
      BY <2>1 DEF TypeOK
    <3> QED
      BY <3>1 DEF OnceInv
  <2>3. \A e \in Daemon, x \in Conn :
          /\ \A i \in DOMAIN queue'[e] : queue'[e][i] = x =>
               inCharge[x] = e /\ served[x] = {} /\ (e = d => x # c)
          /\ \A i, j \in DOMAIN queue'[e] : queue'[e][i] = x /\ queue'[e][j] = x => i = j
    BY <2>1, OnceTake
  <2>4. \A x \in Conn : served'[x] = IF x = c THEN served[c] \cup {d} ELSE served[x]
    BY <2>1 DEF TypeOK
  <2>5. \A x \in Conn : served'[x] \subseteq {inCharge'[x]}
    BY <2>1, <2>2, <2>4 DEF OnceInv
  <2>6. \A x \in Conn, e \in Daemon : \A i \in DOMAIN queue'[e] :
          queue'[e][i] = x => inCharge'[x] = e /\ served'[x] = {}
    BY <2>1, <2>2, <2>3, <2>4
  <2> QED
    BY <2>3, <2>5, <2>6 DEF OnceInv
<1>8. ASSUME NEW d \in Daemon, DeleteDaemon(d) PROVE OnceInv'
  <2>1. queue' = [queue EXCEPT ![d] = <<>>] /\ UNCHANGED <<inCharge, served>>
    BY <1>8 DEF DeleteDaemon
  <2>2. \A e \in Daemon : queue'[e] = queue[e] \/ DOMAIN queue'[e] = {}
    BY <2>1 DEF TypeOK
  <2> QED
    BY <2>1, <2>2 DEF OnceInv
<1>9. ASSUME NEW d \in Daemon, DaemonStep(d) PROVE OnceInv'
  BY <1>1, <1>6, <1>7, <1>8, <1>9 DEF DaemonStep, BeginGroup, GetConfig, QThreadDestroyed
<1>10. ASSUME NEW p \in Port, NEW d \in Daemon, TargetDestroyed(p, d) PROVE OnceInv'
  BY <1>1, <1>10 DEF TargetDestroyed
<1>11. ASSUME NEW p \in Port, NEW c \in Conn, Incoming(p, c) PROVE OnceInv'
  <2>1. inCharge[c] = Unbound /\ inCharge' = [inCharge EXCEPT ![c] = receiver[p]] /\ UNCHANGED served
    BY <1>11 DEF Incoming
  <2>2. served[c] = {} /\ \A d \in Daemon : \A i \in DOMAIN queue[d] : queue[d][i] # c
    BY <2>1, ConstantsOK DEF OnceInv, TypeOK
  <2>3. ASSUME NEW d \in Daemon, queue'[d] # queue[d]
        PROVE  receiver[p] = d /\ queue'[d] = queue[d] \o [i \in 1..1 |-> c]
    <3>1. links[p][d] > 0 /\ queue'[d] = queue[d] \o [i \in 1..links[p][d] |-> c]
      BY <1>11, <2>3 DEF Incoming
    <3>2. receiver[p] = d /\ links[p][d] = 1
      BY <3>1 DEF LinksInv
    <3> QED
      BY <3>1, <3>2
  <2>4. ASSUME NEW d \in Daemon, NEW i \in DOMAIN queue'[d]
        PROVE  \/ i \in DOMAIN queue[d] /\ queue'[d][i] = queue[d][i]
               \/ i = Len(queue[d]) + 1 /\ receiver[p] = d /\ queue'[d][i] = c
    <3> DEFINE copies == queue[d] \o [j \in 1..1 |-> c]
    <3>1. queue[d] \in Seq(Event) /\ c \in Event /\ Len(queue[d]) \in Nat
      BY DEF TypeOK, Event
    <3>2. CASE queue'[d] # queue[d]
      <4>1. i \in DOMAIN copies /\ queue'[d][i] = copies[i] /\ receiver[p] = d
        <5> HIDE DEF copies
        <5>1. receiver[p] = d /\ queue'[d] = copies
          BY <2>3, <3>2 DEF copies
        <5> QED
          BY <2>4, <5>1
      <4>2. \/ i \in DOMAIN queue[d] /\ copies[i] = queue[d][i]
            \/ i \in (Len(queue[d]) + 1)..(Len(queue[d]) + 1) /\ copies[i] = c
        BY <3>1, <4>1, CopiesElements
      <4> HIDE DEF copies
      <4> QED
        BY <3>1, <4>1, <4>2
    <3> QED
      BY <2>4, <3>2
  <2>5. \A x \in Conn : inCharge'[x] = IF x = c THEN receiver[p] ELSE inCharge[x]
    BY <2>1 DEF TypeOK
  <2>6. \A x \in Conn : served'[x] \subseteq {inCharge'[x]}
    BY <2>1, <2>2, <2>5 DEF OnceInv
  <2>7. ASSUME NEW x \in Conn, NEW d \in Daemon, NEW i \in DOMAIN queue'[d], queue'[d][i] = x
        PROVE  inCharge'[x] = d /\ served'[x] = {}
    BY <2>1, <2>2, <2>4, <2>5, <2>7 DEF OnceInv
  <2>8. ASSUME NEW x \in Conn, NEW d \in Daemon, NEW i \in DOMAIN queue'[d],
               NEW j \in DOMAIN queue'[d], queue'[d][i] = x, queue'[d][j] = x
        PROVE  i = j
    <3>1. CASE x = c
      BY <2>2, <2>4, <2>8, <3>1
    <3>2. CASE x # c
      BY <2>4, <2>8, <3>2 DEF OnceInv
    <3> QED
      BY <3>1, <3>2
  <2> QED
    BY <2>6, <2>7, <2>8 DEF OnceInv
<1> QED
  BY <1>2, <1>5, <1>9, <1>10, <1>11 DEF Next

-----------------------------------------------------------------------------
(* The theorems.                                                            *)

\* The inductive invariant.
Inv ==
  /\ TypeOK
  /\ ConfigInv
  /\ DaemonInv
  /\ ModprobeInv
  /\ LinksInv
  /\ RouteInv
  /\ OnceInv

LEMMA InvInit == Init => Inv
<1> SUFFICES ASSUME Init PROVE Inv
  OBVIOUS
<1>1. ConfigInv /\ DaemonInv
  BY ConstantsOK DEF Init, ConfigInv, DaemonInv, OwnConfig
<1>2. ModprobeInv
  BY DEF Init, ModprobeInv, Closed, Done
<1>3. LinksInv
  BY ConstantsOK DEF Init, LinksInv, None
<1>4. RouteInv /\ OnceInv
  BY DEF Init, RouteInv, OnceInv
<1> QED
  BY <1>1, <1>2, <1>3, <1>4, TypeInit DEF Inv

LEMMA InvStep == Inv /\ [Next]_vars => Inv'
BY TypeStep, ConfigStep, DaemonStepInv, ModprobeStep, LinksStep, RouteStep, OnceStep DEF Inv

LEMMA InvCorrect == Spec => []Inv
BY InvInit, InvStep, PTL DEF Spec

\* Every state has the types that the operations rely on: among others that
\* only reloadConfig() holds settings_lock as "main", for as long as it reads.
THEOREM TypeCorrect == Spec => []TypeOK
<1>1. Inv => TypeOK
  BY DEF Inv
<1> QED
  BY <1>1, InvCorrect, PTL

\* Whatever reloadConfig() and the getConfig() calls of the daemons' threads
\* interleave, a daemon reads the section that bears its name: settings_lock
\* guards the prefix that QSettings::beginGroup() leaves in the shared object.
THEOREM OwnConfigCorrect == Spec => []OwnConfig
<1>1. Inv => OwnConfig
  BY DEF Inv, ConfigInv
<1> QED
  BY <1>1, InvCorrect, PTL

\* modprobe() loads a module exactly when it and all that it depends on work,
\* and never leaves a loaded module without what it depends on.
THEOREM ModprobeCorrect == Spec => []ModprobeRight
<1>1. Inv => ModprobeRight
  BY ModprobeImplies DEF Inv
<1> QED
  BY <1>1, InvCorrect, PTL

\* A connection is given to the daemon in charge when it came in, to no other
\* one, and once.
THEOREM RoutedOnceCorrect == Spec => []RoutedOnce
<1>1. Inv => RoutedOnce
  BY OnceImplies DEF Inv
<1> QED
  BY <1>1, InvCorrect, PTL

\* After reloadConfig() no port is left with a target the settings do not name.
THEOREM RoutesCurrentCorrect == Spec => []RoutesCurrent
<1>1. Inv => RoutesCurrent
  BY RouteImplies DEF Inv
<1> QED
  BY <1>1, InvCorrect, PTL
=============================================================================
