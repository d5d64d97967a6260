-------------------------------- MODULE Core --------------------------------
(***************************************************************************)
(* mod/core: the Core object, which loads modules and daemons and routes    *)
(* ports to them.  Core and the listening sockets live in the main thread;  *)
(* each Daemon object lives in a QThread of its own and receives queued     *)
(* events, in order.  The main thread's reloadConfig() and the daemons'     *)
(* getConfig() share one QSettings object, whose group prefix is state,     *)
(* under settings_lock.                                                     *)
(*                                                                          *)
(* CoreTcp, CoreUdp and CoreUdg route alike, so a port is any of the three  *)
(* and a "connection" is what it hands over: a socket or a datagram.  How a *)
(* socket changes threads is the subject of module ClientTcp.               *)
(*                                                                          *)
(* LoadOnce, BeginGroupUnlocked, GetConfigKeepsLock, SetTargetConnects,      *)
(* SetTargetSkipsNull and EmitToNew stand before the definition whose       *)
(* plausible wrong version they are; the specification does not use them.   *)
(***************************************************************************)
EXTENDS Integers, Sequences, FiniteSets

CONSTANTS
  Module,     \* module names; those sym_map names are the ext/ ones
  Key,        \* keys of [daemons]
  Port,       \* keys of [tcp], [udp] and [udg]
  Daemon,     \* identities of Daemon objects; bound: none is used twice
  Conn,       \* connections and datagrams
  Null,       \* a NULL pointer, or a key the settings do not have
  Unbound,    \* a port that is not in port_tcp, port_udp or port_udg
  Needs,      \* Needs[x]: modules whose symbols x lacks when it is loaded
  Preloads,   \* Preloads[x]: modules the pinetd_preload of x probes
  Broken,     \* modules that do not load, or whose pinetd_preload fails
  Factory,    \* modules with a pinetd_instanciate
  Settings,   \* the contents pinetd.ini may have
  MaxQueue    \* bound: events queued for a daemon when the main thread acts

DependsOn(x) == Needs[x] \cup Preloads[x]

ASSUME ConstantsOK ==
  /\ IsFiniteSet(Module) /\ IsFiniteSet(Key) /\ IsFiniteSet(Daemon)
  /\ Null \notin Module \cup Key \cup Daemon \cup {Unbound} /\ Unbound \notin Daemon
  /\ Conn \cap {"reload", "delete"} = {}
  /\ "main" \notin Daemon \cup {Null}
  /\ Key \cap {"preload", "daemons", "ports"} = {}
  /\ Needs \in [Module -> SUBSET Module] /\ Preloads \in [Module -> SUBSET Module]
  /\ Broken \subseteq Module /\ Factory \subseteq Module
  /\ Settings \subseteq [preload : SUBSET Module, daemons : [Key -> Module \cup {Null}],
                         ports : [Port -> Key \cup {Null}], conf : [Key -> Nat]]
  /\ MaxQueue \in Nat

\* modprobe() has no guard against modules that need each other.
ASSUME NoCycle ==
  \E rank \in [Module -> 0..Cardinality(Module)] :
    \A x \in Module : \A y \in DependsOn(x) : rank[y] < rank[x]

VARIABLES
  settings,   \* what Core::settings holds
  stale,      \* it changed since reloadConfig() last read it
  pc,         \* what the main thread runs: "idle" or a part of reloadConfig()
  todo,       \* keys of the current group that it has not come to
  asked,      \* the key of [daemons] whose module it is probing
  stack,      \* the modprobe() calls under way: the modules being loaded
  modules,    \* Core::modules
  daemons,    \* Core::daemons
  keyOf,      \* keyOf[d]: Daemon::instname
  inst,       \* inst[d]: "free", "running", "dying" (deleteLater called), "deleting"
  receiver,   \* receiver[p]: receiver of p's CoreTcp, CoreUdp or CoreUdg
  links,      \* links[p][d]: connections of p's signal to d's slot
  notices,    \* destroyed() signals queued for the main thread
  lock,       \* owner of settings_lock
  group,      \* the prefix QSettings::beginGroup() built up
  queue,      \* queue[d]: events posted to d
  reading,    \* reading[d]: d's thread in getConfig(): "no", "waits" or "holds"
  conf,       \* conf[d]: what the last getConfig() of d returned
  inCharge,   \* inCharge[c]: the receiver when c came in
  served,     \* served[c]: daemons whose slot was called for c
  aborted     \* qFatal() was called

settingVars == <<settings, stale>>
loadVars    == <<todo, asked, stack, modules>>
daemonVars  == <<daemons, keyOf, inst, aborted>>
routeVars   == <<receiver, links, notices>>
configVars  == <<lock, group, reading, conf>>
workVars    == <<queue, inCharge, served>>
vars == <<settingVars, pc, loadVars, daemonVars, routeVars, configVars, workVars>>

None == [d \in Daemon |-> 0]
\* conf[d] is <<section, value>>: nothing was read yet, or from no section.
Unread == <<Null, 0>>
Empty == <<Null, 1>>

\* Core() runs reloadSymbols() and reloadConfig(); it is BeginReload that
\* takes the program out of this state.
Init ==
  /\ settings \in Settings /\ stale = TRUE
  /\ pc = "idle" /\ todo = {} /\ asked = Null /\ stack = <<>> /\ modules = {}
  /\ daemons = [k \in Key |-> Null]
  /\ keyOf = [d \in Daemon |-> Null]
  /\ inst = [d \in Daemon |-> "free"]
  /\ receiver = [p \in Port |-> Unbound]
  /\ links = [p \in Port |-> None]
  /\ notices = {}
  /\ lock = Null /\ group = <<>>
  /\ reading = [d \in Daemon |-> "no"]
  /\ conf = [d \in Daemon |-> Unread]
  /\ queue = [d \in Daemon |-> <<>>]
  /\ inCharge = [c \in Conn |-> Unbound]
  /\ served = [c \in Conn |-> {}]
  /\ aborted = FALSE

-----------------------------------------------------------------------------
(* The settings.                                                            *)

\* QSettings may read its file again when the main event loop turns.
SettingsSync ==
  /\ pc = "idle"
  /\ settings' \in Settings \ {settings}
  /\ stale' = TRUE
  /\ UNCHANGED <<pc, loadVars, daemonVars, routeVars, configVars, workVars>>

FreeDaemons == {d \in Daemon : inst[d] = "free"}

\* allKeys() of a section: the prefix has to be just that section.
KeysOf(section) ==
  CASE section = "preload" -> settings.preload
    [] section = "daemons" -> {k \in Key : settings.daemons[k] # Null}
    [] section = "ports"   -> {p \in Port : settings.ports[p] # Null}

\* beginGroup() and allKeys(), with the prefix g before it.
Enter(section, g) ==
  /\ pc' = section
  /\ group' = Append(g, section)
  /\ todo' = IF g = <<>> THEN KeysOf(section) ELSE {}

EndGroup == SubSeq(group, 1, Len(group) - 1)

BeginReload ==
  /\ pc = "idle" /\ lock = Null
  /\ \A d \in Daemon : Len(queue[d]) < MaxQueue
  /\ Cardinality(FreeDaemons) >= Cardinality({k \in Key : daemons[k] = Null})
  /\ lock' = "main"
  /\ stale' = FALSE
  /\ Enter("preload", group)
  /\ UNCHANGED <<settings, asked, stack, modules, daemonVars, routeVars, reading, conf, workVars>>

-----------------------------------------------------------------------------
(* modprobe().  The stack holds the calls under way.                        *)

Top == stack[Len(stack)]
Pop == SubSeq(stack, 1, Len(stack) - 1)

Probe(x) == stack' = IF x \in modules THEN <<>> ELSE <<x>>

\* What stops the module x: QLibrary::load() names a missing symbol, and when
\* the module that has it is loaded the load is tried again; then
\* pinetd_preload() probes one module after the other.
Missing(x) == (IF Needs[x] \subseteq modules THEN Preloads[x] ELSE Needs[x]) \ modules

\* A call that fails makes its caller fail: all of the stack is unloaded.
Fails == stack' = <<>> /\ UNCHANGED modules

LoadOnce ==
  /\ stack # <<>>
  /\ \/ Missing(Top) # {} /\ Fails
     \/ /\ Missing(Top) = {}
        /\ modules' = modules \cup {Top}
        /\ stack' = Pop
  /\ UNCHANGED <<settingVars, pc, todo, asked, daemonVars, routeVars, configVars, workVars>>

Load ==
  /\ stack # <<>>
  /\ \/ \E y \in Missing(Top) : stack' = Append(stack, y) /\ UNCHANGED modules
     \/ /\ Missing(Top) = {} /\ Top \notin Broken
        /\ modules' = modules \cup {Top}
        /\ stack' = Pop
     \/ Top \in Broken /\ Fails
  /\ UNCHANGED <<settingVars, pc, todo, asked, daemonVars, routeVars, configVars, workVars>>

-----------------------------------------------------------------------------
(* The sections of reloadConfig().                                          *)

Free(section) == pc = section /\ stack = <<>> /\ asked = Null

AskModule(x) ==
  /\ Free("preload") /\ x \in todo
  /\ todo' = todo \ {x}
  /\ Probe(x)
  /\ UNCHANGED <<settingVars, pc, asked, modules, daemonVars, routeVars, configVars, workVars>>

\* A daemon that is there already is left alone, whatever its module.
AskDaemon(k) ==
  /\ Free("daemons") /\ k \in todo
  /\ todo' = todo \ {k}
  /\ IF daemons[k] # Null THEN UNCHANGED <<asked, stack>>
     ELSE asked' = k /\ Probe(settings.daemons[k])
  /\ UNCHANGED <<settingVars, pc, modules, daemonVars, routeVars, configVars, workVars>>

\* modprobe() returned, true if the module is there: pinetd_instanciate(), and
\* a thread for the new object.
Instanciate ==
  /\ asked # Null /\ stack = <<>>
  /\ asked' = Null
  /\ IF settings.daemons[asked] \in modules \cap Factory
     THEN LET d == CHOOSE free \in FreeDaemons : TRUE
          IN /\ FreeDaemons # {}
             /\ daemons' = [daemons EXCEPT ![asked] = d]
             /\ keyOf' = [keyOf EXCEPT ![d] = asked]
             /\ inst' = [inst EXCEPT ![d] = "running"]
             /\ UNCHANGED aborted
     ELSE UNCHANGED daemonVars
  /\ UNCHANGED <<settingVars, pc, todo, stack, modules, routeVars, configVars, workVars>>

EndPreload ==
  /\ Free("preload") /\ todo = {}
  /\ Enter("daemons", EndGroup)
  /\ UNCHANGED <<settingVars, asked, stack, modules, daemonVars, routeVars, lock, reading, conf,
                 workVars>>

\* The daemons that are no longer configured are deleted by their own thread.
EndDaemons ==
  /\ Free("daemons") /\ todo = {}
  /\ LET gone == {k \in Key : settings.daemons[k] = Null /\ daemons[k] # Null}
         dead == {daemons[k] : k \in gone}
     IN /\ daemons' = [k \in Key |-> IF k \in gone THEN Null ELSE daemons[k]]
        /\ inst' = [d \in Daemon |-> IF d \in dead THEN "dying" ELSE inst[d]]
        /\ queue' = [d \in Daemon |-> IF d \in dead THEN Append(queue[d], "delete")
                                                    ELSE queue[d]]
  /\ Enter("ports", EndGroup)
  /\ UNCHANGED <<settingVars, asked, stack, modules, keyOf, routeVars, lock, reading, conf,
                 inCharge, served, aborted>>

GetDaemon(k) == daemons[k]

\* setTarget(): the signals of port p go to t and to nobody else.
SetTargetConnects(p, t) ==
  /\ receiver' = [receiver EXCEPT ![p] = t]
  /\ links' = IF t \in {Null, receiver[p]} THEN links
              ELSE [links EXCEPT ![p][t] = @ + 1]
SetTargetSkipsNull(p, t) ==
  /\ receiver' = [receiver EXCEPT ![p] = IF t = Null /\ @ # Unbound THEN @ ELSE t]
  /\ links' = IF t \in {Null, receiver[p]} THEN links
              ELSE [links EXCEPT ![p] = [None EXCEPT ![t] = 1]]
SetTarget(p, t) ==
  /\ receiver' = [receiver EXCEPT ![p] = t]
  /\ links' = IF t = receiver[p] THEN links
              ELSE LET rest == [d \in Daemon |-> IF d = receiver[p] THEN 0 ELSE links[p][d]]
                   IN [links EXCEPT ![p] = IF t = Null THEN rest
                                           ELSE [rest EXCEPT ![t] = @ + 1]]

\* A port that is bound gets its target again; another one may fail to bind.
Route(p) ==
  /\ Free("ports") /\ p \in todo
  /\ todo' = todo \ {p}
  /\ \/ SetTarget(p, GetDaemon(settings.ports[p]))
     \/ receiver[p] = Unbound /\ UNCHANGED <<receiver, links>>
  /\ UNCHANGED <<settingVars, pc, asked, stack, modules, daemonVars, notices, configVars,
                 workVars>>

\* The ports that are no longer configured are deleted; settings_lock is freed.
EndPorts ==
  /\ Free("ports") /\ todo = {}
  /\ receiver' = [p \in Port |-> IF settings.ports[p] = Null THEN Unbound ELSE receiver[p]]
  /\ links' = [p \in Port |-> IF settings.ports[p] = Null THEN None ELSE links[p]]
  /\ group' = EndGroup
  /\ lock' = Null
  /\ pc' = "emit"
  /\ UNCHANGED <<settingVars, loadVars, daemonVars, notices, reading, conf, workVars>>

\* reloadDaemons(): every daemon that is still connected reloads.
EmitToNew ==
  /\ pc = "emit"
  /\ queue' = [d \in Daemon |-> IF inst[d] = "running" /\ conf[d] = Unread
                                THEN Append(queue[d], "reload") ELSE queue[d]]
  /\ pc' = "idle"
  /\ UNCHANGED <<settingVars, loadVars, daemonVars, routeVars, configVars, inCharge, served>>

Emit ==
  /\ pc = "emit"
  /\ queue' = [d \in Daemon |-> IF inst[d] \in {"running", "dying"}
                                THEN Append(queue[d], "reload") ELSE queue[d]]
  /\ pc' = "idle"
  /\ UNCHANGED <<settingVars, loadVars, daemonVars, routeVars, configVars, inCharge, served>>

-----------------------------------------------------------------------------
(* The threads of the daemons.                                              *)

\* d's thread is at its event loop and ev is the next event.
Next1(d, ev) ==
  /\ inst[d] \in {"running", "dying"} /\ reading[d] = "no"
  /\ queue[d] # <<>> /\ Head(queue[d]) = ev

TakeEvent(d) == queue' = [queue EXCEPT ![d] = Tail(@)]

\* Daemon::reload() calls getConfig().
DaemonReload(d) ==
  /\ Next1(d, "reload")
  /\ TakeEvent(d)
  /\ reading' = [reading EXCEPT ![d] = "waits"]
  /\ UNCHANGED <<settingVars, pc, loadVars, daemonVars, routeVars, lock, group, conf, inCharge,
                 served>>

\* settings_lock.lock() and beginGroup().
BeginGroupUnlocked(d) ==
  /\ reading[d] = "waits"
  /\ lock' = lock
  /\ group' = Append(group, keyOf[d])
  /\ reading' = [reading EXCEPT ![d] = "holds"]
  /\ UNCHANGED <<settingVars, pc, loadVars, daemonVars, routeVars, conf, workVars>>
BeginGroup(d) ==
  /\ reading[d] = "waits" /\ lock = Null
  /\ lock' = d
  /\ group' = Append(group, keyOf[d])
  /\ reading' = [reading EXCEPT ![d] = "holds"]
  /\ UNCHANGED <<settingVars, pc, loadVars, daemonVars, routeVars, conf, workVars>>

\* The values under the prefix g.
ValuesUnder(g) == IF Len(g) = 1 /\ g[1] \in Key THEN <<g[1], settings.conf[g[1]]>> ELSE Empty

\* allKeys(), value(), endGroup() and unlock().
GetConfigKeepsLock(d) ==
  /\ reading[d] = "holds"
  /\ conf' = [conf EXCEPT ![d] = ValuesUnder(group)]
  /\ group' = EndGroup
  /\ lock' = lock
  /\ reading' = [reading EXCEPT ![d] = "no"]
  /\ UNCHANGED <<settingVars, pc, loadVars, daemonVars, routeVars, workVars>>
GetConfig(d) ==
  /\ reading[d] = "holds"
  /\ conf' = [conf EXCEPT ![d] = ValuesUnder(group)]
  /\ group' = EndGroup
  /\ lock' = Null
  /\ reading' = [reading EXCEPT ![d] = "no"]
  /\ UNCHANGED <<settingVars, pc, loadVars, daemonVars, routeVars, workVars>>

\* incomingTcp() or incomingDatagram().
Serve(d, c) ==
  /\ Next1(d, c)
  /\ TakeEvent(d)
  /\ served' = [served EXCEPT ![c] = @ \cup {d}]
  /\ UNCHANGED <<settingVars, pc, loadVars, daemonVars, routeVars, configVars, inCharge>>

\* The deferred delete: ~QObject emits destroyed(), for the ports that are
\* still connected to it, and then deletes its children.
DeleteDaemon(d) ==
  /\ Next1(d, "delete")
  /\ queue' = [queue EXCEPT ![d] = <<>>]
  /\ inst' = [inst EXCEPT ![d] = "deleting"]
  /\ notices' = notices \cup {<<p, d>> : p \in {q \in Port : links[q][d] > 0}}
  /\ links' = [p \in Port |-> [links[p] EXCEPT ![d] = 0]]
  /\ UNCHANGED <<settingVars, pc, loadVars, daemons, keyOf, receiver, configVars, inCharge,
                 served, aborted>>

\* One child is the thread that runs this: "QThread: Destroyed while thread is
\* still running" is fatal.  run_pinetd.sh starts the program again, at Init.
QThreadDestroyed(d) ==
  /\ inst[d] = "deleting"
  /\ aborted' = TRUE
  /\ UNCHANGED <<settingVars, pc, loadVars, daemons, keyOf, inst, routeVars, configVars, workVars>>

-----------------------------------------------------------------------------
(* The main event loop.                                                     *)

TargetDestroyed(p, d) ==
  /\ pc = "idle" /\ <<p, d>> \in notices
  /\ notices' = notices \ {<<p, d>>}
  /\ IF receiver[p] = d THEN SetTarget(p, Null) ELSE UNCHANGED <<receiver, links>>
  /\ UNCHANGED <<settingVars, pc, loadVars, daemonVars, configVars, workVars>>

\* incomingConnection(), receiveDatagram() or message(): without a receiver
\* the socket is closed, the datagram lost.
Incoming(p, c) ==
  /\ pc = "idle" /\ receiver[p] # Unbound /\ inCharge[c] = Unbound
  /\ \A d \in Daemon : Len(queue[d]) < MaxQueue
  /\ inCharge' = [inCharge EXCEPT ![c] = receiver[p]]
  /\ queue' = [d \in Daemon |-> IF links[p][d] > 0 THEN queue[d] \o [i \in 1..links[p][d] |-> c]
                                ELSE queue[d]]
  /\ UNCHANGED <<settingVars, pc, loadVars, daemonVars, routeVars, configVars, served>>

Reloading ==
  \/ BeginReload
  \/ \E x \in Module : AskModule(x)
  \/ Load
  \/ EndPreload
  \/ \E k \in Key : AskDaemon(k)
  \/ Instanciate
  \/ EndDaemons
  \/ \E p \in Port : Route(p)
  \/ EndPorts
  \/ Emit

DaemonStep(d) ==
  \/ DaemonReload(d)
  \/ BeginGroup(d)
  \/ GetConfig(d)
  \/ \E c \in Conn : Serve(d, c)
  \/ DeleteDaemon(d)
  \/ QThreadDestroyed(d)

Next ==
  /\ ~aborted
  /\ \/ SettingsSync
     \/ Reloading
     \/ \E d \in Daemon : DaemonStep(d)
     \/ \E p \in Port, d \in Daemon : TargetDestroyed(p, d)
     \/ \E p \in Port, c \in Conn : Incoming(p, c)

Spec == Init /\ [][Next]_vars
-----------------------------------------------------------------------------
(* Properties.                                                              *)

Event == Conn \cup {"reload", "delete"}

InSection == pc \in {"preload", "daemons", "ports"}

TypeOK ==
  /\ settings \in Settings /\ stale \in BOOLEAN
  /\ pc \in {"idle", "preload", "daemons", "ports", "emit"}
  /\ todo \subseteq IF InSection THEN KeysOf(pc) ELSE {}
  /\ asked \in Key \cup {Null} /\ (asked # Null => pc = "daemons" /\ asked \in KeysOf(pc))
  /\ stack \in Seq(Module) /\ (~InSection => stack = <<>>)
  /\ modules \subseteq Module
  /\ daemons \in [Key -> Daemon \cup {Null}]
  /\ keyOf \in [Daemon -> Key \cup {Null}]
  /\ inst \in [Daemon -> {"free", "running", "dying", "deleting"}]
  /\ receiver \in [Port -> Daemon \cup {Null, Unbound}]
  /\ links \in [Port -> [Daemon -> Nat]]
  /\ notices \subseteq Port \X Daemon
  /\ lock \in Daemon \cup {"main", Null} /\ (lock = "main" <=> InSection)
  /\ group \in Seq(Key \cup {"preload", "daemons", "ports"})
  /\ queue \in [Daemon -> Seq(Event)]
  /\ reading \in [Daemon -> {"no", "waits", "holds"}]
  /\ conf \in [Daemon -> (Key \cup {Null}) \X Nat]
  /\ inCharge \in [Conn -> Daemon \cup {Null, Unbound}]
  /\ served \in [Conn -> SUBSET Daemon]
  /\ aborted \in BOOLEAN

\* A module can be loaded when it and everything it depends on, at any depth,
\* works.
Loadable(x) ==
  \E S \in SUBSET (Module \ Broken) : x \in S /\ \A y \in S : DependsOn(y) \subseteq S

\* modprobe() (Core.cpp:260-317), which follows the linker's complaints and the
\* preload callbacks, loads what was asked of it exactly when that can be
\* loaded, and whatever an attempt that failed leaves loaded is complete.
ModprobeRight ==
  /\ stack = <<>> =>
       LET done == IF pc = "preload" THEN settings.preload \ todo
                   ELSE IF asked # Null THEN {settings.daemons[asked]} ELSE {}
       IN \A x \in done : x \in modules <=> Loadable(x)
  /\ \A x \in modules : DependsOn(x) \subseteq modules

\* Whatever getConfig() interleaves with (reloadConfig(), other daemons), a
\* daemon gets the values of its own section (Core.cpp:246-258).
OwnConfig == \A d \in Daemon : conf[d] # Unread => conf[d][1] = keyOf[d]

\* README.md: "Each time a new connection happens, the connection is passed to
\* the class currently in charge": it waits for, or was given to, that daemon
\* alone, however often its port was given other targets (setTarget()).
Waiting(c) == {d \in Daemon : \E i \in DOMAIN queue[d] : queue[d][i] = c}

RoutedOnce ==
  \A c \in Conn :
    /\ Waiting(c) \cup served[c] \subseteq {inCharge[c]}
    /\ served[c] # {} => Waiting(c) = {}
    /\ \A d \in Daemon : \A i, j \in DOMAIN queue[d] : queue[d][i] = c /\ queue[d][j] = c => i = j

\* After reloadConfig() each bound port is in the settings and its receiver is
\* the daemon that they name, or nobody if that one is not loaded; none is left
\* with a daemon that was removed.
RoutesCurrent ==
  pc = "idle" /\ ~stale =>
    \A p \in Port : receiver[p] # Unbound =>
      /\ settings.ports[p] # Null
      /\ receiver[p] = daemons[settings.ports[p]]
      /\ receiver[p] # Null => inst[receiver[p]] = "running"

-----------------------------------------------------------------------------
(* Liveness: each thread goes on while it is not blocked, and settings_lock *)
(* is granted to a thread that keeps finding it free.                       *)

Fairness ==
  /\ WF_vars(Reloading /\ pc # "idle")
  /\ \A d \in Daemon : /\ WF_vars(DaemonReload(d) \/ GetConfig(d) \/ \E c \in Conn : Serve(d, c))
                       /\ SF_vars(BeginGroup(d))

FairSpec == Spec /\ Fairness

\* A reload reaches every daemon: it has read the settings in the end, unless
\* they change again or the process aborts.
ConfigReaches ==
  \A d \in Daemon :
    pc = "emit" /\ inst[d] = "running" ~>
      aborted \/ stale \/ inst[d] # "running"
      \/ (inst[d] = "running" /\ conf[d] = <<keyOf[d], settings.conf[keyOf[d]]>>)

\* No daemon waits for settings_lock forever: what was queued for it is served.
Handled ==
  \A c \in Conn, d \in Daemon : inCharge[c] = d ~> aborted \/ inst[d] # "running" \/ d \in served[c]
=============================================================================
