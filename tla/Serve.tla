------------------------------- MODULE Serve -------------------------------
(***************************************************************************)
(* The life of `tuner serve` processes on one host, cmd/tuner and          *)
(* mdns.Advertiser: the two listeners found by scanning ports, the mDNS    *)
(* record that names one of them, and the shutdown after a signal, where   *)
(* the context's goroutine and a deferred call both stop the advertiser    *)
(* without a lock.                                                         *)
(*                                                                         *)
(* What the process does between start and signal is left to the other     *)
(* modules.  The health server's handlers end by themselves; a broadcast   *)
(* connection is told apart by what ends it.                               *)
(***************************************************************************)
EXTENDS Naturals, FiniteSets

CONSTANTS
  Tuners,         \* the processes
  healthPort,     \* port of cfg.Health.ListenAddr
  broadcastPort,  \* port of cfg.Broadcast.Listen
  maxRetries,     \* bindWithRetry: how many higher ports are tried
  Grace,          \* the timeout of a server's Shutdown
  Others,         \* the ports other programs of the host may listen on
  Other, None

Ports == healthPort .. broadcastPort + maxRetries

(* The callers of Advertiser.Shutdown: Start's goroutine and the defer. *)
Callers == {"ctx", "main"}

(* Who can listen on a port, and as what. *)
Listeners ==      [by : Tuners, as : {"health", "broadcast"}]
             \cup [by : {Other}, as : {"other"}]

ASSUME ServeAssumption ==
  /\ healthPort \in Nat \ {0} /\ broadcastPort \in Nat \ {0} /\ maxRetries \in Nat
  /\ healthPort <= broadcastPort
  /\ Grace \in Nat \ {0}
  /\ Others \subseteq Ports
  /\ None \notin Tuners \cup Callers /\ Other \notin Tuners /\ Other # None
  /\ None \notin Listeners

(* A connection ends with its handler or its client, except the heartbeat   *)
(* stream, whose loop never looks at the request.                           *)
Connections == {"ending", "heartbeat"}

VARIABLES
  mode,     \* cfg.Mode
  pc,       \* where main is
  tried,    \* bindWithRetry: i
  listener, \* external: who listens on each port of the host, and as what
  bound,    \* the port bindWithRetry returned for the broadcast server
  done,     \* ctx.Done() is closed
  conns,    \* the kinds of connection a stopping broadcast server still has
  left,     \* what is left of shutCtx
  server,   \* Advertiser.server is set
  zeroconf, \* external: the zeroconf server, "up" to "down"
  zcLock,   \* external: its shutdownLock: who holds it
  shut,     \* where each call of Advertiser.Shutdown is
  record    \* external: the mDNS record of each process that is alive

vars == <<mode, pc, tried, listener, bound, done, conns, left, server, zeroconf, zcLock,
          shut, record>>

Running == {"bindHealth", "bindBroadcast", "advertise", "serving", "stopBroadcast",
            "stopHealth", "defers"}

Init ==
  /\ mode \in [Tuners -> {"broadcast", "receive"}]
  /\ pc       = [t \in Tuners |-> "off"]
  /\ tried    = [t \in Tuners |-> 0]
  /\ \E taken \in SUBSET Others :
       listener = [p \in Ports |->
                     IF p \in taken THEN [by |-> Other, as |-> "other"] ELSE None]
  /\ bound    = [t \in Tuners |-> None]
  /\ done     = {}
  /\ conns    = [t \in Tuners |-> {}]
  /\ left     = [t \in Tuners |-> 0]
  /\ server   = [t \in Tuners |-> FALSE]
  /\ zeroconf = [t \in Tuners |-> "none"]
  /\ zcLock   = [t \in Tuners |-> None]
  /\ shut     = [t \in Tuners |-> [k \in Callers |-> "none"]]
  /\ record   = [t \in Tuners |-> None]

-----------------------------------------------------------------------------
Goto(t, next) == pc' = [pc EXCEPT ![t] = next]

(* The process is gone: its listeners and connections with it, whatever it  *)
(* was in the middle of.                                                    *)
Ends(t) ==
  /\ Goto(t, "off")
  /\ listener' = [p \in Ports |-> IF listener[p] # None /\ listener[p].by = t
                                  THEN None ELSE listener[p]]
  /\ tried'    = [tried EXCEPT ![t] = 0]
  /\ bound'    = [bound EXCEPT ![t] = None]
  /\ done'     = done \ {t}
  /\ conns'    = [conns EXCEPT ![t] = {}]
  /\ left'     = [left EXCEPT ![t] = 0]
  /\ server'   = [server EXCEPT ![t] = FALSE]
  /\ zeroconf' = [zeroconf EXCEPT ![t] = "none"]
  /\ zcLock'   = [zcLock EXCEPT ![t] = None]
  /\ shut'     = [shut EXCEPT ![t] = [k \in Callers |-> "none"]]
  /\ UNCHANGED mode

(* cmdServe begins: the registry, the browser and the server are made. *)
cmdServe(t) ==
  /\ pc[t] = "off"
  /\ Goto(t, "bindHealth")
  /\ UNCHANGED <<mode, tried, listener, bound, done, conns, left, server, zeroconf,
                 zcLock, shut, record>>

(* The server bindWithRetry is called for, and its first port. *)
Binding(t) == IF pc[t] = "bindHealth" THEN "health" ELSE "broadcast"
First(t)   == IF pc[t] = "bindHealth" THEN healthPort ELSE broadcastPort

(* bindWithRetry, one port: it is free and the server begins to serve. *)
BindOK(t) ==
  LET port == First(t) + tried[t]
  IN /\ pc[t] \in {"bindHealth", "bindBroadcast"}
     /\ listener[port] = None
     /\ listener' = [listener EXCEPT ![port] = [by |-> t, as |-> Binding(t)]]
     /\ tried'    = [tried EXCEPT ![t] = 0]
     /\ bound'    = IF Binding(t) = "health" THEN bound ELSE [bound EXCEPT ![t] = port]
     /\ Goto(t, IF Binding(t) = "broadcast" THEN "advertise"
                ELSE IF mode[t] = "broadcast" THEN "bindBroadcast" ELSE "serving")
     /\ UNCHANGED <<mode, done, conns, left, server, zeroconf, zcLock, shut, record>>

(* MUTANT of BindInUse: the scan goes on past maxRetries. *)
BindInUseForever(t) ==
  /\ pc[t] \in {"bindHealth", "bindBroadcast"}
  /\ tried' = [tried EXCEPT ![t] = @ + 1]
  /\ UNCHANGED <<mode, pc, listener, bound, done, conns, left, server, zeroconf, zcLock,
                 shut, record>>

(* The port is in use, or the address cannot be assigned, which isAddrInUse *)
(* takes for the same and a free port can meet: the next one is tried, and  *)
(* the last one is fatal, which runs no deferred call.                      *)
BindInUse(t) ==
  /\ pc[t] \in {"bindHealth", "bindBroadcast"}
  /\ \/ /\ tried[t] < maxRetries
        /\ tried' = [tried EXCEPT ![t] = @ + 1]
        /\ UNCHANGED <<mode, pc, listener, bound, done, conns, left, server, zeroconf,
                       zcLock, shut>>
     \/ tried[t] = maxRetries /\ Ends(t)
  /\ UNCHANGED record

(* Any other error of net.Listen is fatal at once. *)
BindFails(t) ==
  /\ pc[t] \in {"bindHealth", "bindBroadcast"}
  /\ Ends(t)
  /\ UNCHANGED record

(* MUTANT of Record: the configured port is advertised. *)
RecordConfigured(t) == [name |-> broadcastPort, port |-> broadcastPort]

(* MUTANT of Record: the instance is named after the peers known by then.   *)
RecordCounted(t) == [name |-> 0, port |-> bound[t]]

(* The record: the instance is named after the port. *)
Record(t) == [name |-> bound[t], port |-> bound[t]]

(* Advertiser.Start: the record is registered and a goroutine waits for the *)
(* context; or registering fails and serving goes on without.               *)
AdvertiserStart(t) ==
  /\ pc[t] = "advertise"
  /\ Goto(t, "serving")
  /\ record'   = [record EXCEPT ![t] = Record(t)]
  /\ server'   = [server EXCEPT ![t] = TRUE]
  /\ zeroconf' = [zeroconf EXCEPT ![t] = "up"]
  /\ shut'     = [shut EXCEPT ![t]["ctx"] = "wait"]
  /\ UNCHANGED <<mode, tried, listener, bound, done, conns, left, zcLock>>

AdvertiserFails(t) ==
  /\ pc[t] = "advertise"
  /\ Goto(t, "serving")
  /\ UNCHANGED <<mode, tried, listener, bound, done, conns, left, server, zeroconf, zcLock,
                 shut, record>>

(* SIGINT or SIGTERM at any time: the context is canceled, and a second     *)
(* signal changes nothing.                                                  *)
Signal(t) ==
  /\ pc[t] \in Running
  /\ t \notin done
  /\ done' = done \cup {t}
  /\ UNCHANGED <<mode, pc, tried, listener, bound, conns, left, server, zeroconf, zcLock,
                 shut, record>>

(* The process is killed.  What the network remembers of its record is      *)
(* Browser's concern.                                                       *)
Crash(t) ==
  /\ pc[t] \in Running
  /\ Ends(t)
  /\ record' = [record EXCEPT ![t] = None]

-----------------------------------------------------------------------------
(* main: <-ctx.Done(), then Shutdown of the broadcast server, which closes  *)
(* its listener and waits for the connections it has then.                  *)
BeginShutdown(t) ==
  /\ pc[t] = "serving"
  /\ t \in done
  /\ Goto(t, IF mode[t] = "broadcast" THEN "stopBroadcast" ELSE "stopHealth")
  /\ listener' = [p \in Ports |-> IF listener[p] = [by |-> t, as |-> "broadcast"]
                                  THEN None ELSE listener[p]]
  /\ \E open \in SUBSET Connections :
       conns' = [conns EXCEPT ![t] = IF mode[t] = "broadcast" THEN open ELSE {}]
  /\ left' = [left EXCEPT ![t] = Grace]
  /\ UNCHANGED <<mode, tried, bound, done, server, zeroconf, zcLock, shut, record>>

(* A connection that can end does. *)
Disconnect(t, c) ==
  /\ c \in conns[t] \ {"heartbeat"}
  /\ conns' = [conns EXCEPT ![t] = @ \ {c}]
  /\ UNCHANGED <<mode, pc, tried, listener, bound, done, left, server, zeroconf, zcLock,
                 shut, record>>

(* MUTANT of BroadcastStopped: Shutdown is called without a deadline. *)
BroadcastStoppedWhenIdle(t) ==
  /\ pc[t] = "stopBroadcast"
  /\ conns[t] = {}
  /\ Goto(t, "stopHealth")
  /\ conns' = [conns EXCEPT ![t] = {}]
  /\ left'  = [left EXCEPT ![t] = 0]
  /\ UNCHANGED <<mode, tried, listener, bound, done, server, zeroconf, zcLock, shut, record>>

(* Shutdown returns: every connection has ended, or the deadline has come.  *)
BroadcastStopped(t) ==
  /\ pc[t] = "stopBroadcast"
  /\ conns[t] = {} \/ left[t] = 0
  /\ Goto(t, "stopHealth")
  /\ conns' = [conns EXCEPT ![t] = {}]
  /\ left'  = [left EXCEPT ![t] = 0]
  /\ UNCHANGED <<mode, tried, listener, bound, done, server, zeroconf, zcLock, shut, record>>

(* Time passes for main while it waits. *)
Tick(t) ==
  /\ pc[t] = "stopBroadcast"
  /\ left[t] > 0
  /\ left' = [left EXCEPT ![t] = @ - 1]
  /\ UNCHANGED <<mode, pc, tried, listener, bound, done, conns, server, zeroconf, zcLock,
                 shut, record>>

(* The health server is shut down and cmdServe returns: in broadcast mode   *)
(* its deferred calls end with Advertiser.Shutdown.                         *)
StopHealth(t) ==
  /\ pc[t] = "stopHealth"
  /\ IF mode[t] = "broadcast"
     THEN /\ Goto(t, "defers")
          /\ shut' = [shut EXCEPT ![t]["main"] = "check"]
          /\ listener' = [p \in Ports |-> IF listener[p] = [by |-> t, as |-> "health"]
                                          THEN None ELSE listener[p]]
          /\ UNCHANGED <<mode, tried, bound, done, conns, left, server, zeroconf, zcLock>>
     ELSE Ends(t)
  /\ UNCHANGED record

-----------------------------------------------------------------------------
(* The context's goroutine wakes up and calls Shutdown. *)
CtxDone(t) ==
  /\ shut[t]["ctx"] = "wait"
  /\ t \in done
  /\ shut' = [shut EXCEPT ![t]["ctx"] = "check"]
  /\ UNCHANGED <<mode, pc, tried, listener, bound, done, conns, left, server, zeroconf,
                 zcLock, record>>

(* MUTANT of ShutdownCheck: a.server is cleared before it is shut down.     *)
ShutdownCheckClears(t, k) ==
  /\ shut[t][k] = "check"
  /\ shut'   = [shut EXCEPT ![t][k] = IF server[t] THEN "lock" ELSE "done"]
  /\ server' = [server EXCEPT ![t] = FALSE]
  /\ UNCHANGED <<mode, pc, tried, listener, bound, done, conns, left, zeroconf, zcLock,
                 record>>

(* Shutdown: if a.server != nil. *)
ShutdownCheck(t, k) ==
  /\ shut[t][k] = "check"
  /\ shut' = [shut EXCEPT ![t][k] = IF server[t] THEN "call" ELSE "done"]
  /\ UNCHANGED <<mode, pc, tried, listener, bound, done, conns, left, server, zeroconf,
                 zcLock, record>>

(* a.server is read again for the call, without synchronisation: when the   *)
(* other caller has cleared it, the compiled code may still hold the old    *)
(* value, or call through nil and panic.                                    *)
ShutdownCall(t, k) ==
  /\ shut[t][k] = "call"
  /\ \/ /\ shut' = [shut EXCEPT ![t][k] = "lock"]
        /\ UNCHANGED <<mode, pc, tried, listener, bound, done, conns, left, server, zeroconf,
                       zcLock>>
     \/ ~server[t] /\ Ends(t)
  /\ UNCHANGED record

(* External: zeroconf's Shutdown takes its lock, and returns at once when   *)
(* it has run before.                                                       *)
ZeroconfEnter(t, k) ==
  /\ shut[t][k] = "lock"
  /\ zcLock[t] = None
  /\ IF zeroconf[t] = "down"
     THEN shut' = [shut EXCEPT ![t][k] = "clear"] /\ UNCHANGED zcLock
     ELSE shut' = [shut EXCEPT ![t][k] = "closing"] /\ zcLock' = [zcLock EXCEPT ![t] = k]
  /\ UNCHANGED <<mode, pc, tried, listener, bound, done, conns, left, server, zeroconf,
                 record>>

(* External: the goodbye is sent, which withdraws the record. *)
ZeroconfClose(t, k) ==
  /\ shut[t][k] = "closing"
  /\ record'   = [record EXCEPT ![t] = None]
  /\ zeroconf' = [zeroconf EXCEPT ![t] = "down"]
  /\ zcLock'   = [zcLock EXCEPT ![t] = None]
  /\ shut'     = [shut EXCEPT ![t][k] = "clear"]
  /\ UNCHANGED <<mode, pc, tried, listener, bound, done, conns, left, server>>

(* a.server = nil. *)
ShutdownClear(t, k) ==
  /\ shut[t][k] = "clear"
  /\ server' = [server EXCEPT ![t] = FALSE]
  /\ shut'   = [shut EXCEPT ![t][k] = "done"]
  /\ UNCHANGED <<mode, pc, tried, listener, bound, done, conns, left, zeroconf, zcLock,
                 record>>

(* The deferred calls are over and the process ends. *)
Exit(t) ==
  /\ pc[t] = "defers"
  /\ shut[t]["main"] = "done"
  /\ Ends(t)
  /\ UNCHANGED record

Main(t) ==
  \/ BindOK(t) \/ BindInUse(t) \/ BindFails(t) \/ AdvertiserStart(t) \/ AdvertiserFails(t)
  \/ BeginShutdown(t) \/ BroadcastStopped(t) \/ Tick(t) \/ StopHealth(t) \/ Exit(t)
Shutdown(t, k) ==
  \/ ShutdownCheck(t, k) \/ ShutdownCall(t, k) \/ ZeroconfEnter(t, k)
  \/ ZeroconfClose(t, k) \/ ShutdownClear(t, k)

Next ==
  \/ \E t \in Tuners : \/ cmdServe(t) \/ Main(t) \/ Signal(t) \/ Crash(t) \/ CtxDone(t)
                       \/ \E k \in Callers : Shutdown(t, k)
                       \/ \E c \in Connections : Disconnect(t, c)

Spec == Init /\ [][Next]_vars

(* Goroutines are scheduled; nothing makes a connection end. *)
Fairness == \A t \in Tuners : /\ WF_vars(Main(t)) /\ WF_vars(CtxDone(t))
                              /\ \A k \in Callers : WF_vars(Shutdown(t, k))
FairSpec == Spec /\ Fairness

-----------------------------------------------------------------------------
(* The type invariant: zeroconf's lock is held by the caller closing it.    *)
TypeOK ==
  /\ mode \in [Tuners -> {"broadcast", "receive"}]
  /\ pc \in [Tuners -> Running \cup {"off"}]
  /\ tried \in [Tuners -> 0 .. maxRetries]
  /\ listener \in [Ports -> Listeners \cup {None}]
  /\ bound \in [Tuners -> Ports \cup {None}]
  /\ done \subseteq Tuners
  /\ conns \in [Tuners -> SUBSET Connections]
  /\ left \in [Tuners -> 0 .. Grace]
  /\ server \in [Tuners -> BOOLEAN]
  /\ zeroconf \in [Tuners -> {"none", "up", "down"}]
  /\ zcLock \in [Tuners -> Callers \cup {None}]
  /\ shut \in [Tuners -> [Callers -> {"none", "wait", "check", "call", "lock", "closing",
                                      "clear", "done"}]]
  /\ record \in [Tuners -> [name : Ports, port : Ports] \cup {None}]
  /\ \A t \in Tuners, k \in Callers : zcLock[t] = k <=> shut[t][k] = "closing"

Advertising == {t \in Tuners \ done : record[t] # None}

(* "Bind broadcast port first so we advertise the actual address via mDNS"  *)
(* (cmdServe): the record of a tuner that has not been told to stop names a *)
(* port its own broadcast server listens on, however many tuners scan the   *)
(* same ports for their health and broadcast servers at the same time.      *)
AdvertisedIsServed ==
  \A t \in Advertising : listener[record[t].port] = [by |-> t, as |-> "broadcast"]

(* "The instance label is the bound port", not a count "which makes two     *)
(* tuners advertise the same instance name" (cmdServe): no two tuners that  *)
(* run on a host and have not been told to stop do.                         *)
NamesDiffer == \A t, u \in Advertising : record[t].name = record[u].name => t = u

(* A tuner that ends by itself has withdrawn its record, whichever caller   *)
(* of Shutdown came first, wherever the signal found it and even when       *)
(* their race ends in a panic (Advertiser.Start, Shutdown, cmdServe).       *)
WithdrawnAtExit == \A t \in Tuners : pc[t] = "off" => record[t] = None

(* A signal ends the process, although the heartbeat stream never ends and  *)
(* both callers of Shutdown wait for one lock (cmdServe, handleChannelSSE). *)
SignalEndsProcess == \A t \in Tuners : t \in done ~> pc[t] = "off"
=============================================================================
