---------------------------- MODULE ServeProofs ----------------------------
(***************************************************************************)
(* Theorems about Serve for every number of tuners on the host, every      *)
(* choice of ports and retries, and every port held by another program.    *)
(***************************************************************************)
EXTENDS Serve, TLAPS

(* Main has not advertised: no zeroconf server, no caller of Shutdown. *)
Early == {"off", "bindHealth", "bindBroadcast", "advertise"}

(* Main has seen the signal. *)
Stopping == {"stopBroadcast", "stopHealth", "defers"}

(* Before Advertiser.Start nothing of the advertiser exists. *)
NothingYet(t) ==
  pc[t] \in Early =>
    /\ zeroconf[t] = "none" /\ ~server[t] /\ zcLock[t] = None
    /\ shut[t] = [k \in Callers |-> "none"]

(* Main follows the mode, stops only on a signal, and calls Shutdown last. *)
MainFollows(t) ==
  /\ pc[t] \in {"bindBroadcast", "advertise", "stopBroadcast", "defers"} =>
       mode[t] = "broadcast"
  /\ pc[t] \in Stopping => t \in done
  /\ pc[t] # "defers" => shut[t]["main"] = "none"

(* The broadcast server's listener is there from its bind to its shutdown. *)
BroadcastServed(t) ==
  mode[t] = "broadcast" /\ pc[t] \in {"advertise", "serving"} =>
    bound[t] \in Ports /\ listener[bound[t]] = [by |-> t, as |-> "broadcast"]

(* A record is there only while its zeroconf server is up, which a.server   *)
(* then still points to, and names the bound port.                          *)
RecordBacked(t) ==
  /\ record[t] # None => /\ zeroconf[t] = "up" /\ mode[t] = "broadcast"
                         /\ record[t] = Record(t)
  /\ zeroconf[t] = "up" => server[t]

(* A caller past zeroconf's Shutdown has left it down. *)
DownWhenCleared(t) ==
  /\ \A k \in Callers : shut[t][k] = "clear" => zeroconf[t] = "down"
  /\ shut[t]["main"] = "done" => zeroconf[t] # "up"

Inv(t) == /\ NothingYet(t) /\ MainFollows(t) /\ BroadcastServed(t)
          /\ RecordBacked(t) /\ DownWhenCleared(t)

(* The inductive invariant. *)
IInv == TypeOK /\ \A t \in Tuners : Inv(t)

-----------------------------------------------------------------------------
(* What a step of one tuner leaves alone for another one. *)
Untouched(u) ==
  /\ mode'[u] = mode[u] /\ pc'[u] = pc[u] /\ bound'[u] = bound[u]
  /\ u \in done => u \in done'
  /\ server'[u] = server[u] /\ zeroconf'[u] = zeroconf[u] /\ zcLock'[u] = zcLock[u]
  /\ shut'[u] = shut[u] /\ record'[u] = record[u]
  /\ \A p \in Ports : listener[p] = [by |-> u, as |-> "broadcast"] => listener'[p] = listener[p]

LEMMA UntouchedKeeps ==
  ASSUME NEW u \in Tuners, Inv(u), Untouched(u)
  PROVE  Inv(u)'
BY DEF Inv, Untouched, NothingYet, MainFollows, BroadcastServed, RecordBacked, Record,
       DownWhenCleared

(* Every port bindWithRetry tries is a port of the host. *)
LEMMA ScanInPorts ==
  ASSUME TypeOK, NEW t \in Tuners
  PROVE  First(t) + tried[t] \in Ports
BY ServeAssumption DEF TypeOK, First, Ports

(* The values of the state that only this module names. *)
Records == [name : Ports, port : Ports] \cup {None}
CallStates == {"none", "wait", "check", "call", "lock", "closing", "clear", "done"}

(* A process that ends leaves nothing of its state behind but its record,   *)
(* and touches no other process.                                            *)
LEMMA EndsTypes ==
  ASSUME TypeOK, NEW t \in Tuners, Ends(t), record' \in [Tuners -> Records]
  PROVE  TypeOK'
<1>1. listener' \in [Ports -> Listeners \cup {None}]
  BY DEF Ends, TypeOK
<1>2. 0 \in 0 .. maxRetries /\ 0 \in 0 .. Grace
  BY ServeAssumption
<1>3. /\ zcLock' \in [Tuners -> Callers \cup {None}]
      /\ shut' \in [Tuners -> [Callers -> CallStates]]
  BY DEF Ends, TypeOK, CallStates
<1>4. ASSUME NEW u \in Tuners, NEW k \in Callers
      PROVE  (zcLock[u] = k <=> shut[u][k] = "closing")'
  BY <1>4, ServeAssumption DEF Ends, TypeOK
<1>5. QED
  BY <1>1, <1>2, <1>3, <1>4 DEF Ends, Goto, TypeOK, Records, CallStates

LEMMA EndsKeeps ==
  ASSUME IInv, NEW t \in Tuners, Ends(t),
         record' \in [Tuners -> Records], record'[t] = None,
         \A u \in Tuners \ {t} : record'[u] = record[u]
  PROVE  IInv'
<1>1. TypeOK'
  BY EndsTypes DEF IInv
<1>2. ASSUME NEW u \in Tuners PROVE Inv(u)'
  <2>1. CASE u = t
    <3>1. /\ pc'[t] = "off" /\ zeroconf'[t] = "none" /\ server'[t] = FALSE
          /\ zcLock'[t] = None /\ shut'[t] = [k \in Callers |-> "none"]
      BY DEF Ends, Goto, IInv, TypeOK
    <3>2. \A k \in Callers : shut'[t][k] = "none"
      BY <3>1
    <3>3. QED
      BY <2>1, <3>1, <3>2 DEF Callers, Early, Stopping, Inv, NothingYet, MainFollows,
                              BroadcastServed, RecordBacked, DownWhenCleared
  <2>2. CASE u # t
    <3>1. \A p \in Ports :
            listener[p] = [by |-> u, as |-> "broadcast"] => listener'[p] = listener[p]
      BY <2>2 DEF Ends
    <3>2. Untouched(u)
      BY <2>2, <3>1 DEF Ends, Goto, Untouched, IInv, TypeOK
    <3>3. QED
      BY <3>2, UntouchedKeeps DEF IInv
  <2>3. QED
    BY <2>1, <2>2
<1>3. QED
  BY <1>1, <1>2 DEF IInv

(* A process may end without its record being withdrawn only if it has none. *)
LEMMA EndsWithoutRecord ==
  ASSUME IInv, NEW t \in Tuners, Ends(t), record[t] = None, UNCHANGED record
  PROVE  IInv'
BY EndsKeeps DEF IInv, TypeOK, Records

-----------------------------------------------------------------------------
(* The steps of main up to serving. *)
LEMMA StartKeeps ==
  ASSUME IInv, NEW t \in Tuners, cmdServe(t)
  PROVE  IInv'
<1>1. TypeOK'
  BY DEF cmdServe, Goto, Running, IInv, TypeOK
<1>2. ASSUME NEW u \in Tuners PROVE Inv(u)'
  <2>1. CASE u = t
    <3>1. pc[t] = "off" /\ pc'[t] = "bindHealth"
      BY DEF cmdServe, Goto, IInv, TypeOK
    <3>2. Inv(t)
      BY DEF IInv
    <3>3. QED
      BY <2>1, <3>1, <3>2 DEF cmdServe, Early, Stopping, Inv, NothingYet, MainFollows,
           BroadcastServed, RecordBacked, Record, DownWhenCleared
  <2>2. CASE u # t
    BY <2>2, UntouchedKeeps DEF cmdServe, Goto, Untouched, IInv, TypeOK
  <2>3. QED
    BY <2>1, <2>2
<1>3. QED
  BY <1>1, <1>2 DEF IInv

LEMMA BindOKKeeps ==
  ASSUME IInv, NEW t \in Tuners, BindOK(t)
  PROVE  IInv'
<1> DEFINE port == First(t) + tried[t]
<1> DEFINE it == [by |-> t, as |-> Binding(t)]
<1>0. port \in Ports /\ it \in Listeners /\ listener[port] = None
  BY ScanInPorts DEF IInv, BindOK, Binding, Listeners
<1>1. listener' = [listener EXCEPT ![port] = it]
  BY DEF BindOK
<1>2. pc'[t] \in Running /\ pc' = [pc EXCEPT ![t] = pc'[t]]
  BY DEF BindOK, Goto, IInv, TypeOK, Running, Binding
<1>3. bound' \in [Tuners -> Ports \cup {None}]
  BY <1>0 DEF BindOK, IInv, TypeOK
<1>4. TypeOK'
  <2>1. 0 \in 0 .. maxRetries
    BY ServeAssumption
  <2>2. listener' \in [Ports -> Listeners \cup {None}]
    BY <1>0, <1>1 DEF IInv, TypeOK
  <2>3. pc' \in [Tuners -> Running \cup {"off"}]
    <3>1. PICK next \in Running : pc' = [pc EXCEPT ![t] = next]
      BY <1>2
    <3>2. pc \in [Tuners -> Running \cup {"off"}]
      BY DEF IInv, TypeOK
    <3>3. QED
      BY <3>1, <3>2
  <2>4. tried' \in [Tuners -> 0 .. maxRetries]
    BY <2>1 DEF BindOK, IInv, TypeOK
  <2>5. QED
    BY <2>2, <2>3, <2>4, <1>3 DEF BindOK, IInv, TypeOK
<1>5. ASSUME NEW u \in Tuners PROVE Inv(u)'
  <2>1. CASE u = t
    <3>1. CASE pc[t] = "bindHealth"
      <4>1. pc'[t] = IF mode[t] = "broadcast" THEN "bindBroadcast" ELSE "serving"
        BY <3>1 DEF BindOK, Goto, Binding, IInv, TypeOK
      <4>2. Inv(t) /\ record[t] = None
        BY <3>1 DEF IInv, Inv, NothingYet, RecordBacked, Early
      <4>3. UNCHANGED <<mode, done, server, zeroconf, zcLock, shut, record>>
        BY DEF BindOK
      <4>4. NothingYet(t)' /\ RecordBacked(t)' /\ DownWhenCleared(t)'
        BY <3>1, <4>1, <4>2, <4>3 DEF Early, Inv, NothingYet, RecordBacked, Record, DownWhenCleared
      <4>5. QED
        BY <2>1, <3>1, <4>1, <4>2, <4>3, <4>4 DEF Early, Stopping, Inv, NothingYet,
             MainFollows, BroadcastServed
    <3>2. CASE pc[t] = "bindBroadcast"
      <4>0. Binding(t) = "broadcast"
        BY <3>2 DEF Binding
      <4>1. pc'[t] = "advertise" /\ bound'[t] = port
        <5>1. bound' = [bound EXCEPT ![t] = port]
          BY <4>0 DEF BindOK
        <5>2. pc' = [pc EXCEPT ![t] = "advertise"]
          BY <4>0 DEF BindOK, Goto
        <5>3. QED
          BY <5>1, <5>2 DEF IInv, TypeOK
      <4>2. listener'[port] = [by |-> t, as |-> "broadcast"]
        BY <4>0, <1>0, <1>1 DEF IInv, TypeOK
      <4>3. record[t] = None
        BY <3>2 DEF IInv, Inv, NothingYet, RecordBacked, Early
      <4>4. QED
        BY <2>1, <3>2, <4>1, <4>2, <4>3, <1>0 DEF BindOK, IInv, TypeOK, Early, Stopping, Inv,
             NothingYet, MainFollows, BroadcastServed, RecordBacked, Record, DownWhenCleared
    <3>3. QED
      BY <3>1, <3>2 DEF BindOK
  <2>2. CASE u # t
    <3>1. \A p \in Ports :
            listener[p] = [by |-> u, as |-> "broadcast"] => listener'[p] = listener[p]
      <4> SUFFICES ASSUME NEW p \in Ports, listener[p] = [by |-> u, as |-> "broadcast"]
                   PROVE  p # port
        BY <1>1 DEF IInv, TypeOK
      <4>1. [by |-> u, as |-> "broadcast"] \in Listeners
        BY DEF Listeners
      <4>2. QED
        BY <4>1, <1>0, ServeAssumption
    <3>2. Untouched(u)
      BY <2>2, <3>1, <1>2 DEF BindOK, Untouched, IInv, TypeOK
    <3>3. QED
      BY <3>2, UntouchedKeeps DEF IInv
  <2>3. QED
    BY <2>1, <2>2
<1>6. QED
  BY <1>4, <1>5 DEF IInv

LEMMA BindInUseKeeps ==
  ASSUME IInv, NEW t \in Tuners, BindInUse(t)
  PROVE  IInv'
<1>1. CASE tried[t] < maxRetries /\ tried' = [tried EXCEPT ![t] = @ + 1] /\
           UNCHANGED <<mode, pc, listener, bound, done, conns, left, server, zeroconf,
                       zcLock, shut, record>>
  <2>1. tried' \in [Tuners -> 0 .. maxRetries]
    BY <1>1, ServeAssumption DEF IInv, TypeOK
  <2>2. TypeOK'
    BY <1>1, <2>1 DEF IInv, TypeOK
  <2>3. ASSUME NEW u \in Tuners PROVE Inv(u)'
    BY <1>1, UntouchedKeeps DEF Untouched, IInv
  <2>4. QED
    BY <2>2, <2>3 DEF IInv
<1>2. CASE Ends(t)
  <2>1. record[t] = None /\ UNCHANGED record
    BY DEF BindInUse, IInv, Inv, NothingYet, RecordBacked, Early
  <2>2. QED
    BY <1>2, <2>1, EndsWithoutRecord
<1>3. QED
  BY <1>1, <1>2 DEF BindInUse

LEMMA BindFailsKeeps ==
  ASSUME IInv, NEW t \in Tuners, BindFails(t)
  PROVE  IInv'
<1>1. record[t] = None /\ UNCHANGED record
  BY DEF BindFails, IInv, Inv, NothingYet, RecordBacked, Early
<1>2. QED
  BY <1>1, EndsWithoutRecord DEF BindFails

LEMMA AdvertiserStartKeeps ==
  ASSUME IInv, NEW t \in Tuners, AdvertiserStart(t)
  PROVE  IInv'
<1>0. /\ NothingYet(t) /\ MainFollows(t) /\ BroadcastServed(t) /\ pc[t] = "advertise"
      /\ mode[t] = "broadcast" /\ bound[t] \in Ports
      /\ zcLock[t] = None /\ \A k \in Callers : shut[t][k] = "none"
  BY DEF AdvertiserStart, IInv, Inv, NothingYet, MainFollows, BroadcastServed, Early
<1>1. /\ pc'[t] = "serving" /\ server'[t] = TRUE /\ zeroconf'[t] = "up"
      /\ record'[t] = Record(t) /\ shut'[t]["ctx"] = "wait" /\ shut'[t]["main"] = "none"
  BY <1>0 DEF AdvertiserStart, Goto, IInv, TypeOK, Callers
<1>2. TypeOK'
  <2>1. /\ pc' \in [Tuners -> Running \cup {"off"}]
        /\ server' \in [Tuners -> BOOLEAN]
        /\ zeroconf' \in [Tuners -> {"none", "up", "down"}]
    BY DEF AdvertiserStart, Goto, Running, IInv, TypeOK
  <2>2. record' \in [Tuners -> Records]
    BY <1>0 DEF AdvertiserStart, Record, Records, IInv, TypeOK
  <2>3. shut' \in [Tuners -> [Callers -> CallStates]]
    BY DEF AdvertiserStart, Callers, CallStates, IInv, TypeOK
  <2>4. ASSUME NEW u \in Tuners, NEW k \in Callers
        PROVE  (zcLock[u] = k <=> shut[u][k] = "closing")'
    <3>1. CASE u = t
      BY <3>1, <1>0, <1>1, ServeAssumption DEF AdvertiserStart, Callers
    <3>2. CASE u # t
      BY <3>2 DEF AdvertiserStart, IInv, TypeOK
    <3>3. QED
      BY <3>1, <3>2
  <2>5. QED
    BY <2>1, <2>2, <2>3, <2>4 DEF AdvertiserStart, IInv, TypeOK, Records, CallStates
<1>3. ASSUME NEW u \in Tuners PROVE Inv(u)'
  <2>1. CASE u = t
    <3>1. UNCHANGED <<mode, listener, bound, done>>
      BY DEF AdvertiserStart
    <3>2. NothingYet(t)' /\ MainFollows(t)' /\ DownWhenCleared(t)'
      BY <1>1 DEF NothingYet, MainFollows, DownWhenCleared, Early, Stopping, Callers
    <3>3. BroadcastServed(t)' /\ RecordBacked(t)'
      BY <3>1, <1>0, <1>1 DEF BroadcastServed, RecordBacked, Record
    <3>4. QED
      BY <2>1, <3>2, <3>3 DEF Inv
  <2>2. CASE u # t
    <3>1. shut'[u] = shut[u]
      BY <2>2 DEF AdvertiserStart, IInv, TypeOK
    <3>2. Untouched(u)
      BY <2>2, <3>1 DEF AdvertiserStart, Goto, Untouched, IInv, TypeOK
    <3>3. QED
      BY <3>2, UntouchedKeeps DEF IInv
  <2>3. QED
    BY <2>1, <2>2
<1>4. QED
  BY <1>2, <1>3 DEF IInv

LEMMA AdvertiserFailsKeeps ==
  ASSUME IInv, NEW t \in Tuners, AdvertiserFails(t)
  PROVE  IInv'
<1>1. Inv(t) /\ pc[t] = "advertise" /\ pc'[t] = "serving"
  BY DEF AdvertiserFails, Goto, IInv, TypeOK
<1>2. TypeOK'
  BY DEF AdvertiserFails, Goto, Running, IInv, TypeOK
<1>3. ASSUME NEW u \in Tuners PROVE Inv(u)'
  <2>1. CASE u = t
    <3>1. UNCHANGED <<mode, listener, bound, done, server, zeroconf, zcLock, shut, record>>
      BY DEF AdvertiserFails
    <3>2. NothingYet(t)' /\ MainFollows(t)' /\ BroadcastServed(t)'
      BY <1>1, <3>1 DEF Early, Stopping, Inv, NothingYet, MainFollows, BroadcastServed
    <3>3. RecordBacked(t)' /\ DownWhenCleared(t)'
      BY <1>1, <3>1 DEF Inv, RecordBacked, Record, DownWhenCleared
    <3>4. QED
      BY <2>1, <3>2, <3>3 DEF Inv
  <2>2. CASE u # t
    BY <2>2, UntouchedKeeps DEF AdvertiserFails, Goto, Untouched, IInv, TypeOK
  <2>3. QED
    BY <2>1, <2>2
<1>4. QED
  BY <1>2, <1>3 DEF IInv

-----------------------------------------------------------------------------
(* The signal, the crash and the steps of main after them. *)
LEMMA SignalKeeps ==
  ASSUME IInv, NEW t \in Tuners, Signal(t)
  PROVE  IInv'
<1>1. TypeOK'
  BY DEF Signal, IInv, TypeOK
<1>2. ASSUME NEW u \in Tuners PROVE Inv(u)'
  BY UntouchedKeeps DEF Signal, Untouched, IInv
<1>3. QED
  BY <1>1, <1>2 DEF IInv

LEMMA CrashKeeps ==
  ASSUME IInv, NEW t \in Tuners, Crash(t)
  PROVE  IInv'
<1>1. /\ record' \in [Tuners -> Records] /\ record'[t] = None
      /\ \A u \in Tuners \ {t} : record'[u] = record[u]
  BY DEF Crash, IInv, TypeOK, Records
<1>2. QED
  BY <1>1, EndsKeeps DEF Crash

LEMMA BeginShutdownKeeps ==
  ASSUME IInv, NEW t \in Tuners, BeginShutdown(t)
  PROVE  IInv'
<1>1. /\ Inv(t) /\ pc[t] = "serving" /\ t \in done
      /\ pc'[t] = IF mode[t] = "broadcast" THEN "stopBroadcast" ELSE "stopHealth"
  BY DEF BeginShutdown, Goto, IInv, TypeOK
<1>2. TypeOK'
  <2>1. listener' \in [Ports -> Listeners \cup {None}]
    BY DEF BeginShutdown, IInv, TypeOK
  <2>2. conns' \in [Tuners -> SUBSET Connections]
    BY DEF BeginShutdown, IInv, TypeOK
  <2>3. left' \in [Tuners -> 0 .. Grace]
    BY ServeAssumption DEF BeginShutdown, IInv, TypeOK
  <2>4. pc' \in [Tuners -> Running \cup {"off"}]
    BY DEF BeginShutdown, Goto, Running, IInv, TypeOK
  <2>5. QED
    BY <2>1, <2>2, <2>3, <2>4 DEF BeginShutdown, IInv, TypeOK
<1>3. ASSUME NEW u \in Tuners PROVE Inv(u)'
  <2>1. CASE u = t
    <3>1. UNCHANGED <<mode, bound, done, server, zeroconf, zcLock, shut, record>>
      BY DEF BeginShutdown
    <3>2. QED
      BY <2>1, <1>1, <3>1 DEF Early, Stopping, Inv, NothingYet, MainFollows,
           BroadcastServed, RecordBacked, Record, DownWhenCleared
  <2>2. CASE u # t
    <3>1. \A p \in Ports :
            listener[p] = [by |-> u, as |-> "broadcast"] => listener'[p] = listener[p]
      BY <2>2 DEF BeginShutdown
    <3>2. Untouched(u)
      BY <2>2, <3>1 DEF BeginShutdown, Goto, Untouched, IInv, TypeOK
    <3>3. QED
      BY <3>2, UntouchedKeeps DEF IInv
  <2>3. QED
    BY <2>1, <2>2
<1>4. QED
  BY <1>2, <1>3 DEF IInv

(* Waiting for the broadcast server's connections. *)
LEMMA WaitKeeps ==
  ASSUME IInv, NEW t \in Tuners,
         Tick(t) \/ \E c \in Connections : Disconnect(t, c)
  PROVE  IInv'
<1>1. TypeOK'
  <2>1. CASE Tick(t)
    <3>1. left' \in [Tuners -> 0 .. Grace]
      BY <2>1, ServeAssumption DEF Tick, IInv, TypeOK
    <3>2. QED
      BY <2>1, <3>1 DEF Tick, IInv, TypeOK
  <2>2. ASSUME NEW c \in Connections, Disconnect(t, c) PROVE TypeOK'
    BY <2>2 DEF Disconnect, IInv, TypeOK
  <2>3. QED
    BY <2>1, <2>2
<1>2. ASSUME NEW u \in Tuners PROVE Inv(u)'
  BY UntouchedKeeps DEF Tick, Disconnect, Untouched, IInv
<1>3. QED
  BY <1>1, <1>2 DEF IInv

LEMMA BroadcastStoppedKeeps ==
  ASSUME IInv, NEW t \in Tuners, BroadcastStopped(t)
  PROVE  IInv'
<1>1. Inv(t) /\ pc[t] = "stopBroadcast" /\ pc'[t] = "stopHealth"
  BY DEF BroadcastStopped, Goto, IInv, TypeOK
<1>2. TypeOK'
  <2>1. left' \in [Tuners -> 0 .. Grace]
    BY ServeAssumption DEF BroadcastStopped, IInv, TypeOK
  <2>2. QED
    BY <2>1 DEF BroadcastStopped, Goto, Running, IInv, TypeOK
<1>3. ASSUME NEW u \in Tuners PROVE Inv(u)'
  <2>1. CASE u = t
    BY <2>1, <1>1 DEF BroadcastStopped, Early, Stopping, Inv, NothingYet, MainFollows,
         BroadcastServed, RecordBacked, Record, DownWhenCleared
  <2>2. CASE u # t
    BY <2>2, UntouchedKeeps DEF BroadcastStopped, Goto, Untouched, IInv, TypeOK
  <2>3. QED
    BY <2>1, <2>2
<1>4. QED
  BY <1>2, <1>3 DEF IInv

LEMMA StopHealthKeeps ==
  ASSUME IInv, NEW t \in Tuners, StopHealth(t)
  PROVE  IInv'
<1>0. Inv(t) /\ pc[t] = "stopHealth"
  BY DEF StopHealth, IInv
<1>1. CASE mode[t] # "broadcast"
  <2>1. Ends(t) /\ record[t] = None /\ UNCHANGED record
    BY <1>0, <1>1 DEF StopHealth, Inv, RecordBacked
  <2>2. QED
    BY <2>1, EndsWithoutRecord
<1>2. CASE mode[t] = "broadcast"
  <2>1. /\ pc'[t] = "defers" /\ shut'[t]["main"] = "check"
        /\ shut'[t]["ctx"] = shut[t]["ctx"]
        /\ UNCHANGED <<mode, bound, done, server, zeroconf, zcLock, record>>
    BY <1>2 DEF StopHealth, Goto, Callers, IInv, TypeOK
  <2>2. TypeOK'
    <3>1. listener' \in [Ports -> Listeners \cup {None}]
      BY <1>2 DEF StopHealth, IInv, TypeOK
    <3>2. /\ pc' \in [Tuners -> Running \cup {"off"}]
          /\ shut' \in [Tuners -> [Callers -> CallStates]]
      <4>1. /\ pc' = [pc EXCEPT ![t] = "defers"]
            /\ shut' = [shut EXCEPT ![t]["main"] = "check"]
        BY <1>2 DEF StopHealth, Goto
      <4>2. QED
        BY <4>1 DEF Running, Callers, CallStates, IInv, TypeOK
    <3>3. ASSUME NEW u \in Tuners, NEW k \in Callers
          PROVE  (zcLock[u] = k <=> shut[u][k] = "closing")'
      <4>1. CASE u = t
        BY <4>1, <1>0, <2>1 DEF Callers, Inv, MainFollows, IInv, TypeOK
      <4>2. CASE u # t
        BY <4>2, <1>2 DEF StopHealth, IInv, TypeOK
      <4>3. QED
        BY <4>1, <4>2
    <3>4. QED
      BY <1>2, <3>1, <3>2, <3>3 DEF StopHealth, IInv, TypeOK, CallStates
  <2>3. ASSUME NEW u \in Tuners PROVE Inv(u)'
    <3>1. CASE u = t
      <4>1. NothingYet(t)' /\ MainFollows(t)' /\ BroadcastServed(t)'
        BY <1>0, <1>2, <2>1 DEF Early, Stopping, Inv, NothingYet, MainFollows, BroadcastServed
      <4>2. RecordBacked(t)' /\ DownWhenCleared(t)'
        BY <1>0, <2>1 DEF Callers, Inv, RecordBacked, Record, DownWhenCleared
      <4>3. QED
        BY <3>1, <4>1, <4>2 DEF Inv
    <3>2. CASE u # t
      <4>1. \A p \in Ports :
              listener[p] = [by |-> u, as |-> "broadcast"] => listener'[p] = listener[p]
        BY <3>2, <1>2 DEF StopHealth
      <4>2. Untouched(u)
        BY <3>2, <1>2, <4>1 DEF StopHealth, Goto, Untouched, IInv, TypeOK
      <4>3. QED
        BY <4>2, UntouchedKeeps DEF IInv
    <3>3. QED
      BY <3>1, <3>2
  <2>4. QED
    BY <2>2, <2>3 DEF IInv
<1>3. QED
  BY <1>1, <1>2

LEMMA ExitKeeps ==
  ASSUME IInv, NEW t \in Tuners, Exit(t)
  PROVE  IInv'
<1>1. record[t] = None /\ UNCHANGED record
  BY DEF Exit, IInv, Inv, RecordBacked, DownWhenCleared
<1>2. QED
  BY <1>1, EndsWithoutRecord DEF Exit

-----------------------------------------------------------------------------
(* The two callers of Shutdown.  Most of their steps only move one caller.  *)
CallerMoves(t, k, s) ==
  /\ shut[t][k] \notin {"none", "closing"}
  /\ shut' = [shut EXCEPT ![t][k] = s]
  /\ s = "clear" => zeroconf[t] = "down"
  /\ s = "done" => zeroconf[t] # "up"
  /\ \/ UNCHANGED server
     \/ server' = [server EXCEPT ![t] = FALSE] /\ zeroconf[t] = "down"
  /\ UNCHANGED <<mode, pc, tried, listener, bound, done, conns, left, zeroconf, zcLock,
                 record>>

LEMMA CallerMovesKeeps ==
  ASSUME IInv, NEW t \in Tuners, NEW k \in Callers,
         NEW s \in CallStates \ {"none", "closing"}, CallerMoves(t, k, s)
  PROVE  IInv'
<1>1. /\ shut' \in [Tuners -> [Callers -> CallStates]]
      /\ \A u \in Tuners, j \in Callers :
           shut'[u][j] = IF u = t /\ j = k THEN s ELSE shut[u][j]
  BY DEF CallerMoves, IInv, TypeOK, CallStates
<1>2. server' \in [Tuners -> BOOLEAN]
  <2>1. CASE UNCHANGED server
    BY <2>1 DEF IInv, TypeOK
  <2>2. CASE server' = [server EXCEPT ![t] = FALSE]
    BY <2>2 DEF IInv, TypeOK
  <2>3. QED
    BY <2>1, <2>2 DEF CallerMoves
<1>3. TypeOK'
  <2>1. ASSUME NEW u \in Tuners, NEW j \in Callers
        PROVE  (zcLock[u] = j <=> shut[u][j] = "closing")'
    BY <1>1 DEF CallerMoves, IInv, TypeOK
  <2>2. QED
    BY <1>1, <1>2, <2>1 DEF CallerMoves, IInv, TypeOK, CallStates
<1>4. ASSUME NEW u \in Tuners PROVE Inv(u)'
  <2>1. CASE u = t
    <3>1. Inv(t) /\ pc[t] \notin Early
      BY DEF CallerMoves, IInv, Inv, NothingYet
    <3>2. NothingYet(t)' /\ BroadcastServed(t)'
      BY <3>1 DEF CallerMoves, Inv, NothingYet, BroadcastServed
    <3>3. MainFollows(t)'
      BY <3>1, <1>1 DEF CallerMoves, Inv, MainFollows, Callers
    <3>4. RecordBacked(t)'
      BY <3>1 DEF CallerMoves, Inv, RecordBacked, Record, IInv, TypeOK
    <3>5. DownWhenCleared(t)'
      BY <3>1, <1>1 DEF CallerMoves, Inv, DownWhenCleared, Callers
    <3>6. QED
      BY <2>1, <3>2, <3>3, <3>4, <3>5 DEF Inv
  <2>2. CASE u # t
    BY <2>2, UntouchedKeeps DEF CallerMoves, Untouched, IInv, TypeOK
  <2>3. QED
    BY <2>1, <2>2
<1>5. QED
  BY <1>3, <1>4 DEF IInv

(* Advertiser.Shutdown keeps the invariant, whichever caller runs it. *)
LEMMA ShutdownKeeps ==
  ASSUME IInv, NEW t \in Tuners, NEW k \in Callers, Shutdown(t, k)
  PROVE  IInv'
<1>0. Inv(t)
  BY DEF IInv
<1>1. CASE ShutdownCheck(t, k)
  <2>1. ~server[t] => zeroconf[t] # "up"
    BY <1>0 DEF Inv, RecordBacked
  <2>2. CallerMoves(t, k, IF server[t] THEN "call" ELSE "done")
    BY <1>1, <2>1 DEF ShutdownCheck, CallerMoves
  <2>3. QED
    BY <2>2, CallerMovesKeeps DEF CallStates
<1>2. CASE ShutdownCall(t, k)
  <2>1. CASE Ends(t) /\ ~server[t]
    <3>1. record[t] = None /\ UNCHANGED record
      BY <1>0, <1>2, <2>1 DEF ShutdownCall, Inv, RecordBacked
    <3>2. QED
      BY <2>1, <3>1, EndsWithoutRecord
  <2>2. CASE shut' = [shut EXCEPT ![t][k] = "lock"] /\
             UNCHANGED <<mode, pc, tried, listener, bound, done, conns, left, server,
                         zeroconf, zcLock>>
    <3>1. CallerMoves(t, k, "lock")
      BY <1>2, <2>2 DEF ShutdownCall, CallerMoves
    <3>2. QED
      BY <3>1, CallerMovesKeeps DEF CallStates
  <2>3. QED
    BY <1>2, <2>1, <2>2 DEF ShutdownCall
<1>3. CASE ZeroconfEnter(t, k)
  <2>1. CASE zeroconf[t] = "down"
    <3>1. CallerMoves(t, k, "clear")
      BY <1>3, <2>1 DEF ZeroconfEnter, CallerMoves
    <3>2. QED
      BY <3>1, CallerMovesKeeps DEF CallStates
  <2>2. CASE zeroconf[t] # "down"
    <3>1. /\ shut' \in [Tuners -> [Callers -> CallStates]]
          /\ zcLock' \in [Tuners -> Callers \cup {None}]
          /\ \A u \in Tuners, j \in Callers :
               shut'[u][j] = IF u = t /\ j = k THEN "closing" ELSE shut[u][j]
          /\ \A u \in Tuners : zcLock'[u] = IF u = t THEN k ELSE zcLock[u]
      <4>1. /\ shut' = [shut EXCEPT ![t][k] = "closing"]
            /\ zcLock' = [zcLock EXCEPT ![t] = k]
        BY <1>3, <2>2 DEF ZeroconfEnter
      <4>2. QED
        BY <4>1 DEF IInv, TypeOK, CallStates
    <3>2. TypeOK'
      <4>1. ASSUME NEW u \in Tuners, NEW j \in Callers
            PROVE  (zcLock[u] = j <=> shut[u][j] = "closing")'
        BY <3>1, <1>3, ServeAssumption DEF ZeroconfEnter, IInv, TypeOK
      <4>2. QED
        BY <1>3, <3>1, <4>1 DEF ZeroconfEnter, IInv, TypeOK, CallStates
    <3>3. ASSUME NEW u \in Tuners PROVE Inv(u)'
      <4>1. CASE u = t
        <5>1. /\ pc[t] \notin Early /\ shut[t][k] = "lock"
              /\ UNCHANGED <<mode, pc, listener, bound, done, server, zeroconf, record>>
          BY <1>0, <1>3 DEF ZeroconfEnter, Inv, NothingYet
        <5>2. NothingYet(t)' /\ BroadcastServed(t)' /\ RecordBacked(t)'
          BY <1>0, <5>1 DEF Inv, NothingYet, BroadcastServed, RecordBacked, Record
        <5>3. MainFollows(t)' /\ DownWhenCleared(t)'
          BY <1>0, <5>1, <3>1 DEF Inv, MainFollows, DownWhenCleared, Callers
        <5>4. QED
          BY <4>1, <5>2, <5>3 DEF Inv
      <4>2. CASE u # t
        BY <4>2, <1>3, <2>2, UntouchedKeeps DEF ZeroconfEnter, Untouched, IInv, TypeOK
      <4>3. QED
        BY <4>1, <4>2
    <3>4. QED
      BY <3>2, <3>3 DEF IInv
  <2>3. QED
    BY <2>1, <2>2
<1>4. CASE ZeroconfClose(t, k)
  <2>1. /\ shut' \in [Tuners -> [Callers -> CallStates]]
        /\ zcLock' \in [Tuners -> Callers \cup {None}]
        /\ record' \in [Tuners -> Records]
        /\ zeroconf' \in [Tuners -> {"none", "up", "down"}]
        /\ \A u \in Tuners, j \in Callers :
             shut'[u][j] = IF u = t /\ j = k THEN "clear" ELSE shut[u][j]
        /\ \A u \in Tuners : zcLock'[u] = IF u = t THEN None ELSE zcLock[u]
        /\ zeroconf'[t] = "down" /\ record'[t] = None
    BY <1>4 DEF ZeroconfClose, IInv, TypeOK, CallStates, Records
  <2>2. TypeOK'
    <3>1. zcLock[t] = k
      BY <1>4 DEF ZeroconfClose, IInv, TypeOK
    <3>2. ASSUME NEW u \in Tuners, NEW j \in Callers
          PROVE  (zcLock[u] = j <=> shut[u][j] = "closing")'
      <4>1. CASE u = t
        <5>1. zcLock'[t] = None /\ None # j
          BY <2>1, ServeAssumption
        <5>2. j # k => shut[t][j] # "closing"
          BY <3>1 DEF IInv, TypeOK
        <5>3. shut'[t][j] = IF j = k THEN "clear" ELSE shut[t][j]
          BY <2>1
        <5>4. QED
          BY <4>1, <5>1, <5>2, <5>3
      <4>2. CASE u # t
        BY <4>2, <2>1 DEF IInv, TypeOK
      <4>3. QED
        BY <4>1, <4>2
    <3>3. QED
      BY <1>4, <2>1, <3>2 DEF ZeroconfClose, IInv, TypeOK, CallStates, Records
  <2>3. ASSUME NEW u \in Tuners PROVE Inv(u)'
    <3>1. CASE u = t
      <4>1. /\ pc[t] \notin Early /\ shut[t][k] = "closing"
            /\ UNCHANGED <<mode, pc, listener, bound, done, server>>
        BY <1>0, <1>4 DEF ZeroconfClose, Inv, NothingYet
      <4>2. NothingYet(t)' /\ BroadcastServed(t)' /\ RecordBacked(t)'
        BY <1>0, <2>1, <4>1 DEF Inv, NothingYet, BroadcastServed, RecordBacked
      <4>3. MainFollows(t)' /\ DownWhenCleared(t)'
        BY <1>0, <2>1, <4>1 DEF Inv, MainFollows, DownWhenCleared, Callers
      <4>4. QED
        BY <3>1, <4>2, <4>3 DEF Inv
    <3>2. CASE u # t
      BY <3>2, <1>4, UntouchedKeeps DEF ZeroconfClose, Untouched, IInv, TypeOK
    <3>3. QED
      BY <3>1, <3>2
  <2>4. QED
    BY <2>2, <2>3 DEF IInv
<1>5. CASE ShutdownClear(t, k)
  <2>1. zeroconf[t] = "down"
    BY <1>0, <1>5 DEF ShutdownClear, Inv, DownWhenCleared
  <2>2. QED
    <3>1. CallerMoves(t, k, "done")
      BY <1>5, <2>1 DEF ShutdownClear, CallerMoves
    <3>2. QED
      BY <3>1, CallerMovesKeeps DEF CallStates
<1>6. QED
  BY <1>1, <1>2, <1>3, <1>4, <1>5 DEF Shutdown

LEMMA CtxDoneKeeps ==
  ASSUME IInv, NEW t \in Tuners, CtxDone(t)
  PROVE  IInv'
<1>1. CallerMoves(t, "ctx", "check")
  BY DEF CtxDone, CallerMoves
<1>2. QED
  BY <1>1, CallerMovesKeeps DEF Callers, CallStates

-----------------------------------------------------------------------------
(* The inductive invariant holds in every reachable state. *)
THEOREM Invariance == Spec => []IInv
<1>1. Init => IInv
  <2> SUFFICES ASSUME Init PROVE IInv
    OBVIOUS
  <2>1. TypeOK
    <3>1. listener \in [Ports -> Listeners \cup {None}]
      BY DEF Init, Listeners
    <3>2. 0 \in 0 .. maxRetries /\ 0 \in 0 .. Grace
      BY ServeAssumption
    <3>3. \A t \in Tuners, k \in Callers : zcLock[t] = k <=> shut[t][k] = "closing"
      BY ServeAssumption DEF Init
    <3>4. QED
      BY <3>1, <3>2, <3>3 DEF Init, TypeOK
  <2>2. \A t \in Tuners : Inv(t)
    BY DEF Init, Early, Stopping, Callers, Inv, NothingYet, MainFollows, BroadcastServed,
           RecordBacked, DownWhenCleared
  <2>3. QED
    BY <2>1, <2>2 DEF IInv
<1>2. IInv /\ [Next]_vars => IInv'
  <2> SUFFICES ASSUME IInv, [Next]_vars PROVE IInv'
    OBVIOUS
  <2>1. ASSUME NEW t \in Tuners, cmdServe(t) \/ Main(t) PROVE IInv'
    BY <2>1, StartKeeps, BindOKKeeps, BindInUseKeeps, BindFailsKeeps, AdvertiserStartKeeps,
       AdvertiserFailsKeeps, BeginShutdownKeeps, BroadcastStoppedKeeps, WaitKeeps,
       StopHealthKeeps, ExitKeeps DEF Main
  <2>2. ASSUME NEW t \in Tuners, Signal(t) \/ Crash(t) \/ CtxDone(t) PROVE IInv'
    BY <2>2, SignalKeeps, CrashKeeps, CtxDoneKeeps
  <2>3. ASSUME NEW t \in Tuners, NEW k \in Callers, Shutdown(t, k) PROVE IInv'
    BY <2>3, ShutdownKeeps
  <2>4. ASSUME NEW t \in Tuners, NEW c \in Connections, Disconnect(t, c) PROVE IInv'
    BY <2>4, WaitKeeps
  <2>5. CASE UNCHANGED vars
    BY <2>5 DEF vars, IInv, TypeOK, Inv, NothingYet, MainFollows, BroadcastServed,
                RecordBacked, Record, DownWhenCleared
  <2>6. QED
    BY <2>1, <2>2, <2>3, <2>4, <2>5 DEF Next
<1>3. QED
  BY <1>1, <1>2, PTL DEF Spec

(* zeroconf's lock is held by the caller closing it, and every value the    *)
(* scan, the timeouts and the two shutdowns compute is in range.            *)
THEOREM TypeCorrect == Spec => []TypeOK
<1>1. IInv => TypeOK
  BY DEF IInv
<1>2. QED
  BY <1>1, Invariance, PTL

(* The record of a tuner not told to stop names a port its own broadcast    *)
(* server listens on, whatever other tuners and programs bind (cmdServe).   *)
THEOREM AdvertisedServed == Spec => []AdvertisedIsServed
<1>1. IInv => AdvertisedIsServed
  <2> SUFFICES ASSUME IInv, NEW t \in Tuners, t \notin done, record[t] # None
               PROVE  listener[record[t].port] = [by |-> t, as |-> "broadcast"]
    BY DEF AdvertisedIsServed, Advertising
  <2>1. /\ Inv(t) /\ record[t] = Record(t) /\ zeroconf[t] = "up" /\ mode[t] = "broadcast"
    BY DEF IInv, Inv, RecordBacked
  <2>2. pc[t] = "serving"
    BY <2>1 DEF IInv, TypeOK, Running, Inv, NothingYet, MainFollows, Early, Stopping
  <2>3. QED
    BY <2>1, <2>2 DEF Inv, BroadcastServed, Record
<1>2. QED
  BY <1>1, Invariance, PTL

(* Two tuners not told to stop never advertise under one name: the name is  *)
(* the bound port, and one port has one listener (cmdServe).                *)
THEOREM InstanceNamesDiffer == Spec => []NamesDiffer
<1>1. IInv /\ AdvertisedIsServed => NamesDiffer
  <2> SUFFICES ASSUME IInv, AdvertisedIsServed, NEW t \in Advertising, NEW u \in Advertising,
                      record[t].name = record[u].name
               PROVE  t = u
    BY DEF NamesDiffer
  <2>1. record[t] = Record(t) /\ record[u] = Record(u)
    BY DEF Advertising, IInv, Inv, RecordBacked
  <2>2. record[t].port = record[u].port
    BY <2>1 DEF Record
  <2>3. [by |-> t, as |-> "broadcast"] = [by |-> u, as |-> "broadcast"]
    BY <2>2 DEF AdvertisedIsServed
  <2>4. QED
    BY <2>3
<1>2. QED
  BY <1>1, Invariance, AdvertisedServed, PTL

(* A process that ends other than by a crash has withdrawn its record, also *)
(* when its two callers of Shutdown race on a.server (Advertiser.Shutdown). *)
THEOREM RecordWithdrawn == Spec => []WithdrawnAtExit
<1>1. IInv => WithdrawnAtExit
  BY DEF IInv, Inv, NothingYet, RecordBacked, Early, WithdrawnAtExit
<1>2. QED
  BY <1>1, Invariance, PTL
=============================================================================
