---------------------------- MODULE FifoLink_proof ----------------------------
(***************************************************************************)
(* Theorems about FifoLink.  Every open connection of the host is in just  *)
(* one place: Hub says where a connection can be, and Fresh why a device's *)
(* pipes are opened only once.  An answer is no further behind than calls  *)
(* have timed out: the requests of a connection that are not answered yet  *)
(* stand in one line (Order), which no call can fall out of (Lag).         *)
(***************************************************************************)
EXTENDS FifoLink, FiniteSetTheorems, TLAPS

(* The types of what the argument is about.                                *)
HubTypes ==
  /\ status \in [Dirs -> {"none", "ready", "started", "signalled", "stopped", "dead"}]
  /\ connection \in [Dirs -> Seq({"connect", "disconnect"})]
  /\ handler \in [Dirs -> HandlerStages]
  /\ connectCh \in Seq(Dirs)
  /\ {taken, active} \subseteq Dirs \union {Nobody}
  /\ opened \subseteq Dirs /\ closed \subseteq Dirs

(* The one signal of a device that connects it is the first of its pipe,   *)
(* written once, by Start, and gone when the pipes are opened.             *)
Fresh ==
  \A d \in Dirs :
    /\ \A i \in DOMAIN connection[d] : connection[d][i] = "connect" => i = 1 /\ d \notin opened
    /\ status[d] \in {"none", "ready"} => connection[d] = <<>> /\ d \notin opened

Waiting(d) == \E i \in DOMAIN connectCh : connectCh[i] = d

(* A connection is open as long as it is in one of four places.            *)
Hub ==
  /\ \A i, j \in DOMAIN connectCh : connectCh[i] = connectCh[j] => i = j
  /\ \A d \in Dirs : d \in opened \ closed <=> Waiting(d) \/ taken = d \/ active = d \/ handler[d] = "connecting"
  /\ \A d \in Dirs : Waiting(d) => taken # d /\ active # d /\ handler[d] # "connecting"
  /\ \A d \in Dirs : taken = d => active # d /\ handler[d] # "connecting"
  /\ \A d \in Dirs : active = d => handler[d] # "connecting"
  /\ closed \subseteq opened

Inv == HubTypes /\ Fresh /\ Hub

-----------------------------------------------------------------------------
(* A channel or a pipe is read at its head and written at its end.         *)
LEMMA AppendAt ==
  ASSUME NEW S, NEW s \in Seq(S), NEW x \in S
  PROVE  /\ Append(s, x) \in Seq(S)
         /\ DOMAIN s = 1 .. Len(s) /\ DOMAIN Append(s, x) = 1 .. Len(s) + 1
         /\ Len(s) \in Nat /\ Len(Append(s, x)) = Len(s) + 1
         /\ \A i \in 1 .. Len(s) : Append(s, x)[i] = s[i]
         /\ Append(s, x)[Len(s) + 1] = x
  OBVIOUS

LEMMA TailAt ==
  ASSUME NEW S, NEW s \in Seq(S), s # <<>>
  PROVE  /\ Head(s) \in S /\ Head(s) = s[1] /\ 1 \in DOMAIN s
         /\ Tail(s) \in Seq(S)
         /\ DOMAIN s = 1 .. Len(s) /\ DOMAIN Tail(s) = 1 .. Len(s) - 1
         /\ Len(s) \in Nat \ {0} /\ Len(Tail(s)) = Len(s) - 1
         /\ \A i \in 1 .. Len(s) - 1 : Tail(s)[i] = s[i + 1]
  OBVIOUS

-----------------------------------------------------------------------------
LEMMA InitInv == Init => Inv
<1> SUFFICES ASSUME Init PROVE Inv
  OBVIOUS
<1> USE LinkAssumption DEF Init
<1>1. <<>> \in Seq({"connect", "disconnect"}) /\ <<>> \in Seq(Dirs) /\ DOMAIN <<>> = {}
  OBVIOUS
<1>2. HubTypes
  BY <1>1 DEF HubTypes, HandlerStages
<1>3. Fresh
  BY <1>1 DEF Fresh
<1>4. Hub
  BY <1>1 DEF Hub, Waiting
<1> QED BY <1>2, <1>3, <1>4 DEF Inv

(* The steps of the device's goroutines and of the host's calls move no    *)
(* connection.                                                             *)
Elsewhere == UNCHANGED <<status, connection, hubVars>>
LEMMA ElsewhereStep == Inv /\ Elsewhere => Inv'
  BY DEF Inv, HubTypes, Fresh, Hub, Waiting, Elsewhere, hubVars, queueVars

LEMMA LoopIsElsewhere == \A d \in Dirs : LoopStep(d) \/ DriverStep(d) => Elsewhere
  BY DEF LoopStep, DriverStep, ReadHeader, ReadPayload, ReadGarbled, Answer, sendMessage, LoopCancelled,
         DriverReads, readPacket, DriverWrites, writePacket, Elsewhere, pipeVars

LEMMA CallIsElsewhere ==
  HostCalls \/ CallWrites \/ CallReads \/ TransferOut \/ TransferInStarts => Elsewhere
  BY DEF HostCalls, CallWrites, HostWrites, HostWriteFails, OutWrites, CallReads, HostReads, HostTimesOut,
         TransferInEnds, TransferOut, TransferInStarts, Elsewhere, pipeVars

(* A device process writes its signals, and takes its pipes away.          *)
LEMMA LifeStep == \A d \in Dirs : Inv /\ DeviceLife(d) => Inv'
<1> SUFFICES ASSUME NEW d \in Dirs, Inv, DeviceLife(d) PROVE Inv'
  OBVIOUS
<1> USE DEF Inv
<1>1. UNCHANGED hubVars
  BY DEF DeviceLife, HalInit, HalStart, HalStop, cleanup, Crash
<1>2. Hub'
  BY <1>1 DEF Hub, Waiting, hubVars, queueVars
<1>3. \A s \in Seq({"connect", "disconnect"}), x \in {"connect", "disconnect"} :
        /\ Append(s, x) \in Seq({"connect", "disconnect"})
        /\ \A i \in DOMAIN Append(s, x) : \/ i \in DOMAIN s /\ Append(s, x)[i] = s[i]
                                          \/ i = Len(s) + 1 /\ Append(s, x)[i] = x
  BY AppendAt
<1>4. CASE HalInit(d)
  BY <1>1, <1>2, <1>4 DEF HalInit, Turn, pipeVars, hubVars, queueVars, HubTypes, Fresh
<1>5. CASE HalStart(d)
  <2>1. connection[d] = <<>> /\ d \notin opened
    BY <1>5 DEF HalStart, Turn, Fresh
  <2>2. /\ Append(connection[d], "connect") \in Seq({"connect", "disconnect"})
        /\ \A i \in DOMAIN Append(connection[d], "connect") : i = 1
    BY <2>1, AppendAt
  <2> QED BY <1>1, <1>2, <1>5, <2>1, <2>2 DEF HalStart, Turn, hubVars, queueVars, HubTypes, Fresh
<1>6. CASE HalStop(d)
  <2>1. /\ Append(connection[d], "disconnect") \in Seq({"connect", "disconnect"})
        /\ \A i \in DOMAIN Append(connection[d], "disconnect") :
             Append(connection[d], "disconnect")[i] = "connect"
               => i \in DOMAIN connection[d] /\ connection[d][i] = "connect"
    BY <1>3 DEF HubTypes
  <2> QED BY <1>1, <1>2, <1>6, <2>1 DEF HalStop, Turn, hubVars, queueVars, HubTypes, Fresh
<1>7. CASE cleanup(d) \/ Crash(d)
  <2>1. <<>> \in Seq({"connect", "disconnect"}) /\ DOMAIN <<>> = {}
    OBVIOUS
  <2>2. HubTypes'
    BY <1>1, <1>7, <2>1 DEF cleanup, Crash, Turn, LoseEnds, hubVars, queueVars, HubTypes
  <2>3. Fresh'
    BY <1>1, <1>7, <2>1 DEF cleanup, Crash, Turn, LoseEnds, hubVars, queueVars, HubTypes, Fresh
  <2> QED BY <1>2, <2>2, <2>3
<1> QED BY <1>4, <1>5, <1>6, <1>7 DEF DeviceLife

(* A handler finds its directory, opens the pipes of the device, hands the *)
(* connection over and waits for the end.                                  *)
LEMMA HandlerInv == \A d \in Dirs : Inv /\ HandlerStep(d) => Inv'
<1> SUFFICES ASSUME NEW d \in Dirs, Inv, HandlerStep(d) PROVE Inv'
  OBVIOUS
<1> USE DEF Inv, HandlerAt
<1>1. CASE pollDeviceDirectories(d) \/ OpenConnection(d) \/ SendDisconnect(d)
  <2>1. /\ UNCHANGED <<status, connection, connectCh, taken, active, opened, closed>>
        /\ handler[d] # "connecting" /\ handler' \in [Dirs -> HandlerStages]
        /\ \A e \in Dirs : handler'[e] = "connecting" <=> handler[e] = "connecting"
    BY <1>1 DEF pollDeviceDirectories, OpenConnection, SendDisconnect, pipeVars, queueVars, HubTypes, HandlerStages
  <2> QED BY <2>1 DEF HubTypes, Fresh, Hub, Waiting
<1>2. ASSUME connection[d] # <<>>, connection' = [connection EXCEPT ![d] = Tail(@)]
      PROVE  /\ connection' \in [Dirs -> Seq({"connect", "disconnect"})]
             /\ \A i \in DOMAIN connection'[d] : connection'[d][i] # "connect"
             /\ \A e \in Dirs \ {d} : connection'[e] = connection[e]
             /\ Head(connection[d]) = "connect" => d \notin opened
  <2>1. connection[d] \in Seq({"connect", "disconnect"})
    BY DEF HubTypes
  <2>2. \A i \in DOMAIN Tail(connection[d]) : /\ i + 1 \in DOMAIN connection[d] /\ i + 1 # 1
                                              /\ Tail(connection[d])[i] = connection[d][i + 1]
    BY <1>2, <2>1, TailAt
  <2>3. Tail(connection[d]) \in Seq({"connect", "disconnect"}) /\ 1 \in DOMAIN connection[d] /\ Head(connection[d]) = connection[d][1]
    BY <1>2, <2>1, TailAt
  <2> QED BY <1>2, <2>2, <2>3 DEF HubTypes, Fresh
<1>3. CASE handleDeviceDirectory(d)
  <2>1. /\ UNCHANGED <<status, connectCh, taken, active, closed>>
        /\ handler[d] = "watching" /\ connection[d] # <<>>
        /\ connection' = [connection EXCEPT ![d] = Tail(@)]
    BY <1>3 DEF handleDeviceDirectory, queueVars
  <2>2. \/ opened' = opened /\ handler' = handler
        \/ /\ opened' = opened \union {d} /\ handler' = [handler EXCEPT ![d] = "connecting"]
           /\ Head(connection[d]) = "connect" /\ Alive(d)
    BY <1>3 DEF handleDeviceDirectory
  <2>3. status[d] \notin {"none", "ready"}
    BY <2>1 DEF Fresh
  <2>4. HubTypes'
    BY <1>2, <2>1, <2>2 DEF HubTypes, HandlerStages
  <2>5. Fresh'
    BY <1>2, <2>1, <2>2, <2>3 DEF HubTypes, Fresh
  <2>6. Hub'
    <3>1. CASE opened' = opened /\ handler' = handler
      BY <2>1, <3>1 DEF Hub, Waiting
    <3>2. CASE opened' = opened \union {d} /\ handler' = [handler EXCEPT ![d] = "connecting"] /\ d \notin opened
      BY <2>1, <3>2 DEF Hub, Waiting, HubTypes
    <3> QED BY <1>2, <2>1, <2>2, <3>1, <3>2
  <2> QED BY <2>4, <2>5, <2>6
<1>4. CASE SendConnect(d)
  <2>1. /\ connectCh' \in Seq(Dirs)
        /\ DOMAIN connectCh = 1 .. Len(connectCh) /\ DOMAIN connectCh' = 1 .. Len(connectCh) + 1
        /\ Len(connectCh) \in Nat
        /\ \A i \in 1 .. Len(connectCh) : connectCh'[i] = connectCh[i]
        /\ connectCh'[Len(connectCh) + 1] = d
    BY <1>4, AppendAt DEF SendConnect, HubTypes
  <2>2. /\ UNCHANGED <<status, connection, taken, active, opened, closed>>
        /\ handler[d] = "connecting" /\ handler' = [handler EXCEPT ![d] = "monitoring"]
    BY <1>4 DEF SendConnect, pipeVars
  <2>3. HubTypes' /\ Fresh'
    BY <2>1, <2>2 DEF HubTypes, Fresh, HandlerStages
  <2>4. \A e \in Dirs : Waiting(e)' <=> Waiting(e) \/ e = d
    BY <2>1 DEF Waiting
  <2>5. ~Waiting(d) /\ taken # d /\ active # d /\ d \in opened \ closed
    BY <2>2 DEF Hub
  <2>6. \A i, j \in DOMAIN connectCh' : connectCh'[i] = connectCh'[j] => i = j
    BY <2>1, <2>5 DEF Hub, Waiting
  <2>7. \A e \in Dirs : handler'[e] = "connecting" <=> handler[e] = "connecting" /\ e # d
    BY <2>2 DEF HubTypes
  <2>8. Hub'
    BY <2>2, <2>4, <2>5, <2>6, <2>7 DEF Hub
  <2> QED BY <2>3, <2>8
<1>5. CASE monitorDeviceConnection(d)
  <2>1. /\ UNCHANGED <<status, connectCh, taken, active, opened, closed>>
        /\ handler[d] = "monitoring" /\ connection[d] # <<>>
        /\ connection' = [connection EXCEPT ![d] = Tail(@)]
        /\ \E stage \in {"signalling", "monitoring"} : handler' = [handler EXCEPT ![d] = stage]
    BY <1>5 DEF monitorDeviceConnection, queueVars
  <2>2. status[d] \notin {"none", "ready"}
    BY <2>1 DEF Fresh
  <2> QED BY <1>2, <2>1, <2>2 DEF HubTypes, Fresh, Hub, Waiting, HandlerStages
<1>6. CASE HandlerCancelled(d)
  <2>1. /\ UNCHANGED <<status, connection, connectCh, taken, active, opened>>
        /\ handler' = [handler EXCEPT ![d] = "ended"]
        /\ closed' = IF handler[d] = "connecting" THEN closed \union {d} ELSE closed
    BY <1>6 DEF HandlerCancelled, pipeVars, queueVars
  <2>2. HubTypes' /\ Fresh'
    BY <2>1 DEF HubTypes, Fresh, HandlerStages
  <2>3. Hub'
    BY <2>1 DEF Hub, Waiting, HubTypes
  <2> QED BY <2>2, <2>3
<1> QED BY <1>1, <1>3, <1>4, <1>5, <1>6 DEF HandlerStep

(* The user's calls replace or drop the active connection and close the    *)
(* one that was there.                                                     *)
LEMMA WaitInv == Inv /\ (WaitStep \/ StopCancel \/ StopWaits) => Inv'
<1> SUFFICES ASSUME Inv, WaitStep \/ StopCancel \/ StopWaits
             PROVE Inv'
  OBVIOUS
<1> USE DEF Inv
<1>1. CASE StopCancel \/ ReceiveDisconnection
  BY <1>1 DEF StopCancel, ReceiveDisconnection, HubTypes, Fresh, Hub, Waiting, pipeVars, queueVars
<1>2. CASE WaitForDisconnection \/ StopWaits
  <2>1. /\ UNCHANGED <<status, connection, handler, connectCh, taken, opened>>
        /\ active' = Nobody /\ closed' = closed \union ({active} \ {Nobody})
    BY <1>2 DEF WaitForDisconnection, StopWaits, pipeVars, queueVars
  <2>2. HubTypes' /\ Fresh'
    BY <2>1 DEF HubTypes, Fresh
  <2>3. Hub'
    BY <2>1, LinkAssumption DEF Hub, Waiting, HubTypes
  <2> QED BY <2>2, <2>3
<1>3. CASE ReceiveConnection
  <2>1. /\ UNCHANGED <<status, connection, handler, active, opened, closed>> /\ taken = Nobody
        /\ connectCh # <<>> /\ connectCh' = Tail(connectCh) /\ taken' = Head(connectCh)
    BY <1>3 DEF ReceiveConnection, pipeVars
  <2> DEFINE h == Head(connectCh)
  <2>2. /\ h \in Dirs /\ h = connectCh[1] /\ 1 \in DOMAIN connectCh
        /\ connectCh' \in Seq(Dirs)
        /\ DOMAIN connectCh = 1 .. Len(connectCh) /\ DOMAIN connectCh' = 1 .. Len(connectCh) - 1
        /\ Len(connectCh) \in Nat \ {0}
        /\ \A i \in 1 .. Len(connectCh) - 1 : connectCh'[i] = connectCh[i + 1]
    BY <2>1, TailAt DEF HubTypes
  <2>3. HubTypes' /\ Fresh'
    BY <2>1, <2>2 DEF HubTypes, Fresh
  <2>4. \A i, j \in DOMAIN connectCh' : connectCh'[i] = connectCh'[j] => i = j
    <3>1. \A i \in DOMAIN connectCh' : i \in Int /\ i + 1 \in DOMAIN connectCh
      BY <2>2
    <3>2. \A i, j \in DOMAIN connectCh' : connectCh'[i] = connectCh'[j] => i + 1 = j + 1
      BY <2>2, <3>1 DEF Hub
    <3> QED BY <3>1, <3>2
  <2>5. \A e \in Dirs : Waiting(e)' <=> Waiting(e) /\ e # h
    <3>1. ASSUME NEW e \in Dirs, NEW i \in DOMAIN connectCh', connectCh'[i] = e
          PROVE  Waiting(e) /\ e # h
      <4>1. i + 1 \in DOMAIN connectCh /\ connectCh[i + 1] = e /\ i + 1 # 1
        BY <2>2, <3>1
      <4>2. connectCh[i + 1] # connectCh[1]
        BY <2>2, <4>1 DEF Hub
      <4> QED BY <2>2, <4>1, <4>2 DEF Waiting
    <3>2. ASSUME NEW e \in Dirs, e # h, NEW i \in DOMAIN connectCh, connectCh[i] = e
          PROVE  Waiting(e)'
      <4>1. i # 1
        BY <2>2, <3>2
      <4>2. i - 1 \in DOMAIN connectCh' /\ connectCh'[i - 1] = e
        BY <2>2, <3>2, <4>1
      <4> QED BY <4>2 DEF Waiting
    <3> QED BY <3>1, <3>2 DEF Waiting
  <2>6. Waiting(h) /\ active # h /\ handler[h] # "connecting" /\ h \in opened \ closed
    BY <2>2 DEF Waiting, Hub
  <2>7. Hub'
    <3>1. /\ \A e \in Dirs : Waiting(e)' => taken' # e /\ active' # e /\ handler'[e] # "connecting"
          /\ \A e \in Dirs : taken' = e => active' # e /\ handler'[e] # "connecting"
          /\ \A e \in Dirs : active' = e => handler'[e] # "connecting"
          /\ closed' \subseteq opened'
      BY <2>1, <2>5, <2>6 DEF Hub, HubTypes
    <3>2. ASSUME NEW e \in Dirs
          PROVE  e \in opened' \ closed' <=> Waiting(e)' \/ taken' = e \/ active' = e \/ handler'[e] = "connecting"
      BY <2>1, <2>5, <2>6, LinkAssumption DEF Hub
    <3> QED BY <2>4, <3>1, <3>2 DEF Hub
  <2> QED BY <2>3, <2>7
<1>4. CASE WaitForConnection
  <2>1. /\ UNCHANGED <<status, connection, handler, connectCh, opened>>
        /\ taken # Nobody /\ taken' = Nobody /\ active' = taken
        /\ closed' = closed \union ({active} \ {Nobody})
    BY <1>4 DEF WaitForConnection, pipeVars
  <2>2. HubTypes' /\ Fresh'
    BY <2>1 DEF HubTypes, Fresh
  <2>3. Hub'
    BY <2>1, LinkAssumption DEF Hub, Waiting, HubTypes
  <2> QED BY <2>2, <2>3
<1> QED BY <1>1, <1>2, <1>3, <1>4 DEF WaitStep

LEMMA NextInv == Inv /\ [Next]_vars => Inv'
<1> SUFFICES ASSUME Inv, [Next]_vars PROVE Inv'
  OBVIOUS
<1>1. CASE UNCHANGED vars
  BY <1>1, ElsewhereStep DEF vars, Elsewhere, pipeVars
<1>2. CASE Next
  BY <1>2, ElsewhereStep, LoopIsElsewhere, CallIsElsewhere, LifeStep, HandlerInv, WaitInv DEF Next
<1> QED BY <1>1, <1>2

(* The places of a connection, counted.                                    *)
LEMMA InvAccounted == Inv => ConnectionsAccounted
<1> SUFFICES ASSUME Inv, NEW d \in Dirs
             PROVE  Places(d) = IF d \in opened \ closed THEN 1 ELSE 0
  BY DEF ConnectionsAccounted
<1> DEFINE places == {i \in DOMAIN connectCh : connectCh[i] = d}
<1>1. Cardinality(places) = IF Waiting(d) THEN 1 ELSE 0
  <2>1. CASE Waiting(d)
    <3>1. PICK i \in DOMAIN connectCh : connectCh[i] = d
      BY <2>1 DEF Waiting
    <3>2. places = {i}
      BY <3>1 DEF Inv, Hub
    <3> QED BY <2>1, <3>2, FS_Singleton
  <2>2. CASE ~Waiting(d)
    <3>1. places = {}
      BY <2>2 DEF Waiting
    <3> QED BY <2>2, <3>1, FS_EmptySet
  <2> QED BY <2>1, <2>2
<1> QED BY <1>1 DEF Places, Inv, Hub

(* A connection of the host whose files are open is in exactly one place,  *)
(* and one whose files are closed in none, however devices come and go,    *)
(* the user's calls interleave with the handlers of the directories, and   *)
(* Stop cuts in (handleDeviceDirectory, WaitForConnection and Stop of      *)
(* host/hal/fifo).                                                         *)
THEOREM Accounted == Spec => []ConnectionsAccounted
<1>1. Init => Inv
  BY InitInv
<1>2. Inv /\ [Next]_vars => Inv'
  BY NextInv
<1>3. Inv => ConnectionsAccounted
  BY InvAccounted
<1> QED BY <1>1, <1>2, <1>3, PTL DEF Spec
-----------------------------------------------------------------------------
(* The requests of a device that have no answer yet: those on their way,   *)
(* the one the control loop has in hand, and those whose answers are on    *)
(* the way back.                                                           *)
Asking   == [to : Nat, kind : Requests]
Handling == [to : Nat, kind : Answers \union {Nobody}]
Replying == [to : Nat, kind : Answers \union {Nobody}, intact : BOOLEAN]
Busy(d)  == loop[d] \in {"handling", "writing"}

LineTypes ==
  /\ toDevice \in [Dirs -> Seq(Asking)]
  /\ toHost \in [Dirs -> Seq(Replying)]
  /\ request \in [Dirs -> Handling \union {Nobody}]
  /\ loop \in [Dirs -> {"header", "payload", "handling", "writing", "ended"}]
  /\ \A d \in Dirs : Busy(d) => request[d] \in Handling
  /\ \A d \in Dirs : loop[d] = "payload" => toDevice[d] # <<>>
  /\ asked \in [Dirs -> Nat] /\ late \in [Dirs -> Nat]
  /\ taken \in Dirs \union {Nobody} /\ active \in Dirs \union {Nobody}
  /\ connectCh \in Seq(Dirs)
  /\ call # Nobody => active \in Dirs

(* They stand in line: a request passes none that was sent before it.      *)
Order(d) ==
  /\ \A i, j \in DOMAIN toHost[d] : i < j => toHost[d][i].to < toHost[d][j].to
  /\ \A i, j \in DOMAIN toDevice[d] : i < j => toDevice[d][i].to < toDevice[d][j].to
  /\ \A i \in DOMAIN toHost[d], j \in DOMAIN toDevice[d] : toHost[d][i].to < toDevice[d][j].to
  /\ Busy(d) => /\ \A i \in DOMAIN toHost[d] : toHost[d][i].to < request[d].to
                /\ \A j \in DOMAIN toDevice[d] : request[d].to < toDevice[d][j].to

(* None is older than the calls that timed out account for; the call under *)
(* way is not among these yet.                                             *)
Pending(d) == call \in Requests /\ active = d
Recent(d, n) == n <= asked[d] /\ asked[d] <= n + late[d] /\ (~Pending(d) => asked[d] < n + late[d])
Lag(d) ==
  /\ \A i \in DOMAIN toHost[d] : Recent(d, toHost[d][i].to)
  /\ \A i \in DOMAIN toDevice[d] : Recent(d, toDevice[d][i].to)
  /\ Busy(d) => Recent(d, request[d].to)

Line == LineTypes /\ (\A d \in Dirs : Order(d) /\ Lag(d)) /\ AnswerLag


LEMMA InitLine == Init => Line
<1> SUFFICES ASSUME Init PROVE Line
  OBVIOUS
<1> USE LinkAssumption DEF Init
<1>1. <<>> \in Seq(Asking) /\ <<>> \in Seq(Replying) /\ <<>> \in Seq(Dirs) /\ DOMAIN <<>> = {}
  OBVIOUS
<1>2. LineTypes
  BY <1>1 DEF LineTypes, Busy
<1>3. \A d \in Dirs : Order(d) /\ Lag(d)
  BY <1>1 DEF Order, Lag, Busy
<1>4. AnswerLag
  BY DEF AnswerLag
<1> QED BY <1>2, <1>3, <1>4 DEF Line

(* A step that concerns one connection leaves the others in line.          *)
LEMMA OneLine ==
  ASSUME Line, NEW d \in Dirs, LineTypes', AnswerLag', Order(d)', Lag(d)',
         \A e \in Dirs \ {d} :
           /\ toDevice'[e] = toDevice[e] /\ toHost'[e] = toHost[e]
           /\ request'[e] = request[e] /\ loop'[e] = loop[e]
           /\ asked'[e] = asked[e] /\ late'[e] = late[e]
           /\ Pending(e)' <=> Pending(e)
  PROVE  Line'
<1>1. ASSUME NEW e \in Dirs \ {d} PROVE Order(e)' /\ Lag(e)'
  BY <1>1 DEF Line, Order, Lag, Recent, Busy
<1> QED BY <1>1 DEF Line

LEMMA LoopLine == \A d \in Dirs : Line /\ LoopStep(d) => Line'
<1> SUFFICES ASSUME NEW d \in Dirs, Line, LoopStep(d) PROVE Line'
  OBVIOUS
<1> USE DEF LoopAt
<1>1. /\ UNCHANGED <<asked, late, taken, active, connectCh, call, answered>>
      /\ \A e \in Dirs \ {d} : /\ toDevice'[e] = toDevice[e] /\ toHost'[e] = toHost[e]
                               /\ request'[e] = request[e] /\ loop'[e] = loop[e]
  BY DEF LoopStep, ReadHeader, ReadPayload, ReadGarbled, Answer, sendMessage, LoopCancelled, Line, LineTypes,
         pipeVars, hubVars, queueVars, callVars
<1>2. AnswerLag' /\ \A e \in Dirs : Pending(e)' <=> Pending(e)
  BY <1>1 DEF Line, AnswerLag, Pending
<1>3. \A n : Recent(d, n)' <=> Recent(d, n)
  BY <1>1, <1>2 DEF Recent
<1>4. SUFFICES LineTypes' /\ Order(d)' /\ Lag(d)'
  BY <1>1, <1>2, OneLine
<1>5. ASSUME toDevice[d] # <<>>
      PROVE  /\ Head(toDevice[d]) \in Asking /\ 1 \in DOMAIN toDevice[d]
             /\ Head(toDevice[d]) = toDevice[d][1]
             /\ Tail(toDevice[d]) \in Seq(Asking)
             /\ \A i \in DOMAIN Tail(toDevice[d]) :
                  /\ i \in Nat /\ 1 < i + 1 /\ i + 1 \in DOMAIN toDevice[d]
                  /\ Tail(toDevice[d])[i] = toDevice[d][i + 1]
  <2>1. toDevice[d] \in Seq(Asking)
    BY DEF Line, LineTypes
  <2> QED BY <1>5, <2>1, TailAt
<1>6. ASSUME toDevice[d] # <<>>, toDevice' = [toDevice EXCEPT ![d] = Tail(@)], toHost' = toHost
      PROVE  /\ toDevice' \in [Dirs -> Seq(Asking)]
             /\ \A i, j \in DOMAIN toDevice'[d] : i < j => toDevice'[d][i].to < toDevice'[d][j].to
             /\ \A i \in DOMAIN toHost[d], j \in DOMAIN toDevice'[d] : toHost[d][i].to < toDevice'[d][j].to
             /\ \A i \in DOMAIN toDevice'[d] : Recent(d, toDevice'[d][i].to) /\ Head(toDevice[d]).to < toDevice'[d][i].to
  <2>1. toDevice'[d] = Tail(toDevice[d]) /\ toDevice' \in [Dirs -> Seq(Asking)]
    BY <1>5, <1>6 DEF Line, LineTypes
  <2>2. ASSUME NEW i \in DOMAIN toDevice'[d], NEW j \in DOMAIN toDevice'[d], i < j
        PROVE  toDevice'[d][i].to < toDevice'[d][j].to
    <3>1. i + 1 < j + 1
      BY <1>5, <1>6, <2>1, <2>2
    <3> QED BY <1>5, <1>6, <2>1, <3>1 DEF Line, Order
  <2>3. ASSUME NEW i \in DOMAIN toHost[d], NEW j \in DOMAIN toDevice'[d]
        PROVE  toHost[d][i].to < toDevice'[d][j].to
    BY <1>5, <1>6, <2>1 DEF Line, Order
  <2>4. ASSUME NEW i \in DOMAIN toDevice'[d]
        PROVE  Recent(d, toDevice'[d][i].to) /\ Head(toDevice[d]).to < toDevice'[d][i].to
    BY <1>5, <1>6, <2>1 DEF Line, Order, Lag
  <2> QED BY <2>1, <2>2, <2>3, <2>4
<1>7. CASE ReadHeader(d) \/ LoopCancelled(d)
  <2>1. /\ UNCHANGED <<toDevice, toHost, request>>
        /\ \/ loop' = [loop EXCEPT ![d] = "payload"] /\ toDevice[d] # <<>>
           \/ loop' = [loop EXCEPT ![d] = "ended"]
    BY <1>7 DEF ReadHeader, LoopCancelled, pipeVars
  <2>2. ~Busy(d)' /\ LineTypes'
    BY <1>1, <2>1 DEF Line, LineTypes, Busy
  <2> QED BY <1>3, <2>1, <2>2 DEF Line, Order, Lag
<1>8. CASE ReadPayload(d)
  <2> DEFINE m == Head(toDevice[d])
  <2>1. /\ toDevice[d] # <<>> /\ toDevice' = [toDevice EXCEPT ![d] = Tail(@)]
        /\ UNCHANGED toHost
        /\ request' = [request EXCEPT ![d] = [to |-> m.to, kind |-> IF m.kind = "setup" THEN Nobody ELSE "ack"]]
        /\ \E stage \in {"handling", "writing"} : loop' = [loop EXCEPT ![d] = stage]
    BY <1>8 DEF ReadPayload, Line, LineTypes
  <2>2. request'[d].to = m.to /\ request'[d] \in Handling
    BY <1>5, <2>1 DEF Line, LineTypes, Asking, Handling, Answers
  <2>3. LineTypes'
    <3>1. /\ request' \in [Dirs -> Handling \union {Nobody}]
          /\ \A e \in Dirs \ {d} : request'[e] = request[e]
      BY <2>1, <2>2 DEF Line, LineTypes
    <3>2. /\ loop' \in [Dirs -> {"header", "payload", "handling", "writing", "ended"}]
          /\ loop'[d] # "payload" /\ \A e \in Dirs \ {d} : loop'[e] = loop[e]
      BY <2>1 DEF Line, LineTypes
    <3> QED BY <1>1, <1>6, <2>1, <2>2, <3>1, <3>2 DEF Line, LineTypes, Busy
  <2>4. Order(d)'
    <3>1. \A i \in DOMAIN toHost[d] : toHost[d][i].to < m.to
      BY <1>5, <2>1 DEF Line, Order
    <3> QED BY <1>6, <2>1, <2>2, <3>1 DEF Line, Order
  <2>5. Lag(d)'
    <3>1. Recent(d, m.to)
      BY <1>5, <2>1 DEF Line, Lag
    <3> QED BY <1>3, <1>6, <2>1, <2>2, <3>1 DEF Line, Lag
  <2> QED BY <2>3, <2>4, <2>5
<1>9. CASE ReadGarbled(d)
  <2>1. /\ toDevice[d] # <<>> /\ toDevice' = [toDevice EXCEPT ![d] = Tail(@)]
        /\ UNCHANGED <<toHost, request>> /\ loop' = [loop EXCEPT ![d] = "header"]
    BY <1>9 DEF ReadGarbled, Line, LineTypes
  <2>2. ~Busy(d)' /\ LineTypes'
    BY <1>1, <1>6, <2>1 DEF Line, LineTypes, Busy
  <2> QED BY <1>3, <1>6, <2>1, <2>2 DEF Line, Order, Lag
<1>10. CASE Answer(d)
  <2>1. loop[d] = "handling" /\ request[d] \in Handling /\ UNCHANGED <<toDevice, toHost>>
    BY <1>10 DEF Answer, Line, LineTypes, Busy, pipeVars
  <2>2. CASE \E a \in Answers : request' = [request EXCEPT ![d].kind = a] /\ loop' = [loop EXCEPT ![d] = "writing"]
    <3>1. request'[d].to = request[d].to /\ request'[d] \in Handling
      <4>1. PICK a \in Answers : request' = [request EXCEPT ![d].kind = a]
        BY <2>2
      <4>2. request'[d] = [request[d] EXCEPT !.kind = a]
        BY <4>1 DEF Line, LineTypes
      <4> QED BY <2>1, <4>2 DEF Handling
    <3>2. LineTypes'
      BY <1>1, <2>1, <2>2, <3>1 DEF Line, LineTypes, Busy
    <3> QED BY <1>3, <2>1, <3>1, <3>2 DEF Line, Order, Lag, Busy
  <2>3. CASE loop' = [loop EXCEPT ![d] = "header"] /\ request' = [request EXCEPT ![d] = Nobody]
    <3>1. ~Busy(d)' /\ LineTypes'
      BY <1>1, <2>1, <2>3 DEF Line, LineTypes, Busy
    <3> QED BY <1>3, <2>1, <3>1 DEF Line, Order, Lag
  <2> QED BY <1>10, <2>2, <2>3 DEF Answer
<1>11. CASE sendMessage(d)
  <2>1. /\ loop[d] = "writing" /\ request[d] \in Handling
        /\ toHost' = [toHost EXCEPT ![d] = Append(@, Message(d))]
        /\ loop' = [loop EXCEPT ![d] = "header"] /\ request' = [request EXCEPT ![d] = Nobody]
        /\ UNCHANGED toDevice
    BY <1>11 DEF sendMessage, Line, LineTypes, Busy
  <2>2. Message(d) \in Replying /\ Message(d).to = request[d].to
    BY <2>1 DEF Message, Handling, Replying
  <2>3. /\ toHost' \in [Dirs -> Seq(Replying)]
        /\ \A i \in DOMAIN toHost'[d] :
             \/ i \in DOMAIN toHost[d] /\ i \in Nat /\ i <= Len(toHost[d]) /\ toHost'[d][i] = toHost[d][i]
             \/ i = Len(toHost[d]) + 1 /\ toHost'[d][i] = Message(d)
        /\ Len(toHost[d]) \in Nat
    BY <2>1, <2>2, AppendAt DEF Line, LineTypes
  <2>4. ~Busy(d)' /\ LineTypes'
    BY <1>1, <2>1, <2>3 DEF Line, LineTypes, Busy
  <2>5. Order(d)'
    <3>1. ASSUME NEW i \in DOMAIN toHost'[d], NEW j \in DOMAIN toHost'[d], i < j
          PROVE  toHost'[d][i].to < toHost'[d][j].to
      BY <2>1, <2>2, <2>3, <3>1 DEF Line, Order, Busy
    <3>2. ASSUME NEW i \in DOMAIN toHost'[d], NEW j \in DOMAIN toDevice'[d]
          PROVE  toHost'[d][i].to < toDevice'[d][j].to
      BY <2>1, <2>2, <2>3 DEF Line, Order, Busy
    <3> QED BY <2>1, <2>4, <3>1, <3>2 DEF Line, Order
  <2>6. Lag(d)'
    BY <1>3, <2>1, <2>2, <2>3, <2>4 DEF Line, Lag, Busy
  <2> QED BY <2>4, <2>5, <2>6
<1> QED BY <1>7, <1>8, <1>9, <1>10, <1>11 DEF LoopStep

(* A process that ends takes the requests with it that it has not read.    *)
LEMMA LifeLine == \A d \in Dirs : Line /\ DeviceLife(d) => Line'
<1> SUFFICES ASSUME NEW d \in Dirs, Line, DeviceLife(d) PROVE Line'
  OBVIOUS
<1>1. UNCHANGED <<toHost, request, asked, late, taken, active, connectCh, call, answered>>
  BY DEF DeviceLife, HalInit, HalStart, HalStop, cleanup, Crash, pipeVars, deviceVars, hubVars, queueVars, callVars
<1>2. AnswerLag' /\ \A e \in Dirs : Pending(e)' <=> Pending(e)
  BY <1>1 DEF Line, AnswerLag, Pending
<1>3. \A e \in Dirs : \A n : Recent(e, n)' <=> Recent(e, n)
  BY <1>1, <1>2 DEF Recent
<1>4. CASE UNCHANGED <<toDevice, loop>>
  BY <1>1, <1>2, <1>3, <1>4 DEF Line, LineTypes, Order, Lag, Busy
<1>5. CASE LoseEnds(d)
  <2>1. toDevice' = [toDevice EXCEPT ![d] = <<>>] /\ loop' = [loop EXCEPT ![d] = "ended"]
    BY <1>5 DEF LoseEnds
  <2>2. toDevice'[d] = <<>> /\ ~Busy(d)'
    BY <2>1 DEF Line, LineTypes, Busy
  <2>3. LineTypes'
    BY <1>1, <2>1 DEF Line, LineTypes, Busy
  <2>4. Order(d)' /\ Lag(d)'
    BY <1>1, <1>3, <2>2 DEF Line, Order, Lag
  <2>5. \A e \in Dirs \ {d} : toDevice'[e] = toDevice[e] /\ loop'[e] = loop[e]
    BY <2>1 DEF Line, LineTypes
  <2> QED BY <1>1, <1>2, <2>3, <2>4, <2>5, OneLine
<1> QED BY <1>4, <1>5 DEF DeviceLife, HalInit, HalStart, HalStop, cleanup, Crash, pipeVars, deviceVars

(* The host's calls: the next number, an answer taken, a deadline.         *)
LEMMA CallLine ==
  Line /\ ((\E r \in Requests : HostWrites(r)) \/ HostReads \/ HostTimesOut) => Line'
<1> SUFFICES ASSUME Line, (\E r \in Requests : HostWrites(r)) \/ HostReads \/ HostTimesOut
             PROVE Line'
  OBVIOUS
<1>1. UNCHANGED <<request, loop, taken, active, connectCh>>
  BY DEF HostWrites, HostReads, HostTimesOut, deviceVars, hubVars, queueVars, pipeVars
<1>2. PICK d \in Dirs : d = active
  BY LinkAssumption DEF HostWrites, HostReads, HostTimesOut, Line, LineTypes
<1>3. \A e \in Dirs \ {d} : ~Pending(e) /\ ~Pending(e)'
  BY <1>1, <1>2 DEF Pending
<1>4. CASE \E r \in Requests : HostWrites(r)
  <2>1. PICK r \in Requests : HostWrites(r)
    BY <1>4
  <2>0. PICK m : m = [to |-> asked'[d], kind |-> r]
    OBVIOUS
  <2>2. /\ asked' = [asked EXCEPT ![d] = @ + 1] /\ late' = late /\ toHost' = toHost
        /\ toDevice' = [toDevice EXCEPT ![d] = Append(@, m)]
        /\ call = "writing" /\ call' = r /\ answered' = answered
    BY <1>2, <2>1, <2>0 DEF HostWrites
  <2>3. /\ m \in Asking /\ m.to = asked[d] + 1 /\ asked[d] \in Nat /\ late[d] \in Nat
        /\ asked'[d] = asked[d] + 1
    BY <1>2, <2>2, <2>0 DEF Line, LineTypes, Asking
  <2>4. /\ toDevice' \in [Dirs -> Seq(Asking)] /\ toDevice'[d] # <<>>
        /\ \A i \in DOMAIN toDevice'[d] :
             \/ i \in DOMAIN toDevice[d] /\ i \in Nat /\ i <= Len(toDevice[d])
                /\ toDevice'[d][i] = toDevice[d][i]
             \/ i = Len(toDevice[d]) + 1 /\ toDevice'[d][i] = m
        /\ Len(toDevice[d]) \in Nat
    <3>1. toDevice[d] \in Seq(Asking) /\ toDevice'[d] = Append(toDevice[d], m)
      BY <1>2, <2>2 DEF Line, LineTypes
    <3>2. Append(toDevice[d], m) # <<>>
      <4>1. Len(Append(toDevice[d], m)) = Len(toDevice[d]) + 1 /\ Len(toDevice[d]) \in Nat
        BY <2>3, <3>1, AppendAt
      <4> QED BY <4>1
    <3> QED BY <1>2, <2>2, <2>3, <3>1, <3>2, AppendAt DEF Line, LineTypes
  <2>5. LineTypes'
    BY <1>1, <1>2, <2>2, <2>4 DEF Line, LineTypes, Busy
  <2>6. ~Pending(d) /\ Pending(d)'
    BY <1>1, <1>2, <2>2 DEF Pending, Requests
  <2>7. ASSUME NEW n \in Nat, Recent(d, n)
        PROVE  n < m.to /\ Recent(d, n)'
    BY <1>1, <2>2, <2>3, <2>6, <2>7 DEF Recent
  <2>8. /\ \A i \in DOMAIN toHost[d] : toHost[d][i].to \in Nat
        /\ \A i \in DOMAIN toDevice[d] : toDevice[d][i].to \in Nat
        /\ Busy(d) => request[d].to \in Nat
    <3>1. /\ toHost[d] \in Seq(Replying) /\ toDevice[d] \in Seq(Asking)
          /\ Busy(d) => request[d] \in Handling
      BY <1>2 DEF Line, LineTypes
    <3>2. /\ \A i \in DOMAIN toHost[d] : toHost[d][i] \in Replying
          /\ \A i \in DOMAIN toDevice[d] : toDevice[d][i] \in Asking
      BY <3>1
    <3> QED BY <3>1, <3>2 DEF Replying, Asking, Handling
  <2>9. Order(d)'
    <3>1. ASSUME NEW i \in DOMAIN toDevice'[d], NEW j \in DOMAIN toDevice'[d], i < j
          PROVE  toDevice'[d][i].to < toDevice'[d][j].to
      BY <1>2, <2>4, <2>7, <2>8, <3>1 DEF Line, Order, Lag
    <3>2. ASSUME NEW i \in DOMAIN toHost[d], NEW j \in DOMAIN toDevice'[d]
          PROVE  toHost[d][i].to < toDevice'[d][j].to
      BY <1>2, <2>4, <2>7, <2>8 DEF Line, Order, Lag
    <3>3. ASSUME Busy(d), NEW j \in DOMAIN toDevice'[d]
          PROVE  request[d].to < toDevice'[d][j].to
      BY <1>2, <2>4, <2>7, <2>8, <3>3 DEF Line, Order, Lag
    <3> QED BY <1>1, <1>2, <2>2, <3>1, <3>2, <3>3 DEF Line, Order, Busy
  <2>10. Lag(d)'
    <3>1. Recent(d, m.to)'
      BY <1>1, <2>2, <2>3, <2>6 DEF Recent
    <3>2. \A j \in DOMAIN toDevice'[d] : Recent(d, toDevice[d][j].to)'
      BY <1>2, <2>4, <2>7, <2>8, <3>1 DEF Line, Lag, Recent
    <3>3. \A i \in DOMAIN toHost'[d] : Recent(d, toHost[d][i].to)'
      BY <1>2, <2>2, <2>7, <2>8 DEF Line, Lag, Recent
    <3>4. Busy(d) => Recent(d, request[d].to)'
      BY <1>1, <1>2, <2>7, <2>8 DEF Line, Lag, Recent
    <3> QED BY <1>1, <2>2, <3>2, <3>3, <3>4 DEF Lag, Busy
  <2>11. AnswerLag'
    BY <2>2 DEF Line, AnswerLag
  <2>12. \A e \in Dirs \ {d} : /\ toDevice'[e] = toDevice[e] /\ asked'[e] = asked[e]
    BY <2>2 DEF Line, LineTypes
  <2> QED BY <1>1, <1>2, <1>3, <2>2, <2>5, <2>9, <2>10, <2>11, <2>12, OneLine
<1>5. CASE HostReads
  <2>1. /\ call \in Requests /\ call' = Nobody /\ toHost[d] # <<>>
        /\ toHost' = [toHost EXCEPT ![d] = <<>>]
        /\ UNCHANGED <<toDevice, asked, late>>
        /\ answered' = [call |-> asked[d], from |-> Head(toHost[d]), late |-> late[d]]
    BY <1>2, <1>5 DEF HostReads
  <2> DEFINE n == Head(toHost[d]).to
  <2>2. n \in Nat /\ 1 \in DOMAIN toHost[d] /\ n = toHost[d][1].to
    <3>1. toHost[d] \in Seq(Replying)
      BY <1>2 DEF Line, LineTypes
    <3>2. Head(toHost[d]) \in Replying /\ Head(toHost[d]) = toHost[d][1] /\ 1 \in DOMAIN toHost[d]
      BY <2>1, <3>1, TailAt
    <3> QED BY <3>2 DEF Replying
  <2>3. n <= asked[d] /\ asked[d] <= n + late[d]
    BY <1>2, <2>2 DEF Line, Lag, Recent
  <2>4. AnswerLag'
    BY <2>1, <2>3 DEF AnswerLag
  <2>5. toHost'[d] = <<>> /\ LineTypes'
    BY <1>1, <1>2, <2>1, LinkAssumption DEF Line, LineTypes, Busy
  <2>6. asked[d] \in Nat /\ late[d] \in Nat /\ ~Pending(d)'
    BY <1>1, <1>2, <2>1, LinkAssumption DEF Line, LineTypes, Pending
  <2>7. ASSUME NEW k \in Nat, n < k, Recent(d, k)
        PROVE  Recent(d, k)'
    BY <1>1, <2>1, <2>2, <2>3, <2>6, <2>7 DEF Recent
  <2>8. /\ \A i \in DOMAIN toDevice[d] : toDevice[d][i].to \in Nat
        /\ Busy(d) => request[d].to \in Nat
    <3>1. /\ toDevice[d] \in Seq(Asking)
          /\ Busy(d) => request[d] \in Handling
      BY <1>2 DEF Line, LineTypes
    <3>2. \A i \in DOMAIN toDevice[d] : toDevice[d][i] \in Asking
      BY <3>1
    <3> QED BY <3>1, <3>2 DEF Asking, Handling
  <2>9. Order(d)'
    BY <1>1, <1>2, <2>1, <2>5 DEF Line, Order, Busy
  <2>10. Lag(d)'
    <3>1. \A i \in DOMAIN toDevice[d] : Recent(d, toDevice[d][i].to)'
      BY <1>2, <2>1, <2>2, <2>7, <2>8 DEF Line, Order, Lag, Recent
    <3>2. Busy(d) => Recent(d, request[d].to)'
      BY <1>1, <1>2, <2>2, <2>7, <2>8 DEF Line, Order, Lag, Recent
    <3> QED BY <1>1, <2>1, <2>5, <3>1, <3>2 DEF Lag, Busy
  <2>11. \A e \in Dirs \ {d} : toHost'[e] = toHost[e]
    BY <2>1 DEF Line, LineTypes
  <2> QED BY <1>1, <1>2, <1>3, <2>1, <2>4, <2>5, <2>9, <2>10, <2>11, OneLine
<1>6. CASE HostTimesOut
  <2>1. /\ call \in Requests /\ call' = Nobody /\ UNCHANGED <<toDevice, toHost, asked, answered>>
        /\ late' = [late EXCEPT ![d] = @ + 1]
    BY <1>2, <1>6 DEF HostTimesOut, pipeVars
  <2>2. late[d] \in Nat /\ late'[d] = late[d] + 1 /\ asked[d] \in Nat /\ late' \in [Dirs -> Nat]
    BY <1>2, <2>1 DEF Line, LineTypes
  <2>3. LineTypes'
    BY <1>1, <2>1, <2>2, LinkAssumption DEF Line, LineTypes, Busy
  <2>4. ASSUME NEW n \in Nat, Recent(d, n)
        PROVE  Recent(d, n)'
    BY <1>1, <2>1, <2>2, <2>4 DEF Recent
  <2>5. /\ \A i \in DOMAIN toHost[d] : toHost[d][i].to \in Nat
        /\ \A i \in DOMAIN toDevice[d] : toDevice[d][i].to \in Nat
        /\ Busy(d) => request[d].to \in Nat
    <3>1. /\ toHost[d] \in Seq(Replying) /\ toDevice[d] \in Seq(Asking)
          /\ Busy(d) => request[d] \in Handling
      BY <1>2 DEF Line, LineTypes
    <3>2. /\ \A i \in DOMAIN toHost[d] : toHost[d][i] \in Replying
          /\ \A i \in DOMAIN toDevice[d] : toDevice[d][i] \in Asking
      BY <3>1
    <3> QED BY <3>1, <3>2 DEF Replying, Asking, Handling
  <2>6. Order(d)'
    BY <1>1, <1>2, <2>1 DEF Line, Order, Busy
  <2>7. Lag(d)'
    BY <1>1, <1>2, <2>1, <2>4, <2>5 DEF Line, Lag, Busy
  <2>8. AnswerLag'
    BY <2>1 DEF Line, AnswerLag
  <2>9. \A e \in Dirs \ {d} : late'[e] = late[e]
    BY <2>1 DEF Line, LineTypes
  <2> QED BY <1>1, <1>2, <1>3, <2>1, <2>3, <2>6, <2>7, <2>8, <2>9, OneLine
<1> QED BY <1>4, <1>5, <1>6

(* Everything else leaves the line alone; the active connection changes    *)
(* only when no call is under way.                                         *)
Beside == /\ UNCHANGED <<toDevice, toHost, request, loop, asked, late>>
          /\ answered' \in {answered, Nobody}
          /\ {taken', active'} \subseteq Dirs \union {Nobody} /\ connectCh' \in Seq(Dirs)
          /\ \/ UNCHANGED <<call, active>>
             \/ {call, call'} \subseteq {Nobody, "writing", "out", "bulk"} /\ (call' # Nobody => active' \in Dirs)
LEMMA BesideLine == Line /\ Beside => Line'
<1> SUFFICES ASSUME Line, Beside PROVE Line'
  OBVIOUS
<1>1. {Nobody, "writing", "out", "bulk"} \intersect Requests = {}
  BY LinkAssumption DEF Requests
<1>2. \A e \in Dirs : Pending(e)' <=> Pending(e)
  BY <1>1 DEF Beside, Pending
<1>3. LineTypes' /\ AnswerLag'
  BY DEF Line, LineTypes, Busy, Beside, AnswerLag
<1>4. \A e \in Dirs : Order(e)' /\ Lag(e)'
  BY <1>2 DEF Line, Order, Lag, Recent, Busy, Beside
<1> QED BY <1>3, <1>4 DEF Line

LEMMA RestLine ==
  Line /\ (\/ \E d \in Dirs : DriverStep(d) \/ HandlerStep(d)
           \/ WaitStep \/ StopCancel \/ StopWaits
           \/ HostCalls \/ HostWriteFails \/ OutWrites
           \/ TransferOut \/ TransferInStarts \/ TransferInEnds \/ UNCHANGED vars) => Line'
<1> SUFFICES ASSUME Line,
                    \/ \E d \in Dirs : DriverStep(d) \/ HandlerStep(d)
                    \/ WaitStep \/ StopCancel \/ StopWaits
                    \/ HostCalls \/ HostWriteFails \/ OutWrites
                    \/ TransferOut \/ TransferInStarts \/ TransferInEnds \/ UNCHANGED vars
             PROVE Beside
  BY BesideLine
<1> USE DEF Beside, pipeVars, deviceVars, hubVars, queueVars, callVars
<1>0. connectCh \in Seq(Dirs) /\ {taken, active} \subseteq Dirs \union {Nobody}
  BY DEF Line, LineTypes
<1>1. CASE \E d \in Dirs : DriverStep(d)
  BY <1>0, <1>1 DEF DriverStep, DriverReads, readPacket, DriverWrites, writePacket
<1>2. CASE \E d \in Dirs : HandlerStep(d)
  <2>1. PICK d \in Dirs : HandlerStep(d)
    BY <1>2
  <2>2. connectCh' \in Seq(Dirs)
    <3>1. Append(connectCh, d) \in Seq(Dirs)
      BY <1>0, AppendAt
    <3> QED BY <1>0, <2>1, <3>1 DEF HandlerStep, pollDeviceDirectories, OpenConnection, handleDeviceDirectory,
          SendConnect, monitorDeviceConnection, SendDisconnect, HandlerCancelled
  <2> QED BY <1>0, <2>1, <2>2 DEF HandlerStep, pollDeviceDirectories, OpenConnection, handleDeviceDirectory,
          SendConnect, monitorDeviceConnection, SendDisconnect, HandlerCancelled
<1>3. CASE ReceiveConnection
  <2>1. Head(connectCh) \in Dirs /\ Tail(connectCh) \in Seq(Dirs)
    BY <1>0, <1>3, TailAt DEF ReceiveConnection
  <2> QED BY <1>0, <1>3, <2>1 DEF ReceiveConnection
<1>4. CASE WaitForConnection \/ ReceiveDisconnection \/ WaitForDisconnection
  BY <1>0, <1>4 DEF WaitForConnection, ReceiveDisconnection, WaitForDisconnection
<1>5. CASE StopCancel \/ StopWaits \/ UNCHANGED vars
  BY <1>0, <1>5 DEF StopCancel, StopWaits, vars
<1>6. CASE HostCalls \/ HostWriteFails \/ OutWrites \/ TransferOut \/ TransferInStarts \/ TransferInEnds
  <2>1. active \in Dirs
    BY <1>0, <1>6, LinkAssumption DEF HostCalls, HostWriteFails, OutWrites, TransferOut, TransferInStarts,
         TransferInEnds, Line, LineTypes
  <2> QED BY <1>0, <1>6, <2>1 DEF HostCalls, HostWriteFails, OutWrites, TransferOut, TransferInStarts, TransferInEnds
<1> QED BY <1>1, <1>2, <1>3, <1>4, <1>5, <1>6 DEF WaitStep

LEMMA NextLine == Line /\ [Next]_vars => Line'
  BY LoopLine, LifeLine, CallLine, RestLine DEF Next, CallWrites, CallReads

(* The answer a host's call takes belongs to it or to an earlier request   *)
(* of the same connection, and it is at most as many requests behind as    *)
(* calls of that connection have run into their deadline                   *)
(* (ControlTransfer of host/hal/fifo, ReadSetup and sendMessage of         *)
(* device/hal/fifo).                                                       *)
THEOREM LagBounded == Spec => []AnswerLag
<1>1. Init => Line
  BY InitLine
<1>2. Line /\ [Next]_vars => Line'
  BY NextLine
<1>3. Line => AnswerLag
  BY DEF Line
<1> QED BY <1>1, <1>2, <1>3, PTL DEF Spec
===============================================================================
