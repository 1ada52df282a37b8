--------------------------- MODULE ServiceProofs ----------------------------
(***************************************************************************)
(* The daemon's lock protects its socket, and no client takes a part of a  *)
(* reply for all of it, for any number of daemons and clients, any reply   *)
(* lengths and any socket buffer.                                          *)
(***************************************************************************)
EXTENDS Service, TLAPS

Phase == {"down", "locked", "cleared", "serving", "draining", "closing", "exiting"}

(***************************************************************************)
(* The lock belongs to whoever is past singleton::acquire, and a listening *)
(* daemon's socket is in place.                                            *)
(***************************************************************************)
SocketTypes ==
    /\ pc \in [Daemon -> Phase]
    /\ lock \in Daemon \cup {NoValue}
    /\ sock \in Daemon \cup {NoValue}

LockHeld == \A d \in Daemon : pc[d] # "down" => lock = d

SocketBound == \A d \in Daemon : pc[d] = "serving" => sock = d

SocketInv == SocketTypes /\ LockHeld /\ SocketBound

\* With no daemon up nobody holds the lock.
LEMMA SocketInit == Init => SocketInv
BY DEF Init, SocketInv, SocketTypes, LockHeld, SocketBound, Phase

\* Every step of serve() and every kill keeps the lock and the socket in order.
LEMMA SocketNext == SocketInv /\ [Next]_vars => SocketInv'
<1> SUFFICES ASSUME SocketInv, [Next]_vars PROVE SocketInv'
  OBVIOUS
<1> USE ServiceAssumption DEF SocketInv, SocketTypes, LockHeld, SocketBound, Phase
<1>1. ASSUME NEW d \in Daemon, Start(d) PROVE SocketInv'
  BY <1>1 DEF Start
<1>2. ASSUME NEW d \in Daemon, ClearSocket(d) PROVE SocketInv'
  BY <1>2 DEF ClearSocket
<1>3. ASSUME NEW d \in Daemon, Bind(d) PROVE SocketInv'
  BY <1>3 DEF Bind
<1>4. ASSUME NEW d \in Daemon, DrainDone(d) PROVE SocketInv'
  BY <1>4 DEF DrainDone
<1>5. ASSUME NEW d \in Daemon, DrainTimeout(d) PROVE SocketInv'
  BY <1>5 DEF DrainTimeout
<1>6. ASSUME NEW d \in Daemon, RemoveSocket(d) PROVE SocketInv'
  BY <1>6 DEF RemoveSocket
<1>7. ASSUME NEW d \in Daemon, Exit(d) PROVE SocketInv'
  BY <1>7 DEF Exit, Unlocked
<1>8. ASSUME NEW d \in Daemon, Shutdown(d) PROVE SocketInv'
  BY <1>8 DEF Shutdown, Listening
<1>9. ASSUME NEW d \in Daemon, Kill(d) PROVE SocketInv'
  BY <1>9 DEF Kill, Unlocked
<1>10. ASSUME NEW c \in Client, HandlerStep(c) \/ ClientStep(c) PROVE SocketInv'
  <2>1. UNCHANGED <<pc, lock, sock>>
    BY <1>10 DEF HandlerStep, ClientStep, Accept, SendBatch, SendLast, SendError, HandlerFails,
                 Connect, FallBack, Receive, StreamEnds, Quit
  <2> QED
    BY <2>1
<1>11. CASE UNCHANGED vars
  BY <1>11 DEF vars
<1> QED
  BY <1>1, <1>2, <1>3, <1>4, <1>5, <1>6, <1>7, <1>8, <1>9, <1>10, <1>11 DEF Next, DaemonStep

(***************************************************************************)
(* For any number of daemon processes started and killed at any time: one  *)
(* that accepts connections holds the lock, is the only one running and is *)
(* the one the socket file leads to (singleton::acquire, serve).           *)
(***************************************************************************)
THEOREM SocketStaysLive == Spec => []SocketIsLive
<1>1. SocketInv => SocketIsLive
  BY DEF SocketInv, SocketTypes, LockHeld, SocketBound, SocketIsLive, Listening
<1> QED
  BY <1>1, SocketInit, SocketNext, PTL DEF Spec

-----------------------------------------------------------------------------
(***************************************************************************)
(* What a connection's counters say of its reply.  The terminal frame is   *)
(* the last one sent, Done behind all batches and Error instead of any.    *)
(* The client has read Done when it shows the results; when it searches by *)
(* itself it has read nothing, or an Error frame.                          *)
(***************************************************************************)
ConnType ==
    [st : {"idle", "waiting", "direct", "results", "error", "quit"},
     srv : Daemon \cup {NoValue}, accepted : BOOLEAN, sent : Nat, got : Nat,
     last : {NoValue, "Done", "Error"}]

ReplyOk(k, c) ==
    /\ k.got <= k.sent
    /\ k.last = "Done" => k.sent = Batches[c] + 1
    /\ k.st = "results" => k.got = k.sent /\ k.last = "Done"
    /\ k.last = "Error" => k.sent = 1
    /\ k.st = "idle" => k.got = 0
    /\ k.st = "direct" => k.got = 0 \/ (k.got = k.sent /\ k.last = "Error")

ReplyInv ==
    /\ sock \in Daemon \cup {NoValue}
    /\ conn \in [Client -> ConnType]
    /\ \A c \in Client : ReplyOk(conn[c], c)

\* Before the first connection nothing has been sent or read.
LEMMA ReplyInit == Init => ReplyInv
BY ServiceAssumption DEF Init, NoConn, ReplyInv, ReplyOk, ConnType

\* Closing connections changes no counter.
LEMMA ClosedKeeps ==
    ASSUME ReplyInv, NEW cs, conn' = Closed(cs), sock' \in Daemon \cup {NoValue}
    PROVE  ReplyInv'
<1>1. \A c \in Client : conn'[c] \in {conn[c], [conn[c] EXCEPT !.srv = NoValue]}
  BY DEF Closed
<1>2. conn' \in [Client -> ConnType]
  BY <1>1 DEF Closed, ReplyInv, ConnType
<1>3. ASSUME NEW c \in Client PROVE ReplyOk(conn'[c], c)
  <2>1. /\ conn'[c].got = conn[c].got /\ conn'[c].sent = conn[c].sent
        /\ conn'[c].last = conn[c].last /\ conn'[c].st = conn[c].st
    BY <1>1 DEF ReplyInv, ConnType
  <2> QED
    BY <2>1 DEF ReplyInv, ReplyOk
<1> QED
  BY <1>2, <1>3 DEF ReplyInv

\* The terminal frame leaves a connection well-formed (SendLast).
LEMMA SentType ==
    ASSUME NEW k \in ConnType, NEW n \in Nat
    PROVE  [k EXCEPT !.sent = n, !.last = "Done", !.srv = NoValue] \in ConnType
BY DEF ConnType

\* So does a frame that is read (Receive).
LEMMA GotType ==
    ASSUME NEW k \in ConnType, NEW n \in Nat, NEW st \in {"waiting", "results", "error", "direct"}
    PROVE  [k EXCEPT !.got = n, !.st = st] \in ConnType
BY DEF ConnType

\* A connection that changes to another sound one.
LEMMA ReplyUpdate ==
    ASSUME ReplyInv, NEW c \in Client, NEW new \in ConnType, ReplyOk(new, c),
           conn' = [conn EXCEPT ![c] = new], sock' = sock
    PROVE  ReplyInv'
BY DEF ReplyInv

\* No step of a handler or of a client breaks its own reply, and none touches another's.
LEMMA ReplyStep ==
    ASSUME ReplyInv, NEW c \in Client, HandlerStep(c) \/ ClientStep(c)
    PROVE  ReplyInv'
<1> DEFINE k == conn[c]
<1>1. k \in ConnType /\ ReplyOk(k, c) /\ sock \in Daemon \cup {NoValue} /\ Batches[c] \in Nat
  BY ServiceAssumption DEF ReplyInv
<1>2. sock' = sock
  BY DEF HandlerStep, ClientStep, Accept, SendBatch, SendLast, SendError, HandlerFails,
         Connect, FallBack, Receive, StreamEnds, Quit
<1>3. CASE Accept(c)
  <2> DEFINE new == [k EXCEPT !.accepted = TRUE]
  <2>1. conn' = [conn EXCEPT ![c] = new]
    BY <1>3 DEF Accept
  <2>2. new \in ConnType /\ ReplyOk(new, c)
    BY <1>1, <2>1, ServiceAssumption DEF ReplyOk, ConnType
  <2> QED
    BY <1>2, <2>1, <2>2, ReplyUpdate
<1>4. CASE SendBatch(c)
  <2> DEFINE new == [k EXCEPT !.sent = k.sent + 1]
  <2>1. conn' = [conn EXCEPT ![c] = new] /\ k.last = NoValue
    BY <1>4 DEF SendBatch, CanSend
  <2>2. new \in ConnType /\ ReplyOk(new, c)
    BY <1>1, <2>1, ServiceAssumption DEF ReplyOk, ConnType
  <2> QED
    BY <1>2, <2>1, <2>2, ReplyUpdate
<1>5. CASE SendLast(c)
  <2> DEFINE new == [k EXCEPT !.sent = k.sent + 1, !.last = "Done", !.srv = NoValue]
  <2>1. conn' = [conn EXCEPT ![c] = new] /\ k.last = NoValue /\ k.sent = Batches[c]
    BY <1>5 DEF SendLast, CanSend
  <2>2. k.st # "results" /\ (k.st = "direct" => k.got = 0)
    BY <1>1, <2>1, ServiceAssumption DEF ReplyOk
  <2>3. new \in ConnType
    <3>1. k.sent + 1 \in Nat
      BY <1>1 DEF ConnType
    <3> QED
      BY <1>1, <3>1, SentType
  <2>4. new.sent = k.sent + 1 /\ new.last = "Done" /\ new.got = k.got /\ new.st = k.st
    BY <1>1 DEF ConnType
  <2>5. ReplyOk(new, c)
    BY <1>1, <2>1, <2>2, <2>4 DEF ReplyOk, ConnType
  <2> QED
    BY <1>2, <2>1, <2>3, <2>5, ReplyUpdate
<1>6. CASE SendError(c)
  <2> DEFINE new == [k EXCEPT !.sent = 1, !.last = "Error", !.srv = NoValue]
  <2>1. conn' = [conn EXCEPT ![c] = new] /\ k.last = NoValue /\ k.sent = 0
    BY <1>6 DEF SendError, CanSend
  <2>2. k.st # "results" /\ (k.st = "direct" => k.got = 0)
    BY <1>1, <2>1, ServiceAssumption DEF ReplyOk
  <2>3. new \in ConnType
    BY <1>1 DEF ConnType
  <2>4. new.sent = 1 /\ new.last = "Error" /\ new.got = k.got /\ new.st = k.st
    BY <1>1 DEF ConnType
  <2>5. ReplyOk(new, c)
    BY <1>1, <2>1, <2>2, <2>4 DEF ReplyOk, ConnType
  <2> QED
    BY <1>2, <2>1, <2>3, <2>5, ReplyUpdate
<1>7. CASE HandlerFails(c)
  <2> DEFINE new == [k EXCEPT !.srv = NoValue]
  <2>1. conn' = [conn EXCEPT ![c] = new]
    BY <1>7 DEF HandlerFails
  <2>2. new \in ConnType /\ ReplyOk(new, c)
    BY <1>1, <2>1, ServiceAssumption DEF ReplyOk, ConnType
  <2> QED
    BY <1>2, <2>1, <2>2, ReplyUpdate
<1>8. CASE Connect(c)
  <2> DEFINE new == [k EXCEPT !.st = "waiting", !.srv = sock]
  <2>1. conn' = [conn EXCEPT ![c] = new]
    BY <1>8 DEF Connect
  <2>2. new \in ConnType /\ ReplyOk(new, c)
    BY <1>1, <2>1, ServiceAssumption DEF ReplyOk, ConnType
  <2> QED
    BY <1>2, <2>1, <2>2, ReplyUpdate
<1>9. CASE FallBack(c)
  <2> DEFINE new == [k EXCEPT !.st = "direct"]
  <2>1. conn' = [conn EXCEPT ![c] = new] /\ k.st = "idle"
    BY <1>9 DEF FallBack
  <2>2. new \in ConnType /\ ReplyOk(new, c)
    BY <1>1, <2>1, ServiceAssumption DEF ReplyOk, ConnType
  <2> QED
    BY <1>2, <2>1, <2>2, ReplyUpdate
<1>10. CASE Receive(c)
  <2> DEFINE last == k.got + 1 = k.sent /\ k.last # NoValue
  <2>a. PICK st \in IF last THEN Outcomes(k.last) ELSE {"waiting"} :
            conn' = [conn EXCEPT ![c].got = k.got + 1, ![c].st = st]
    BY <1>10 DEF Receive
  <2> DEFINE new == [k EXCEPT !.got = k.got + 1, !.st = st]
  <2>1. conn' = [conn EXCEPT ![c] = new] /\ k.got < k.sent /\ k.st = "waiting"
    BY <1>10, <2>a DEF Receive
  <2>2. /\ st \in {"waiting", "results", "error", "direct"}
        /\ st = "results" => k.got + 1 = k.sent /\ k.last = "Done"
        /\ st = "direct" => k.got + 1 = k.sent /\ k.last = "Error"
    BY <1>1, <2>a DEF Outcomes, ConnType
  <2>3. new \in ConnType
    <3>1. k.got + 1 \in Nat
      BY <1>1 DEF ConnType
    <3> QED
      BY <1>1, <2>2, <3>1, GotType
  <2>4. new.sent = k.sent /\ new.last = k.last /\ new.got = k.got + 1 /\ new.st = st
    BY <1>1 DEF ConnType
  <2>5. ReplyOk(new, c)
    BY <1>1, <2>1, <2>2, <2>4 DEF ReplyOk, ConnType
  <2> QED
    BY <1>2, <2>1, <2>3, <2>5, ReplyUpdate
<1>11. CASE StreamEnds(c)
  <2> DEFINE new == [k EXCEPT !.st = "error"]
  <2>1. conn' = [conn EXCEPT ![c] = new]
    BY <1>11 DEF StreamEnds
  <2>2. new \in ConnType /\ ReplyOk(new, c)
    BY <1>1, <2>1, ServiceAssumption DEF ReplyOk, ConnType
  <2> QED
    BY <1>2, <2>1, <2>2, ReplyUpdate
<1>12. CASE Quit(c)
  <2> DEFINE new == [k EXCEPT !.st = "quit", !.srv = NoValue]
  <2>1. conn' = [conn EXCEPT ![c] = new]
    BY <1>12 DEF Quit
  <2>2. new \in ConnType /\ ReplyOk(new, c)
    BY <1>1, <2>1, ServiceAssumption DEF ReplyOk, ConnType
  <2> QED
    BY <1>2, <2>1, <2>2, ReplyUpdate
<1> QED
  BY <1>3, <1>4, <1>5, <1>6, <1>7, <1>8, <1>9, <1>10, <1>11, <1>12 DEF HandlerStep, ClientStep

(***************************************************************************)
(* For every length of reply and socket buffer, through shutdowns, aborted *)
(* drains and kills between any two frames: results shown are complete,    *)
(* and a client that falls back to a scan of its own, even after an Error  *)
(* frame that reads like a failed connection, has read no result           *)
(* (handle_conn, daemon_search, cmd_search).                               *)
(***************************************************************************)
THEOREM RepliesNeverPartial == Spec => []NeverPartial
<1>1. ReplyInv => NeverPartial
  BY ServiceAssumption DEF ReplyInv, ReplyOk, ConnType, NeverPartial, ResultFrames
<1>2. ReplyInv /\ [Next]_vars => ReplyInv'
  <2> SUFFICES ASSUME ReplyInv, [Next]_vars PROVE ReplyInv'
    OBVIOUS
  <2>1. ASSUME NEW d \in Daemon, Start(d) \/ DaemonStep(d) \/ Shutdown(d) \/ Kill(d) PROVE ReplyInv'
    <3>1. sock' \in Daemon \cup {NoValue}
      BY <2>1 DEF ReplyInv, Start, DaemonStep, ClearSocket, Bind, DrainDone, DrainTimeout, RemoveSocket,
                  Exit, Shutdown, Kill
    <3>2. conn' = conn \/ \E cs \in SUBSET Client : conn' = Closed(cs)
      BY <2>1 DEF Start, DaemonStep, ClearSocket, Bind, DrainDone, DrainTimeout, RemoveSocket,
                  Exit, Shutdown, Kill, Connections
    <3>3. CASE conn' = conn
      BY <3>1, <3>3 DEF ReplyInv, ReplyOk
    <3> QED
      BY <3>1, <3>2, <3>3, ClosedKeeps
  <2>2. CASE UNCHANGED vars
    BY <2>2 DEF vars, ReplyInv, ReplyOk
  <2> QED
    BY <2>1, <2>2, ReplyStep DEF Next
<1> QED
  BY <1>1, <1>2, ReplyInit, PTL DEF Spec
=============================================================================
