------------------------------ MODULE Service -------------------------------
(***************************************************************************)
(* Daemon processes, their lock and socket, and the clients that talk to   *)
(* them: deepfindd/src/lib.rs (serve, handle_conn), singleton.rs, and the  *)
(* client side of deepfind/src/main.rs (cmd_search, daemon_search,         *)
(* cmd_index, daemon_index_submit).                                        *)
(*                                                                         *)
(* Several daemon processes may be started, by launchd and by hand, and be *)
(* killed at any step.  A reply is a number of Batch or Lines frames and   *)
(* one terminal frame: Done, IndexAck or Error.  A client may stall for    *)
(* ever, so nothing is assumed about its steps.                            *)
(***************************************************************************)
EXTENDS OptionValue, Integers, FiniteSets

CONSTANTS Daemon,     \* daemon processes
          Client,     \* command-line processes
          Batches,    \* client -> the batches of its reply (0 for an index request)
          Buffer,     \* frames a socket holds
          MaxStarts   \* bound: starts of daemons in a behaviour

ASSUME ServiceAssumption ==
    /\ NoValue \notin Daemon \cup {"Done", "Error"}
    /\ Batches \in [Client -> Nat]
    /\ Buffer \in Nat \ {0} /\ MaxStarts \in Nat

VARIABLES pc,      \* per daemon: where serve() is
          lock,    \* the daemon that holds daemon.lock, or NoValue
          sock,    \* the daemon whose listener the socket file was bound to, or NoValue
          conn,    \* per client: its connection
          starts   \* number of starts so far
vars == <<pc, lock, sock, conn, starts>>

(***************************************************************************)
(* conn[c]: st is what the client knows, srv the daemon at the other end   *)
(* and NoValue once that end is closed; sent and got count frames, last    *)
(* is the terminal frame if it was sent.                                   *)
(***************************************************************************)
NoConn == [st |-> "idle", srv |-> NoValue, accepted |-> FALSE, sent |-> 0, got |-> 0, last |-> NoValue]

Listening(d) == d \in Daemon /\ pc[d] = "serving"
Connections(d) == {c \in Client : conn[c].srv = d}

Closed(cs) == [c \in Client |-> IF c \in cs THEN [conn[c] EXCEPT !.srv = NoValue] ELSE conn[c]]

Init ==
    /\ pc = [d \in Daemon |-> "down"]
    /\ lock = NoValue
    /\ sock = NoValue
    /\ conn = [c \in Client |-> NoConn]
    /\ starts = 0

-----------------------------------------------------------------------------
(***************************************************************************)
(* serve()                                                                 *)
(***************************************************************************)
\* singleton::acquire: the flock, or "already running" and the process ends.
Start(d) ==
    /\ pc[d] = "down" /\ starts < MaxStarts
    /\ starts' = starts + 1
    /\ IF lock = NoValue THEN lock' = d /\ pc' = [pc EXCEPT ![d] = "locked"]
                         ELSE UNCHANGED <<lock, pc>>
    /\ UNCHANGED <<sock, conn>>

\* Whatever socket file is there is taken for a stale one.
ClearSocket(d) ==
    /\ pc[d] = "locked"
    /\ sock' = NoValue
    /\ pc' = [pc EXCEPT ![d] = "cleared"]
    /\ UNCHANGED <<lock, conn, starts>>

\* bind() fails if the file exists; serve() then returns the error.
Bind(d) ==
    /\ pc[d] = "cleared"
    /\ IF sock = NoValue THEN /\ sock' = d /\ pc' = [pc EXCEPT ![d] = "serving"]
                              /\ UNCHANGED lock
       ELSE /\ pc' = [pc EXCEPT ![d] = "down"] /\ lock' = NoValue
            /\ UNCHANGED sock
    /\ UNCHANGED <<conn, starts>>

Accept(c) ==
    /\ conn[c].srv # NoValue /\ ~conn[c].accepted
    /\ Listening(conn[c].srv)
    /\ conn' = [conn EXCEPT ![c].accepted = TRUE]
    /\ UNCHANGED <<pc, lock, sock, starts>>

\* A signal: the loop ends and the listener is dropped, with its backlog.
Shutdown(d) ==
    /\ Listening(d)
    /\ pc' = [pc EXCEPT ![d] = "draining"]
    /\ conn' = Closed({c \in Connections(d) : ~conn[c].accepted})
    /\ UNCHANGED <<lock, sock, starts>>

\* Mutation: the lock is given up as soon as the connections are done.
DrainDone_Unlocks(d) ==
    /\ pc[d] = "draining" /\ Connections(d) = {}
    /\ pc' = [pc EXCEPT ![d] = "closing"]
    /\ lock' = NoValue
    /\ UNCHANGED <<sock, conn, starts>>

DrainDone(d) ==
    /\ pc[d] = "draining" /\ Connections(d) = {}
    /\ pc' = [pc EXCEPT ![d] = "closing"]
    /\ UNCHANGED <<lock, sock, conn, starts>>

\* Mutation: the drain waits for the last client.
DrainTimeout_Waits(d) ==
    /\ pc[d] = "draining" /\ Connections(d) # {}
    /\ UNCHANGED vars

\* DRAIN_TIMEOUT has passed: the connections that are left are aborted.
DrainTimeout(d) ==
    /\ pc[d] = "draining" /\ Connections(d) # {}
    /\ pc' = [pc EXCEPT ![d] = "closing"]
    /\ conn' = Closed(Connections(d))
    /\ UNCHANGED <<lock, sock, starts>>

RemoveSocket(d) ==
    /\ pc[d] = "closing"
    /\ sock' = NoValue
    /\ pc' = [pc EXCEPT ![d] = "exiting"]
    /\ UNCHANGED <<lock, conn, starts>>

\* serve() returns and drops the lock's file; the kernel does it for a dead process.
Unlocked(d) == lock' = IF lock = d THEN NoValue ELSE lock

Exit(d) ==
    /\ pc[d] = "exiting"
    /\ pc' = [pc EXCEPT ![d] = "down"]
    /\ Unlocked(d)
    /\ UNCHANGED <<sock, conn, starts>>

\* SIGKILL, a panic or power loss: the socket file stays, nobody listens.
Kill(d) ==
    /\ pc[d] # "down"
    /\ pc' = [pc EXCEPT ![d] = "down"]
    /\ Unlocked(d)
    /\ conn' = Closed(Connections(d))
    /\ UNCHANGED <<sock, starts>>

-----------------------------------------------------------------------------
(***************************************************************************)
(* handle_conn, as far as frames go.                                       *)
(***************************************************************************)
CanSend(c) ==
    /\ conn[c].srv # NoValue /\ conn[c].accepted /\ conn[c].last = NoValue
    /\ conn[c].sent - conn[c].got < Buffer

SendBatch(c) ==
    /\ CanSend(c) /\ conn[c].sent < Batches[c]
    /\ conn' = [conn EXCEPT ![c].sent = @ + 1]
    /\ UNCHANGED <<pc, lock, sock, starts>>

\* Done behind all batches, or IndexAck; then the handler returns.
SendLast(c) ==
    /\ CanSend(c) /\ conn[c].sent = Batches[c]
    /\ conn' = [conn EXCEPT ![c].sent = @ + 1, ![c].last = "Done", ![c].srv = NoValue]
    /\ UNCHANGED <<pc, lock, sock, starts>>

\* An unknown database: an Error frame instead of a result.
SendError(c) ==
    /\ CanSend(c) /\ conn[c].sent = 0
    /\ conn' = [conn EXCEPT ![c].sent = 1, ![c].last = "Error", ![c].srv = NoValue]
    /\ UNCHANGED <<pc, lock, sock, starts>>

\* A request that does not decode or a bad regex: closed without a frame.
HandlerFails(c) ==
    /\ conn[c].srv # NoValue /\ conn[c].accepted /\ conn[c].sent = 0
    /\ conn' = [conn EXCEPT ![c].srv = NoValue]
    /\ UNCHANGED <<pc, lock, sock, starts>>

-----------------------------------------------------------------------------
(***************************************************************************)
(* The clients.                                                            *)
(***************************************************************************)
Connect(c) ==
    /\ conn[c].st = "idle"
    /\ Listening(sock)
    /\ conn' = [conn EXCEPT ![c].st = "waiting", ![c].srv = sock]
    /\ UNCHANGED <<pc, lock, sock, starts>>

\* No socket, or nobody listens on it: scan or build in this process.
FallBack(c) ==
    /\ conn[c].st = "idle"
    /\ ~Listening(sock)
    /\ conn' = [conn EXCEPT ![c].st = "direct"]
    /\ UNCHANGED <<pc, lock, sock, starts>>

\* What a client makes of a reply's terminal frame.  The text of an Error frame
\* decides: with "connect" in it, as in the name of an unknown database, the
\* daemon is taken for unreachable and the client searches by itself.
Outcomes(last) == IF last = "Done" THEN {"results"} ELSE {"error", "direct"}

Receive(c) ==
    LET last == conn[c].got + 1 = conn[c].sent /\ conn[c].last # NoValue
    IN  /\ conn[c].st = "waiting" /\ conn[c].got < conn[c].sent
        /\ \E st \in IF last THEN Outcomes(conn[c].last) ELSE {"waiting"} :
               conn' = [conn EXCEPT ![c].got = @ + 1, ![c].st = st]
        /\ UNCHANGED <<pc, lock, sock, starts>>

\* Mutation: the end of the stream is taken for the end of the results.
StreamEnds_Silently(c) ==
    /\ conn[c].st = "waiting" /\ conn[c].srv = NoValue /\ conn[c].got = conn[c].sent
    /\ conn' = [conn EXCEPT ![c].st = "results"]
    /\ UNCHANGED <<pc, lock, sock, starts>>

\* The stream ends without a terminal frame: an error, whatever came before.
StreamEnds(c) ==
    /\ conn[c].st = "waiting" /\ conn[c].srv = NoValue /\ conn[c].got = conn[c].sent
    /\ conn' = [conn EXCEPT ![c].st = "error"]
    /\ UNCHANGED <<pc, lock, sock, starts>>

\* The user presses Ctrl-C: the daemon's next read or send fails.
Quit(c) ==
    /\ conn[c].st = "waiting"
    /\ conn' = [conn EXCEPT ![c].st = "quit", ![c].srv = NoValue]
    /\ UNCHANGED <<pc, lock, sock, starts>>

DaemonStep(d) == ClearSocket(d) \/ Bind(d) \/ DrainDone(d) \/ DrainTimeout(d) \/ RemoveSocket(d) \/ Exit(d)
HandlerStep(c) == Accept(c) \/ SendBatch(c) \/ SendLast(c) \/ SendError(c) \/ HandlerFails(c)
ClientStep(c) == Connect(c) \/ FallBack(c) \/ Receive(c) \/ StreamEnds(c) \/ Quit(c)

Next ==
    \/ \E d \in Daemon : Start(d) \/ DaemonStep(d) \/ Shutdown(d) \/ Kill(d)
    \/ \E c \in Client : HandlerStep(c) \/ ClientStep(c)

(***************************************************************************)
(* serve() runs on: the runtime schedules its task, and the drain has a    *)
(* timer.  Starts, signals and clients are up to their users.              *)
(***************************************************************************)
Spec == Init /\ [][Next]_vars /\ \A d \in Daemon : WF_vars(DaemonStep(d))

-----------------------------------------------------------------------------
(***************************************************************************)
(* A daemon that accepts connections is alone and is the one clients reach *)
(* through the socket file: no daemon that starts, is refused, shuts down  *)
(* or was killed earlier removes or replaces it ("safe under the singleton *)
(* lock").                                                                 *)
(***************************************************************************)
SocketIsLive ==
    \A d \in Daemon : Listening(d) =>
        /\ sock = d /\ lock = d
        /\ \A e \in Daemon \ {d} : pc[e] = "down"

\* The Batch and Lines frames a client has read: all it read but the terminal one.
ResultFrames(k) == IF k.last # NoValue /\ k.got = k.sent THEN k.got - 1 ELSE k.got

(***************************************************************************)
(* A client that shows results from the daemon has all of them, and one    *)
(* that scans by itself has read none: a shutdown, an aborted drain or a   *)
(* killed daemon between two frames never passes for the end of the        *)
(* results, and a client that falls back has seen no part of a reply, at   *)
(* most an Error frame (cmd_search, daemon_search).                        *)
(***************************************************************************)
NeverPartial ==
    \A c \in Client :
        /\ conn[c].st = "results" => conn[c].got = Batches[c] + 1 /\ conn[c].last = "Done"
        /\ conn[c].st = "direct" => ResultFrames(conn[c]) = 0

(***************************************************************************)
(* A daemon told to stop stops, although clients may stall in the middle   *)
(* of a reply: the drain is bounded.                                       *)
(***************************************************************************)
ShutdownEnds == \A d \in Daemon : pc[d] = "draining" ~> pc[d] = "down"
=============================================================================
