--------------------------- MODULE DNSCryptServer ---------------------------
(***************************************************************************)
(* The lifecycle of dnscrypt.Server: one run at a time, served by a single *)
(* goroutine that owns the listening socket and joins the handlers it has  *)
(* admitted before it closes the run's channel done.  Any number of calls  *)
(* of Shutdown may wait for the same run, and a call whose context ends    *)
(* leaves the others waiting.  A TCP server adopts the connections it      *)
(* accepts in tcpConns, so that Shutdown can close them; a UDP server      *)
(* handles every datagram in a goroutine, which it starts without another  *)
(* look at started.                                                        *)
(***************************************************************************)
EXTENDS Naturals

CONSTANTS
  Callers,   \* callers of Shutdown
  Handlers,  \* bound: handler goroutines at a time
  MaxRuns    \* bound: successful calls of Start

VARIABLES
  proto,     \* Server.proto
  started,   \* Server.started
  run,       \* the run that Server.done belongs to; 0 while done is nil
  finished,  \* the runs whose done is closed
  socket,    \* tcpListener or udpConn
  dropped,   \* the listening socket of the run failed on its own
  serving,   \* where the serving goroutine is
  handler,   \* handler[h]: the goroutines of the run's WaitGroup
  tcpConns,  \* Server.tcpConns, by handler
  open,      \* the adopted connections that are open
  caller,    \* caller[p]: the run that a call of Shutdown waits for, or 0
  reported   \* what became of the run's send to listenerFailures

vars == <<proto, started, run, finished, socket, dropped, serving, handler,
          tcpConns, open, caller, reported>>
state == <<started, run, finished>>
sock == <<socket, dropped>>

Init ==
  /\ proto \in {"tcp", "udp"}
  /\ started = FALSE
  /\ run = 0
  /\ finished = {}
  /\ socket = "none"
  /\ dropped = FALSE
  /\ serving = "none"
  /\ handler = [h \in Handlers |-> "none"]
  /\ tcpConns = {}
  /\ open = {}
  /\ caller = [p \in Callers |-> 0]
  /\ reported = "no"

\* Start refuses while the server is started and while its last run is closing.
Start ==
  /\ ~started
  /\ run > 0 => run \in finished
  /\ run < MaxRuns
  /\ started' = TRUE
  /\ run' = run + 1
  /\ socket' = "open"
  /\ dropped' = FALSE
  /\ serving' = "check"
  /\ reported' = "no"
  /\ UNCHANGED <<proto, finished, handler, tcpConns, open, caller>>

\* The part of Shutdown under the mutex.  It cancels the run's context, which
\* happens with started, and closes the sockets, in the first call only.
Shutdown(p) ==
  /\ caller[p] = 0
  /\ run > 0
  /\ started' = FALSE
  /\ socket' = "closed"
  /\ open' = IF started THEN open \ tcpConns ELSE open
  /\ caller' = [caller EXCEPT ![p] = run]
  /\ UNCHANGED <<proto, run, finished, dropped, serving, handler, tcpConns,
                 reported>>

\* The part after it: done is closed, or the caller's context ends first.
ShutdownReturns(p) ==
  /\ caller[p] \in finished
  /\ caller' = [caller EXCEPT ![p] = 0]
  /\ UNCHANGED <<proto, state, sock, serving, handler, tcpConns, open, reported>>

ShutdownGivesUp(p) ==
  /\ caller[p] # 0
  /\ caller' = [caller EXCEPT ![p] = 0]
  /\ UNCHANGED <<proto, state, sock, serving, handler, tcpConns, open, reported>>

\* The environment breaks the listening socket.
SocketDrops ==
  /\ socket = "open"
  /\ socket' = "lost"
  /\ dropped' = TRUE
  /\ UNCHANGED <<proto, state, serving, handler, tcpConns, open, caller, reported>>

-----------------------------------------------------------------------------
(* The serving goroutine: serveTCP and serveUDP *)

ServingTo(pc) ==
  /\ serving' = pc
  /\ UNCHANGED <<proto, state, sock, caller>>

LoopChecks ==
  /\ serving = "check"
  /\ ServingTo(IF started THEN "read" ELSE "report")
  /\ UNCHANGED <<handler, tcpConns, open, reported>>

\* The read deadline of the UDP socket passes.
ReadTimesOut ==
  /\ serving = "read"
  /\ proto = "udp"
  /\ ServingTo("check")
  /\ UNCHANGED <<handler, tcpConns, open, reported>>

ReadFails ==
  /\ serving = "read"
  /\ socket # "open"
  /\ ServingTo("report")
  /\ UNCHANGED <<handler, tcpConns, open, reported>>

Accepts ==
  /\ serving = "read"
  /\ proto = "tcp"
  /\ socket = "open"
  /\ ServingTo("adopt")
  /\ UNCHANGED <<handler, tcpConns, open, reported>>

AdoptsAlways ==
  /\ serving = "adopt"
  /\ \E h \in Handlers :
       /\ handler[h] = "none"
       /\ handler' = [handler EXCEPT ![h] = "check"]
       /\ tcpConns' = tcpConns \union {h}
       /\ open' = open \union {h}
  /\ ServingTo("check")
  /\ UNCHANGED reported

\* Under the mutex: a connection is adopted only while the run accepts; Shutdown
\* may have raced Accept, and then nothing else would close the connection.
Adopts ==
  /\ serving = "adopt"
  /\ IF started
       THEN /\ \E h \in Handlers :
                 /\ handler[h] = "none"
                 /\ handler' = [handler EXCEPT ![h] = "check"]
                 /\ tcpConns' = tcpConns \union {h}
                 /\ open' = open \union {h}
            /\ ServingTo("check")
       ELSE /\ ServingTo("report")
            /\ UNCHANGED <<handler, tcpConns, open>>
  /\ UNCHANGED reported

ReadsDatagram ==
  /\ serving = "read"
  /\ proto = "udp"
  /\ socket = "open"
  /\ ServingTo("spawn")
  /\ UNCHANGED <<handler, tcpConns, open, reported>>

\* udpWg.Go, although Shutdown may have stopped the run since the read.
Spawns ==
  /\ serving = "spawn"
  /\ \E h \in Handlers :
       /\ handler[h] = "none"
       /\ handler' = [handler EXCEPT ![h] = "handle"]
  /\ ServingTo("check")
  /\ UNCHANGED <<tcpConns, open, reported>>

\* The datagram is shorter than a DNS packet.
IgnoresDatagram ==
  /\ serving = "spawn"
  /\ ServingTo("check")
  /\ UNCHANGED <<handler, tcpConns, open, reported>>

\* reportListenerFailure, before the handlers are waited for: the context is
\* read first, the failure sent after that.  The channel refuses it when it is
\* nil or full.
ReportChecks ==
  /\ serving = "report"
  /\ ServingTo(IF started THEN "send" ELSE "join")
  /\ UNCHANGED <<handler, tcpConns, open, reported>>

ReportSends ==
  /\ serving = "send"
  /\ reported' \in {"sent", "refused"}
  /\ ServingTo("join")
  /\ UNCHANGED <<handler, tcpConns, open>>

FinishesEarly ==
  /\ serving = "join"
  /\ finished' = finished \union {run}
  /\ serving' = "none"
  /\ UNCHANGED <<proto, started, run, sock, handler, tcpConns, open, caller,
                 reported>>

\* The WaitGroup is joined and done closed.
Finishes ==
  /\ serving = "join"
  /\ \A h \in Handlers : handler[h] = "none"
  /\ finished' = finished \union {run}
  /\ serving' = "none"
  /\ UNCHANGED <<proto, started, run, sock, handler, tcpConns, open, caller,
                 reported>>

-----------------------------------------------------------------------------
(* The handlers: handleTCPConnection and serveUDPMsg *)

HandlerTo(h, pc) ==
  /\ handler' = [handler EXCEPT ![h] = pc]
  /\ UNCHANGED <<proto, state, sock, serving, caller, reported>>

HandlerChecks(h) ==
  /\ handler[h] = "check"
  /\ HandlerTo(h, IF started THEN "read" ELSE "close")
  /\ UNCHANGED <<tcpConns, open>>

MessageArrives(h) ==
  /\ handler[h] = "read"
  /\ h \in open
  /\ HandlerTo(h, "handle")
  /\ UNCHANGED <<tcpConns, open>>

ConnEnds(h) ==
  /\ handler[h] = "read"
  /\ h \notin open
  /\ HandlerTo(h, "close")
  /\ UNCHANGED <<tcpConns, open>>

\* The client closes the connection or its read deadline passes.
ClientGivesUp(h) ==
  /\ handler[h] = "read"
  /\ HandlerTo(h, "close")
  /\ UNCHANGED <<tcpConns, open>>

\* handleTCPMsg ends, and any error of it ends the connection.
Handles(h) ==
  /\ handler[h] = "handle"
  /\ \E pc \in IF proto = "udp" THEN {"none"} ELSE {"check", "close"} :
       HandlerTo(h, pc)
  /\ UNCHANGED <<tcpConns, open>>

\* The deferred function of the connection: close it and disown it.
Closes(h) ==
  /\ handler[h] = "close"
  /\ open' = open \ {h}
  /\ tcpConns' = tcpConns \ {h}
  /\ HandlerTo(h, "none")

-----------------------------------------------------------------------------

\* The steps that goroutines take on their own.
Progress ==
  \/ LoopChecks \/ ReadFails \/ Adopts \/ Spawns \/ ReportChecks \/ ReportSends
  \/ Finishes
  \/ \E h \in Handlers :
       HandlerChecks(h) \/ ConnEnds(h) \/ Handles(h) \/ Closes(h)
  \/ \E p \in Callers : ShutdownReturns(p)

Next ==
  \/ Progress
  \/ Start \/ SocketDrops \/ ReadTimesOut \/ Accepts \/ ReadsDatagram \/ IgnoresDatagram
  \/ \E p \in Callers : Shutdown(p) \/ ShutdownGivesUp(p)
  \/ \E h \in Handlers : MessageArrives(h) \/ ClientGivesUp(h)

Spec == Init /\ [][Next]_vars

\* Goroutines run when they can and handlers return; clients do as they like.
FairSpec == Spec /\ WF_vars(Progress)

-----------------------------------------------------------------------------

TypeOK ==
  /\ proto \in {"tcp", "udp"}
  /\ started \in BOOLEAN
  /\ run \in 0..MaxRuns
  /\ finished \subseteq 1..MaxRuns
  /\ socket \in {"none", "open", "lost", "closed"}
  /\ dropped \in BOOLEAN
  /\ serving \in {"none", "check", "read", "adopt", "spawn", "report", "send", "join"}
  /\ handler \in [Handlers -> {"none", "check", "read", "handle", "close"}]
  /\ tcpConns \subseteq Handlers
  /\ open \subseteq Handlers
  /\ caller \in [Callers -> 0..MaxRuns]
  /\ reported \in {"no", "sent", "refused"}

Phase ==
  IF run = 0 THEN "idle"
  ELSE IF run \in finished THEN "ended"
  ELSE IF ~started THEN "stopping"
  ELSE IF serving \in {"report", "send", "join"} THEN "lost"
  ELSE "running"
Taken == serving \in {"adopt", "spawn"}
Working == {h \in Handlers : handler[h] # "none"}

SR == INSTANCE ServerRun WITH
        Servers <- {1}, phase <- [s \in {1} |-> Phase],
        taken <- {s \in {1} : Taken}, working <- [s \in {1} |-> Working]

\* "done closes only after the serving loop and its admitted handlers exit": the
\* server keeps the promise that the proxy relies on, whatever the order of calls
\* and failures.  A run reads or accepts nothing once it is stopped or has lost its
\* socket, a handler started after that is for a datagram read before, and neither
\* is left when the run has ended and Start may begin the next.
ImplementsServerRun == SR!Spec

\* Shutdown closes all physical sockets before it waits: no connection that a
\* handler owns is open once started is false, however Accept raced Shutdown.
NoConnOutlivesShutdown ==
  ~started => open = {} /\ socket # "open"

\* A run reports a failure only when its socket failed on its own, and has
\* offered it to the channel before it waits for handlers that may not return.
LossIsReported ==
  /\ reported # "no" => dropped
  /\ started /\ serving \in {"join", "none"} => reported # "no"

\* The run that Shutdown stopped has ended, so that Shutdown returns.
StoppedHasEnded ==
  started \/ run = 0 \/ run \in finished

=============================================================================
