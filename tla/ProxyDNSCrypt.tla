--------------------------- MODULE ProxyDNSCrypt ---------------------------
(***************************************************************************)
(* The DNSCrypt servers of a proxy.  Every Start makes new ones and starts *)
(* them one after the other, before the proxy counts as started; Shutdown, *)
(* and a Start that fails, stop them in the same order.  Shutdown joins    *)
(* their handlers while it holds Proxy.mu.                                 *)
(*                                                                         *)
(* The handlers take the slots of requestsSema that the handlers of TCP    *)
(* connections take too, and those read Proxy.started under Proxy.mu for   *)
(* every request while they keep their slot.                               *)
(***************************************************************************)
EXTENDS Integers, FiniteSets

CONSTANTS
  NumUDP, NumTCP, \* the DNSCrypt addresses of the configuration
  Handlers,       \* bound: goroutines of DNSCrypt requests
  Conns,          \* bound: TCP connections
  MaxGoroutines,  \* Config.MaxGoroutines, the capacity of requestsSema
  MaxStarts       \* bound: calls of Start

VARIABLES
  started,        \* Proxy.started
  op,             \* what the holder of Proxy.mu does
  gen, at,        \* the current generation, and the server the call is at
  phase, taken, working, \* the servers, of ServerRun
  pc,             \* pc[h]: where a goroutine of a DNSCrypt server is
  conn,           \* conn[c]: where handleTCPConnection is
  gaveUp          \* history: the context of the last call ended before the join

callVars == <<started, op, gen, at, gaveUp>>
vars == <<started, op, gen, at, phase, taken, working, pc, conn, gaveUp>>

\* initDNSCryptServers appends those of UDP first.
NumServers == NumUDP + NumTCP
IsTCP(s) == s[2] > NumUDP
Servers == (1..MaxStarts) \X (1..NumServers)
S == INSTANCE ServerRun

Current == <<gen, at>>
Slots == Cardinality({h \in Handlers : pc[h] = "handle"})
           + Cardinality({c \in Conns : conn[c] # "none"})

Init ==
  /\ S!Init
  /\ started = FALSE /\ op = "none" /\ gen = 0 /\ at = 1 /\ gaveUp = FALSE
  /\ pc = [h \in Handlers |-> "none"] /\ conn = [c \in Conns |-> "none"]

-----------------------------------------------------------------------------
(* Start: initDNSCryptServers makes the servers of the generation *)

StartBegins ==
  /\ op = "none" /\ ~started /\ gen < MaxStarts
  /\ op' = "start" /\ gen' = gen + 1 /\ at' = 1
  /\ UNCHANGED <<started, phase, taken, working, pc, conn, gaveUp>>

startDNSCryptServers ==
  /\ op = "start" /\ at <= NumServers
  /\ S!Start(Current) /\ at' = at + 1
  /\ UNCHANGED <<started, op, gen, pc, conn, gaveUp>>

\* An address is in use, or the context of Start is done.
StartFails ==
  /\ op = "start"
  /\ op' = "undo" /\ at' = 1 /\ gaveUp' = FALSE
  /\ UNCHANGED <<started, gen, phase, taken, working, pc, conn>>

StartServes ==
  /\ op = "start" /\ at > NumServers
  /\ started' = TRUE /\ op' = "none"
  /\ UNCHANGED <<gen, at, phase, taken, working, pc, conn, gaveUp>>

-----------------------------------------------------------------------------
(* Shutdown, and the deferred function of Start *)

\* The upstreams are closed before the servers are stopped.
ShutdownBegins ==
  /\ op = "none" /\ started
  /\ started' = FALSE /\ op' = "stop" /\ at' = 1 /\ gaveUp' = FALSE
  /\ UNCHANGED <<gen, phase, taken, working, pc, conn>>

Stops ==
  /\ op \in {"stop", "undo"} /\ at <= NumServers
  /\ S!Stop(Current)
  /\ UNCHANGED <<callVars, pc, conn>>

\* The run has ended, or the server was never started.
Joins ==
  /\ op \in {"stop", "undo"} /\ at <= NumServers
  /\ phase[Current] \in {"ended", "idle"}
  /\ at' = at + 1
  /\ UNCHANGED <<started, op, gen, phase, taken, working, pc, conn, gaveUp>>

ReturnsFirstError ==
  /\ op \in {"stop", "undo"} /\ at <= NumServers
  /\ phase[Current] = "stopping"
  /\ at' = NumServers + 1 /\ gaveUp' = TRUE
  /\ UNCHANGED <<started, op, gen, phase, taken, working, pc, conn>>
\* The context is done, as it always is in Start: the error is collected.
shutdownDNSCryptServers ==
  /\ op \in {"stop", "undo"} /\ at <= NumServers
  /\ phase[Current] = "stopping"
  /\ at' = at + 1 /\ gaveUp' = TRUE
  /\ UNCHANGED <<started, op, gen, phase, taken, working, pc, conn>>

CallEnds ==
  /\ op \in {"stop", "undo"} /\ at > NumServers
  /\ op' = "none"
  /\ UNCHANGED <<started, gen, at, phase, taken, working, pc, conn, gaveUp>>

-----------------------------------------------------------------------------
(* The handlers, and dnsCryptHandler.ServeDNS *)

HandlerTo(h, to) == pc' = [pc EXCEPT ![h] = to] /\ UNCHANGED <<callVars, conn>>

\* A datagram, or a connection.  A connection is adopted only while the server
\* is started; a datagram that was read is handled in any case.
Arrives(s, h) ==
  /\ pc[h] = "none" /\ S!Admit(s, h)
  /\ IsTCP(s) => phase[s] # "stopping"
  /\ HandlerTo(h, IF IsTCP(s) THEN "read" ELSE "acquire")

\* A query arrives on a connection.
Reads(h) == pc[h] = "read" /\ HandlerTo(h, "acquire") /\ UNCHANGED <<phase, taken, working>>

\* The client ends the connection, or Shutdown of the server does.
Leaves(s, h) == pc[h] = "read" /\ S!Finish(s, h) /\ HandlerTo(h, "none")
ConnClosed(s, h) == phase[s] = "stopping" /\ Leaves(s, h)

Acquires(h) ==
  /\ pc[h] = "acquire" /\ Slots < MaxGoroutines
  /\ HandlerTo(h, "handle") /\ UNCHANGED <<phase, taken, working>>

WaitsForSlot(s, h) ==
  /\ pc[h] = "acquire" /\ phase[s] = "stopping" /\ Slots < MaxGoroutines
  /\ S!Finish(s, h) /\ HandlerTo(h, "none")
\* The context is the run's own: only Shutdown of this server cancels it.
AcquireFails(s, h) ==
  /\ pc[h] = "acquire" /\ phase[s] = "stopping"
  /\ S!Finish(s, h) /\ HandlerTo(h, "none")

\* The reply is written, and a connection goes on while its server is started.
Replies(s, h) ==
  \/ S!Finish(s, h) /\ HandlerTo(h, "none")
  \/ /\ IsTCP(s) /\ h \in working[s] /\ phase[s] \in {"running", "lost"}
     /\ HandlerTo(h, "read") /\ UNCHANGED <<phase, taken, working>>

\* The request's own context, of Config.RequestContext, ends first.
RequestExpires(s, h) == pc[h] = "acquire" /\ Replies(s, h)

\* handleDNSRequest has returned and the slot is released.
Handled(s, h) == pc[h] = "handle" /\ Replies(s, h)

\* The serving goroutine.
Takes(s) == S!Take(s) /\ UNCHANGED <<callVars, pc, conn>>
Drops(s) == (IsTCP(s) => phase[s] = "stopping") /\ S!Drop(s) /\ UNCHANGED <<callVars, pc, conn>>
LosesSocket(s) == S!Lose(s) /\ UNCHANGED <<callVars, pc, conn>>
RunEnds(s) == S!End(s) /\ UNCHANGED <<callVars, pc, conn>>

-----------------------------------------------------------------------------
(* tcpPacketLoop and handleTCPConnection *)

ConnTo(c, to) ==
  conn' = [conn EXCEPT ![c] = to] /\ UNCHANGED <<callVars, phase, taken, working, pc>>

Accepts(c) == conn[c] = "none" /\ started /\ Slots < MaxGoroutines /\ ConnTo(c, "check")
ConnChecks(c) == conn[c] = "check" /\ op = "none" /\ ConnTo(c, IF started THEN "handle" ELSE "none")

\* A request is read and handled, or the connection ends.
ConnHandled(c) == conn[c] = "handle" /\ \E to \in {"check", "none"} : ConnTo(c, to)

-----------------------------------------------------------------------------

CallGoesOn == startDNSCryptServers \/ StartServes \/ Stops \/ Joins \/ CallEnds

HandlerSteps(h) == \E s \in Servers : ConnClosed(s, h) \/ AcquireFails(s, h) \/ Handled(s, h)

Next ==
  \/ StartBegins \/ StartFails \/ ShutdownBegins \/ shutdownDNSCryptServers \/ CallGoesOn
  \/ \E s \in Servers : \/ Takes(s) \/ Drops(s) \/ LosesSocket(s) \/ RunEnds(s)
                        \/ \E h \in Handlers : Arrives(s, h) \/ Leaves(s, h) \/ RequestExpires(s, h)
  \/ \E h \in Handlers : Reads(h) \/ Acquires(h) \/ HandlerSteps(h)
  \/ \E c \in Conns : Accepts(c) \/ ConnChecks(c) \/ ConnHandled(c)

\* A call goes on, but no context is sure to end; requests are handled.
Fairness ==
  /\ WF_vars(CallGoesOn)
  /\ \A s \in Servers : WF_vars(RunEnds(s) \/ Drops(s) \/ \E h \in Handlers : Arrives(s, h))
  /\ \A h \in Handlers : WF_vars(HandlerSteps(h))
  /\ \A c \in Conns : WF_vars(ConnChecks(c)) /\ WF_vars(ConnHandled(c))

Spec == Init /\ [][Next]_vars /\ Fairness
-----------------------------------------------------------------------------
TypeOK ==
  /\ op \in {"none", "start", "undo", "stop"} /\ gen \in 0..MaxStarts /\ at \in 1..(NumServers + 1)
  /\ phase \in [Servers -> {"idle", "running", "lost", "stopping", "ended"}]
  /\ pc \in [Handlers -> {"none", "read", "acquire", "handle"}]
  /\ \A h \in Handlers : pc[h] # "none" <=> \E s \in Servers : h \in working[s]
  /\ conn \in [Conns -> {"none", "check", "handle"}]

(***************************************************************************)
(* A proxy that is not started has no DNSCrypt server that takes in        *)
(* requests, whichever one of them failed to start or to stop in time; and *)
(* if no context ended, none of those just stopped has a request or a      *)
(* handler left.                                                           *)
(* The semaphore is never overdrawn.                                       *)
(***************************************************************************)
StoppedAreStopped ==
  /\ TypeOK /\ Slots <= MaxGoroutines
  /\ op = "none" /\ ~started => \A s \in Servers :
       /\ phase[s] \notin {"running", "lost"}
       /\ ~gaveUp /\ s[1] = gen => working[s] = {} /\ s \notin taken

(***************************************************************************)
(* Shutdown returns, although it waits under Proxy.mu for handlers that    *)
(* may wait for the slots of connections that wait for Proxy.mu; and the   *)
(* runs that it or a failed Start stopped end.                             *)
(***************************************************************************)
AllHasEnded == op = "none" /\ \A s \in Servers : phase[s] # "stopping"
=============================================================================
