---------------------------- MODULE ProxyServer ----------------------------
(***************************************************************************)
(* The lifecycle of proxy.Proxy and the goroutines it serves clients with: *)
(* Start binds the configured listeners and begins a serving generation,   *)
(* Shutdown cancels the generation's context and closes the sockets, and   *)
(* in between every listener loop and every connection or stream handler   *)
(* competes for a slot of requestsSema, the one semaphore that the proxy   *)
(* keeps across restarts.                                                  *)
(*                                                                         *)
(* A socket, a loop and a handler belong to the generation that made them; *)
(* those of an old generation run on beside the new one until they notice. *)
(* The TLS listeners run the TCP loop and count as "tcp"; the HTTP         *)
(* listeners, served by net/http and quic-go, take no slots.               *)
(***************************************************************************)
EXTENDS Integers, FiniteSets

CONSTANTS
  Kinds,          \* the kinds of the listeners, in binding order
  Configs,        \* the sets of listeners that a configuration may name
  MaxGoroutines,  \* Config.MaxGoroutines, the capacity of requestsSema
  Runs            \* bound: calls of Start that get past the checks

ASSUME ServerAssumption ==
  /\ MaxGoroutines \in Nat \ {0}
  /\ Runs \in Nat
  /\ DOMAIN Kinds \subseteq Nat
  /\ Configs \subseteq SUBSET DOMAIN Kinds
  /\ \A l \in DOMAIN Kinds : Kinds[l] \in {"udp", "tcp", "quic", "http"}

VARIABLES
  configured, \* the listeners of the configuration, which never changes
  started,    \* Proxy.started
  op,         \* what the holder of Proxy.mu does: "none" when it is free
  gen,        \* the current serving generation; 0 before the first Start
  cancelled,  \* generations whose servingCancel was called
  sock,       \* sock[g][l]: listener l of generation g
  lost,       \* the sockets that failed on their own
  loop,       \* loop[g][l]: where the accept loop of the listener is
  task,       \* the handler goroutines: UDP requests, connections, streams
  used,       \* slots of requestsSema taken
  failures    \* the contents of the channel Config.ListenerFailures, cap 1

lifecycle == <<configured, started, op, gen, cancelled>>
sockets == <<sock, lost>>
workers == <<loop, task, used, failures>>
vars == <<configured, started, op, gen, cancelled, sock, lost, loop, task, used,
          failures>>

-----------------------------------------------------------------------------

Listeners == DOMAIN Kinds
Gens == 1..Runs
Tasks == 1..MaxGoroutines

Idle == [kind |-> "idle", gen |-> 0, pc |-> "none", open |-> FALSE, of |-> 0]

Task ==
  [kind : {"idle", "udp", "tcp", "quic", "stream"}, gen : 0..Runs,
   pc : {"none", "check", "read", "acquire", "handle"}, open : BOOLEAN,
   of : 0..MaxGoroutines]

Live == {t \in Tasks : task[t] # Idle}

\* The sockets of the current generation that closeListeners still has to close.
Unclosed == {l \in configured : sock[gen][l] \in {"open", "lost"}}

Init ==
  /\ configured \in Configs
  /\ started = FALSE
  /\ op = "none"
  /\ gen = 0
  /\ cancelled = {}
  /\ sock = [g \in Gens |-> [l \in Listeners |-> "none"]]
  /\ lost = {}
  /\ loop = [g \in Gens |-> [l \in Listeners |-> "none"]]
  /\ task = [t \in Tasks |-> Idle]
  /\ used = 0
  /\ failures = {}

-----------------------------------------------------------------------------
(* Start and Shutdown, which hold Proxy.mu from their first step to the last *)

StartBegins ==
  /\ op = "none"
  /\ ~started
  /\ gen < Runs
  /\ op' = "bind"
  /\ gen' = gen + 1
  /\ UNCHANGED <<configured, started, cancelled, sockets, workers>>

\* startListeners goes by the order of the configuration.
IsNextToBind(l) == \A k \in configured : k < l => sock[gen][k] # "none"

\* The socket is bound, after retries if need be, and its options are set.
Bind(l) ==
  /\ op = "bind"
  /\ l \in configured
  /\ sock[gen][l] = "none"
  /\ IsNextToBind(l)
  /\ sock' = [sock EXCEPT ![gen][l] = "open"]
  /\ UNCHANGED <<lifecycle, lost, workers>>

LeavesListenersOpen ==
  /\ op = "bind"
  /\ cancelled' = cancelled \union {gen}
  /\ op' = "none"
  /\ UNCHANGED <<configured, started, gen, sockets, workers>>

\* An address that cannot be bound, a DNSCrypt server that does not start or a
\* start context that is done: Start's deferred function undoes the rest.
StartFails ==
  /\ op = "bind"
  /\ cancelled' = cancelled \union {gen}
  /\ sock' = [sock EXCEPT ![gen] =
                [l \in Listeners |->
                   IF sock[gen][l] = "open" THEN "closed" ELSE sock[gen][l]]]
  /\ op' = "none"
  /\ UNCHANGED <<configured, started, gen, lost, workers>>

StartServes ==
  /\ op = "bind"
  /\ \A l \in configured : sock[gen][l] = "open"
  /\ started' = TRUE
  /\ loop' = [loop EXCEPT ![gen] =
                [l \in Listeners |->
                   IF l \notin configured THEN "none"
                   ELSE IF Kinds[l] = "udp" THEN "check" ELSE "read"]]
  /\ op' = "none"
  /\ UNCHANGED <<configured, gen, cancelled, sockets, task, used, failures>>

ClosesUncancelled ==
  /\ op = "none"
  /\ started
  /\ started' = FALSE
  /\ op' = "close"
  /\ UNCHANGED <<configured, gen, cancelled, sockets, workers>>

ShutdownBegins ==
  /\ op = "none"
  /\ started
  /\ started' = FALSE
  /\ cancelled' = cancelled \union {gen}
  /\ op' = "close"
  /\ UNCHANGED <<configured, gen, sockets, workers>>

\* closeListeners closes one socket after the other, those of TCP before and
\* those of TLS after those of UDP: the kinds here leave the order open.
CloseListener(l) ==
  /\ op = "close"
  /\ l \in Unclosed
  /\ sock' = [sock EXCEPT ![gen][l] = "closed"]
  /\ UNCHANGED <<lifecycle, lost, workers>>

ShutdownEnds ==
  /\ op = "close"
  /\ Unclosed = {}
  /\ op' = "none"
  /\ UNCHANGED <<configured, started, gen, cancelled, sockets, workers>>

Lifecycle ==
  \/ StartBegins
  \/ StartFails
  \/ StartServes
  \/ ShutdownBegins
  \/ ShutdownEnds
  \/ \E l \in Listeners : Bind(l) \/ CloseListener(l)

\* The environment breaks a listening socket.
SocketIsLost(l) ==
  /\ started
  /\ sock[gen][l] = "open"
  /\ sock' = [sock EXCEPT ![gen][l] = "lost"]
  /\ lost' = lost \union {<<gen, l>>}
  /\ UNCHANGED <<lifecycle, workers>>

\* The owner of the channel has acted on the failure, by shutting down.
OwnerReads ==
  /\ ~started
  /\ failures # {}
  /\ failures' = {}
  /\ UNCHANGED <<lifecycle, sockets, loop, task, used>>

-----------------------------------------------------------------------------
(* The listener loops *)

LoopTo(g, l, pc) ==
  loop' = [loop EXCEPT ![g][l] = pc]

\* The condition of the loop of udpPacketLoop, read under the lifecycle mutex.
LoopChecks(g, l) ==
  /\ loop[g][l] = "check"
  /\ op = "none"
  /\ LoopTo(g, l, IF started THEN "read" ELSE "done")
  /\ UNCHANGED <<lifecycle, sockets, task, used, failures>>

\* A datagram or a connection arrives.
LoopAccepts(g, l) ==
  /\ loop[g][l] = "read"
  /\ Kinds[l] # "http"
  /\ sock[g][l] = "open"
  /\ LoopTo(g, l, "acquire")
  /\ UNCHANGED <<lifecycle, sockets, task, used, failures>>

\* Reading fails, because the socket is lost or because Shutdown closed it; a
\* QUIC listener's Accept fails already when the generation is cancelled.
LoopFails(g, l) ==
  /\ loop[g][l] = "read"
  /\ \/ sock[g][l] # "open"
     \/ Kinds[l] = "quic" /\ g \in cancelled
  /\ LoopTo(g, l, "report")
  /\ UNCHANGED <<lifecycle, sockets, task, used, failures>>

\* reportListenerFailure reads the context first, and sends after that.
ReportChecks(g, l) ==
  /\ loop[g][l] = "report"
  /\ LoopTo(g, l, IF g \in cancelled THEN "done" ELSE "send")
  /\ UNCHANGED <<lifecycle, sockets, task, used, failures>>

ReportSends(g, l) ==
  /\ loop[g][l] = "send"
  /\ failures' = IF failures = {} THEN {<<g, l>>} ELSE failures
  /\ \/ LoopTo(g, l, "done")
     \/ Kinds[l] = "udp" /\ LoopTo(g, l, "last")
  /\ UNCHANGED <<lifecycle, sockets, task, used>>

\* The goroutine of a handler that holds the slot just taken.
Spawn(t, kind, g, pc, of) ==
  task' = [task EXCEPT ![t] =
             [kind |-> kind, gen |-> g, pc |-> pc, open |-> TRUE, of |-> of]]

FirstIdle(t) ==
  /\ task[t] = Idle
  /\ \A u \in Tasks : task[u] = Idle => t <= u

\* Acquire takes a free slot, also when the context is done already: select
\* chooses either of two ready cases.
LoopAcquires(g, l) ==
  /\ loop[g][l] \in {"acquire", "last"}
  /\ used < MaxGoroutines
  /\ used' = used + 1
  /\ \E t \in Tasks :
       /\ FirstIdle(t)
       /\ Spawn(t, Kinds[l], g,
                CASE Kinds[l] = "udp" -> "handle"
                  [] Kinds[l] = "tcp" -> "check"
                  [] Kinds[l] = "quic" -> "read", 0)
  /\ LoopTo(g, l, IF loop[g][l] = "last" THEN "done"
                  ELSE IF Kinds[l] = "udp" THEN "check" ELSE "read")
  /\ UNCHANGED <<lifecycle, sockets, failures>>

LoopIsCancelled(g, l) ==
  /\ loop[g][l] \in {"acquire", "last"}
  /\ g \in cancelled
  /\ LoopTo(g, l, "report")
  /\ UNCHANGED <<lifecycle, sockets, task, used, failures>>

LoopSteps(g, l) ==
  \/ LoopChecks(g, l)
  \/ LoopFails(g, l)
  \/ ReportChecks(g, l)
  \/ ReportSends(g, l)
  \/ LoopAcquires(g, l)
  \/ LoopIsCancelled(g, l)

-----------------------------------------------------------------------------
(* The handlers *)

TaskTo(t, pc) ==
  task' = [task EXCEPT ![t].pc = pc]

FinishKeepingSlot(t) ==
  /\ used' = used
  /\ task' = [u \in Tasks |->
               CASE u = t -> Idle
                 [] u # t /\ task[u].of = t -> [task[u] EXCEPT !.of = 0]
                 [] OTHER -> task[u]]

\* The deferred calls of a handler: the slot is released and the connection
\* closed, which the streams of a QUIC connection outlive.
Finish(t) ==
  /\ used' = used - 1
  /\ task' = [u \in Tasks |->
               CASE u = t -> Idle
                 [] u # t /\ task[u].of = t -> [task[u] EXCEPT !.of = 0]
                 [] OTHER -> task[u]]

\* handleTCPConnection: the condition of its loop.
ConnChecks(t) ==
  /\ task[t].kind = "tcp"
  /\ task[t].pc = "check"
  /\ op = "none"
  /\ IF started
       THEN TaskTo(t, "read") /\ UNCHANGED used
       ELSE Finish(t)
  /\ UNCHANGED <<lifecycle, sockets, loop, failures>>

\* A query arrives on the connection: on a stream of its own with QUIC.
QueryArrives(t) ==
  /\ task[t].kind \in {"tcp", "quic"}
  /\ task[t].pc = "read"
  /\ task[t].open
  /\ TaskTo(t, IF task[t].kind = "tcp" THEN "handle" ELSE "acquire")
  /\ UNCHANGED <<lifecycle, sockets, loop, used, failures>>

\* Reading fails on a closed connection; acceptStream also looks at the context.
ReadFails(t) ==
  /\ task[t].kind \in {"tcp", "quic"}
  /\ task[t].pc = "read"
  /\ \/ ~task[t].open
     \/ task[t].kind = "quic" /\ task[t].gen \in cancelled
  /\ Finish(t)
  /\ UNCHANGED <<lifecycle, sockets, loop, failures>>

\* The client ends the connection, sends what does not parse, or sends nothing
\* until the read deadline.
ClientGivesUp(t) ==
  /\ task[t].kind \in {"tcp", "quic"}
  /\ task[t].pc = "read"
  /\ Finish(t)
  /\ UNCHANGED <<lifecycle, sockets, loop, failures>>

\* context.AfterFunc closes the connection once the generation is cancelled.
CancelCloses(t) ==
  /\ task[t].kind \in {"tcp", "quic"}
  /\ task[t].open
  /\ task[t].gen \in cancelled
  /\ task' = [task EXCEPT ![t].open = FALSE]
  /\ UNCHANGED <<lifecycle, sockets, loop, used, failures>>

\* udpHandlePacket: the request is answered, dropped or refused.
PacketHandled(t) ==
  /\ task[t].kind = "udp"
  /\ task[t].pc = "handle"
  /\ Finish(t)
  /\ UNCHANGED <<lifecycle, sockets, loop, failures>>

\* A connection with no response to write is closed.
RequestHandled(t) ==
  /\ task[t].kind = "tcp"
  /\ task[t].pc = "handle"
  /\ \E open \in {task[t].open, FALSE} :
       task' = [task EXCEPT ![t] = [@ EXCEPT !.pc = "check", !.open = open]]
  /\ UNCHANGED <<lifecycle, sockets, loop, used, failures>>

StreamHandled(t) ==
  /\ task[t].kind = "stream"
  /\ task[t].pc = "handle"
  /\ Finish(t)
  /\ UNCHANGED <<lifecycle, sockets, loop, failures>>

\* Without a response to write, or after a violation of the DoQ protocol, the
\* connection is closed.
StreamAborts(t) ==
  /\ task[t].kind = "stream"
  /\ task[t].pc = "handle"
  /\ task[t].of # 0
  /\ task' = [task EXCEPT ![task[t].of].open = FALSE, ![t] = Idle]
  /\ used' = used - 1
  /\ UNCHANGED <<lifecycle, sockets, loop, failures>>

\* handleQUICConnection takes one more slot for the stream, while it keeps the
\* one that quicPacketLoop took for the connection.
StreamAcquires(t) ==
  /\ task[t].kind = "quic"
  /\ task[t].pc = "acquire"
  /\ used < MaxGoroutines
  /\ used' = used + 1
  /\ \E u \in Tasks :
       /\ FirstIdle(u)
       /\ task' = [task EXCEPT ![t].pc = "read",
            ![u] = [kind |-> "stream", gen |-> task[t].gen, pc |-> "handle",
                    open |-> TRUE, of |-> t]]
  /\ UNCHANGED <<lifecycle, sockets, loop, failures>>

AcquireIgnoresContext(t) ==
  /\ task[t].kind = "quic"
  /\ task[t].pc = "acquire"
  /\ task[t].gen \in cancelled
  /\ used < MaxGoroutines
  /\ Finish(t)
  /\ UNCHANGED <<lifecycle, sockets, loop, failures>>

StreamIsCancelled(t) ==
  /\ task[t].kind = "quic"
  /\ task[t].pc = "acquire"
  /\ task[t].gen \in cancelled
  /\ Finish(t)
  /\ UNCHANGED <<lifecycle, sockets, loop, failures>>

TaskSteps(t) ==
  \/ ConnChecks(t)
  \/ ReadFails(t)
  \/ CancelCloses(t)
  \/ PacketHandled(t)
  \/ RequestHandled(t)
  \/ StreamHandled(t)
  \/ StreamAcquires(t)
  \/ StreamIsCancelled(t)

-----------------------------------------------------------------------------

Environment ==
  \/ OwnerReads
  \/ \E l \in Listeners : gen > 0 /\ SocketIsLost(l)
  \/ \E g \in Gens, l \in Listeners : LoopAccepts(g, l)
  \/ \E t \in Tasks : QueryArrives(t) \/ ClientGivesUp(t) \/ StreamAborts(t)

Next ==
  \/ Lifecycle
  \/ Environment
  \/ \E g \in Gens, l \in Listeners : LoopSteps(g, l)
  \/ \E t \in Tasks : TaskSteps(t)

Spec == Init /\ [][Next]_vars

CallGoesOn ==
  \/ StartServes
  \/ ShutdownEnds
  \/ \E l \in Listeners : Bind(l) \/ CloseListener(l)

\* Goroutines run when they can, a handler finishes, and a call of Start or
\* Shutdown goes on to its end.  That clients connect, ask or give up, and that Start or
\* Shutdown is called at all, is not assumed.
Fairness ==
  /\ WF_vars(CallGoesOn)
  /\ WF_vars(\E t \in Tasks : CancelCloses(t))
  /\ \A g \in Gens : WF_vars(\E l \in Listeners : LoopSteps(g, l))
  /\ \A t \in Tasks : WF_vars(TaskSteps(t))

FairSpec == Spec /\ Fairness

-----------------------------------------------------------------------------

TypeOK ==
  /\ configured \in Configs
  /\ started \in BOOLEAN
  /\ op \in {"none", "bind", "close"}
  /\ gen \in 0..Runs
  /\ cancelled \subseteq Gens
  /\ sock \in [Gens -> [Listeners -> {"none", "open", "lost", "closed"}]]
  /\ lost \subseteq Gens \X Listeners
  /\ loop \in [Gens -> [Listeners ->
                 {"none", "check", "read", "acquire", "last", "report", "send",
                  "done"}]]
  /\ task \in [Tasks -> Task]
  /\ used \in 0..MaxGoroutines
  /\ failures \subseteq Gens \X Listeners

\* Every slot of requestsSema belongs to exactly one running handler, whatever
\* its generation: none is released twice and none is left behind by an early
\* return, a cancelled Acquire or a restart.
SlotsAccounted ==
  TypeOK /\ used = Cardinality(Live)

\* Between two calls of Start and Shutdown a proxy that is not started holds no
\* socket: neither a failed Start nor a Shutdown leaves an address bound.
NothingBoundWhileStopped ==
  op = "none" /\ ~started =>
    \A g \in Gens, l \in Listeners : sock[g][l] \in {"none", "closed"}

\* "Intentional shutdown is silent" (ListenerFailures): only a socket that
\* failed on its own is reported; and while a generation is served none of its
\* loops has ended without a failure in the channel for the owner to act on.
FailuresAreReported ==
  /\ failures \subseteq lost
  /\ started /\ (\E l \in Listeners : loop[gen][l] = "done") => failures # {}

\* Shutdown ends its generation: every loop and every handler of it returns, its
\* connections are closed and its slots are free.
CancelledHaveEnded ==
  \A g \in cancelled :
    /\ \A l \in Listeners : loop[g][l] \in {"none", "done"}
    /\ \A t \in Tasks : task[t].gen # g

\* requestsSema "limits the number of simultaneous requests": the query of a
\* connected client that waits for a slot is taken up in the end, unless the
\* generation is shut down.
QueriesAreAdmitted ==
  \A t \in Tasks :
    task[t].pc = "acquire" ~> task[t].pc # "acquire"

=============================================================================
