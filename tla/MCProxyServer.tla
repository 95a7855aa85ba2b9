--------------------------- MODULE MCProxyServer ---------------------------
(***************************************************************************)
(* Instances of the proxy's listeners, of one DNSCrypt server, of the      *)
(* DNSCrypt servers of a proxy, and of the rate limit, which a behaviour   *)
(* picks one of: they share no state here.                                 *)
(***************************************************************************)
EXTENDS ProxyServer

CONSTANTS Callers, Handlers

VARIABLES
  part, proto, dcStarted, run, finished, socket, dropped, serving, handler,
  tcpConns, open, caller, reported,
  pdStarted, pdOp, pdGen, at, phase, taken, working, pc, conn, gaveUp,
  now, buckets, times, made, stage, from, bucket, tried

DC == INSTANCE DNSCryptServer WITH started <- dcStarted, MaxRuns <- 2

\* A server of each protocol, and one slot for a DNSCrypt handler and a TCP connection.
PD == INSTANCE ProxyDNSCrypt WITH
        Handlers <- {"h"}, NumUDP <- 1, NumTCP <- 1, Conns <- {"c"}, MaxGoroutines <- 1, MaxStarts <- 2,
        started <- pdStarted, op <- pdOp, gen <- pdGen

\* Two clients of one subnet, and one that is exempt.  A bucket outlives an
\* interval, and the clock outlives a bucket.
RL == INSTANCE RateLimit WITH
        Sources <- {[client |-> "a1", form |-> "zoned"], [client |-> "a2", form |-> "mapped"],
                    [client |-> "b", form |-> "plain"]},
        Subnet <- [c \in {"a1", "a2", "b"} |-> IF c = "b" THEN "b" ELSE "a"],
        Allowlist <- {"b"}, Limit <- 2, Interval <- 1, Life <- 2,
        NumRequests <- 4, MaxTime <- 3, pc <- stage

dcVars == <<proto, dcStarted, run, finished, socket, dropped, serving, handler,
            tcpConns, open, caller, reported>>
pdVars == <<pdStarted, pdOp, pdGen, at, phase, taken, working, pc, conn, gaveUp>>
rlVars == <<now, buckets, times, made, stage, from, bucket, tried>>
mcVars == <<part, vars, dcVars, pdVars, rlVars>>

MCKinds == <<"udp", "tcp", "http", "quic">>
MCConfigs == {{1}, {2}, {4}, {1, 3}}
MCOnlyQUIC == {{4}}

\* Bound: two generations with a single listener, one with several.
FewRuns == Cardinality(configured) > 1 => gen' <= 1

MCInit ==
  /\ Init
  /\ DC!Init /\ PD!Init /\ RL!Init
  /\ part \in {"proxy", "dnscrypt", "servers", "rate"}
  /\ part # "dnscrypt" => proto = "tcp"
  /\ part # "proxy" => configured = CHOOSE c \in Configs : TRUE

OfProxy(act) == part = "proxy" /\ act /\ UNCHANGED <<part, dcVars, pdVars, rlVars>>
OfDNSCrypt(act) == part = "dnscrypt" /\ act /\ UNCHANGED <<part, vars, pdVars, rlVars>>

MCNext ==
  \/ OfProxy(Next /\ FewRuns)
  \/ OfDNSCrypt(DC!Next)
  \/ part = "servers" /\ PD!Next /\ UNCHANGED <<part, vars, dcVars, rlVars>>
  \/ part = "rate" /\ RL!Next /\ UNCHANGED <<part, vars, dcVars, pdVars>>

MCFairness ==
  /\ WF_mcVars(OfProxy(CallGoesOn))
  /\ WF_mcVars(OfProxy(\E t \in Tasks : CancelCloses(t)))
  /\ \A g \in Gens :
       WF_mcVars(OfProxy(\E l \in Listeners : LoopSteps(g, l))
                 \/ OfDNSCrypt(DC!Progress))
  /\ \A t \in Tasks : WF_mcVars(OfProxy(TaskSteps(t)))
  /\ PD!Fairness

MCSpec == MCInit /\ [][MCNext]_mcVars /\ MCFairness

\* Silent clients are disconnected by the read deadlines, and the channel under
\* requestsSema serves its waiters in turn.
MCTimelySpec ==
  /\ MCSpec
  /\ \A t \in Tasks :
       /\ WF_mcVars(OfProxy(ClientGivesUp(t)))
       /\ SF_mcVars(OfProxy(StreamAcquires(t)))

-----------------------------------------------------------------------------

\* dnscrypt.Server closes done only when no handler of the run is left, and reads
\* nothing once it is stopped, though it may still start the handler of a datagram
\* it had read: the runs that ProxyDNSCrypt is composed of.
ImplementsServerRun == DC!ImplementsServerRun

\* Nothing is left open by Shutdown or by a Start that failed: no listener of the
\* proxy stays bound, a DNSCrypt server closes every socket, the connections it
\* had adopted included, and no server of the proxy is left running.
NothingOpenWhileStopped ==
  /\ NothingBoundWhileStopped
  /\ part = "dnscrypt" => DC!TypeOK /\ DC!NoConnOutlivesShutdown
  /\ part = "servers" => PD!StoppedAreStopped

\* Both kinds of server report the failures of their sockets, and no others.
ReportsAreFailures ==
  FailuresAreReported /\ (part = "dnscrypt" => DC!LossIsReported)

\* A generation of the proxy that is shut down ends in the end, and so does a run
\* of the DNSCrypt server, even if clients stay connected and silent and the
\* server is started again meanwhile.  Shutdown of the proxy returns, although it
\* waits for the DNSCrypt handlers while it holds the proxy's mutex.
ShutdownsEnd ==
  []<>(CancelledHaveEnded /\ DC!StoppedHasEnded /\ PD!AllHasEnded)

\* A limiter allows no more than its number of requests of a subnet in any second,
\* and a subnet gets a new limiter only when the old one has expired.
RateIsKept == part = "rate" => RL!RateIsKept

=============================================================================
