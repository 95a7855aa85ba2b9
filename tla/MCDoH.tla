-------------------------------- MODULE MCDoH --------------------------------
(***************************************************************************)
(* The two halves of the DNS-over-HTTPS upstream, the client its exchanges *)
(* share (DoHClient) and the work one exchange joins (HTTPWork), and the   *)
(* bootstrap addresses that its dials look up (HostResolver).  They share  *)
(* no state, so a behaviour explores one of them and leaves the others at  *)
(* their start.                                                            *)
(***************************************************************************)
EXTENDS HTTPWork

CONSTANTS e1, e2, c1, c2, d1, d2, MaxClients
MCDials == {d1, d2}
Exchanges == {e1, e2}
Closers == {c1, c2}

VARIABLES part, pc, mine, cached, tries, err, old, receipt,
          client, closed, closeDone, closeErr, h3, status, readers,
          now, hosts, hAt, network, began, hAnswer, hRet

Host == INSTANCE HostResolver WITH
          Lookups <- Exchanges, Networks <- {"ip", "ip4"}, TTLs <- {0, 1}, MaxTime <- 1,
          cache <- hosts, at <- hAt, answer <- hAnswer, ret <- hRet
hostVars == <<now, hosts, hAt, network, began, hAnswer, hRet>>

Shared == INSTANCE DoHClient
sharedVars == <<pc, mine, cached, tries, err, old, receipt,
                client, closed, closeDone, closeErr, h3, status, readers>>

OfWork(A) == part = "work" /\ A /\ UNCHANGED <<part, sharedVars, hostVars>>
OfClient(A) == part = "client" /\ A /\ UNCHANGED <<part, vars, hostVars>>
OfHost(A) == part = "host" /\ A /\ UNCHANGED <<part, vars, sharedVars>>
allVars == <<part, vars, sharedVars, hostVars>>

MCInit == part \in {"work", "client", "host"} /\ Init /\ Shared!Init /\ Host!Init
MCNext == OfWork(Next) \/ OfClient(Shared!Next) \/ OfHost(Host!Next)

\* A lookup's step always comes: the requests it waits for have a timeout.
MCFairness ==
  /\ WF_vars(OfWork(Progress))
  /\ WF_sharedVars(OfClient(Shared!Progress))
  /\ \A l \in Exchanges : WF_hostVars(OfHost(Host!LookupStep(l)))

MCSpec == MCInit /\ [][MCNext]_allVars /\ MCFairness

\* Every HTTP client that getClient or resetClient created is current, closed, or
\* about to be closed by the exchange or Close that retired it.  No Close returns
\* before the client is closed, and all report the same error.
NoClientLost == Shared!TypeOK /\ Shared!NoClientLost /\ Shared!ClosersAgree

\* resetClient never retires the successor of the client that failed.
OnlyItsUsersRetireIt == Shared!OnlyItsUsersRetireIt

\* CachingResolver returns no address that had expired when it was asked.
AddressesAreCurrent == part = "host" => Host!AddressesAreCurrent

\* Every Exchange returns with its receipt decided, and every Close and every
\* lookup of a bootstrap address return.
EveryoneReturns ==
  /\ Shared!EveryoneReturns
  /\ \A l \in Exchanges : []<>(hAt[l] \in {"idle", "returned"})

\* Exchange returns from httpWork.join although probes and dials outlive the
\* requests they were started for.
JoinEnds == part = "work" => ExchangeReturns
=============================================================================
