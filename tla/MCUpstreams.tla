---------------------------- MODULE MCUpstreams ----------------------------
(***************************************************************************)
(* Instances of one exchange, of what the upstream side keeps between      *)
(* exchanges and of how it asks several servers at a time; a behaviour     *)
(* picks one of them:                                                      *)
(*   "receipt"   the receipt of an exchange, with any order of calls       *)
(*   "plain"     one plain exchange, UDP or TCP, bootstrap or not          *)
(*   "encrypted" one DNSCrypt exchange                                     *)
(*   "message"   the lengths of a DNSCrypt query and its response          *)
(*   "dot"       the connection pool of DNS-over-TLS                       *)
(*   "doq"       the shared connection of DNS-over-QUIC                    *)
(*   "dnscrypt"  the shared certificate of DNSCrypt                        *)
(*   "fanout"    one call that asks up to three servers                    *)
(*   "fastest"   the choice of the fastest address                         *)
(* The cutoff of a receipt is in the middle of the clock's range; two      *)
(* messages per socket and up to eight reservations let a stray datagram   *)
(* precede the answer on each of the four connections of a plain exchange. *)
(***************************************************************************)
EXTENDS PlainExchange

CONSTANTS Exchanges, Conns  \* of DoTPool and the modules like it

VARIABLES
  part, ePc, eUdp, strays, offered, cert, eHeld, eResp, eErr, sockets, dropped,
  proto, advertised, query, reply, mAt, wire, whole, opened, tConns, tOpen,
  tBroken, tAt, tConn, tCached, tFailed, tLate, tClosed,
  shared, mu, qOpen, qBroken, qAt, qConn, qCached, qFailed, attempt,
  qClosed, certificate, refresher, cAt, fetched, cLate, cClosed, mode, ups,
  caller, worker, outcome, ch, errs, res, ret, replies, fAt, left, ipCache, ping, resCh, pr, fRet

\* Valid certificates that differ in serial and version, and the newest ones
\* spoilt in each of the ways that a record can be.
MCCert(s, v) ==
  [txt |-> TRUE, unmarshals |-> TRUE, signed |-> TRUE, from |-> 1, to |-> 3, serial |-> s, es |-> v]
MCRecords ==
  {MCCert(1, 1), MCCert(1, 2), MCCert(2, 1),
   [MCCert(3, 2) EXCEPT !.txt = FALSE], [MCCert(3, 2) EXCEPT !.unmarshals = FALSE],
   [MCCert(3, 2) EXCEPT !.signed = FALSE], [MCCert(3, 2) EXCEPT !.to = 1],
   [MCCert(2, 2) EXCEPT !.to = 2]}

\* Lengths around those at which padding, truncation and the buffers matter.
MCLens == {17, 255, 256, 319, 320, 382, 383, 446, 447, 448, 512, 513, 1168, 1169, 4032}
MCLongLens == {65470, 65471, 65472}

Enc == INSTANCE DNSCryptExchange WITH
         Records <- MCRecords, MaxRecords <- 3, MaxStrays <- 1, Today <- 2,
         at <- ePc, udp <- eUdp, held <- eHeld, resp <- eResp, err <- eErr
Msg == INSTANCE DNSCryptMessage WITH
         QueryLens <- MCLens, ReplyLens <- MCLens \cup MCLongLens,
         Advertised <- {0, 512, 1232, 4096}, at <- mAt
DoT == INSTANCE DoTPool WITH
         conns <- tConns, open <- tOpen, broken <- tBroken, at <- tAt, conn <- tConn,
         cached <- tCached, failed <- tFailed, late <- tLate, isClosed <- tClosed
DoQ == INSTANCE DoQConnection WITH
         open <- qOpen, broken <- qBroken, at <- qAt, conn <- qConn,
         cached <- qCached, failed <- qFailed, isClosed <- qClosed
Cert == INSTANCE DNSCryptCertificate WITH
          at <- cAt, late <- cLate, isClosed <- cClosed
Fan == INSTANCE FanOut WITH Servers <- 1..3
Fast == INSTANCE FastestAddr WITH
          Addrs <- 1..2, Ports <- {80}, Latencies <- 1..2, at <- fAt,
          cache <- ipCache, ret <- fRet

plainOnly == <<workVars, abandoned>>
encVars == <<ePc, eUdp, strays, offered, cert, eHeld, eResp, eErr, sockets, dropped>>
msgVars == <<proto, advertised, query, reply, mAt, wire, whole, opened>>
dotVars == <<tConns, tOpen, tBroken, tAt, tConn, tCached, tFailed, tLate, tClosed>>
doqVars == <<shared, mu, qOpen, qBroken, qAt, qConn, qCached, qFailed, attempt,
             qClosed>>
certVars == <<certificate, refresher, cAt, fetched, cLate, cClosed>>
fanVars == <<mode, ups, caller, worker, outcome, ch, errs, res, ret>>
fastVars == <<replies, fAt, left, ipCache, ping, resCh, pr, fRet>>
exchangeVars == <<vars, plainOnly, encVars, msgVars>>
sessionVars == <<dotVars, doqVars, certVars>>
groupVars == <<fanVars, fastVars>>
mcVars == <<part, exchangeVars, sessionVars, groupVars>>

\* No address, one, and two in one or in two replies.
MCReplies == {<<{}>>, <<{2}, {}>>, <<{1, 2}>>, <<{}, {1, 2}>>, <<{2}, {1}>>}

MCInit ==
  /\ part \in {"plain", "receipt", "encrypted", "message", "dot", "doq", "dnscrypt", "fanout",
               "fastest"}
  /\ PlainInit
  /\ part # "plain" => conf = [net |-> "udp", bootstrap |-> FALSE]
  /\ Enc!CryptInit
  /\ Msg!MsgInit
  /\ part # "message" => proto = "udp" /\ advertised = 0 /\ query = 17
  /\ DoT!Init /\ DoQ!Init /\ Cert!Init
  /\ Fan!Init
  /\ part # "fanout" => mode = "all" /\ ups = {}
  /\ replies \in MCReplies
  /\ Fast!Init
  /\ part # "fastest" => replies = <<{}>> /\ ipCache = [a \in 1..2 |-> Fast!None]

OfReceipt(act) ==
  /\ part = "receipt" /\ act
  /\ UNCHANGED <<part, plainOnly, encVars, msgVars, sessionVars, groupVars>>
OfPlain(act) ==
  /\ part = "plain" /\ act
  /\ UNCHANGED <<part, encVars, msgVars, sessionVars, groupVars>>
OfEnc(act) ==
  /\ part = "encrypted" /\ act
  /\ UNCHANGED <<part, plainOnly, msgVars, sessionVars, groupVars>>
OfMsg(act) ==
  /\ part = "message" /\ act
  /\ UNCHANGED <<part, vars, plainOnly, encVars, sessionVars, groupVars>>
OfDoT(act) ==
  part = "dot" /\ act /\ UNCHANGED <<part, exchangeVars, doqVars, certVars, groupVars>>
OfDoQ(act) ==
  part = "doq" /\ act /\ UNCHANGED <<part, exchangeVars, dotVars, certVars, groupVars>>
OfCert(act) ==
  part = "dnscrypt" /\ act /\ UNCHANGED <<part, exchangeVars, dotVars, doqVars, groupVars>>
OfFan(act) ==
  part = "fanout" /\ act /\ UNCHANGED <<part, exchangeVars, sessionVars, fastVars>>
OfFast(act) ==
  part = "fastest" /\ act /\ UNCHANGED <<part, exchangeVars, sessionVars, fanVars>>

MCNext ==
  \/ OfReceipt(Next) \/ OfPlain(PlainNext) \/ OfEnc(Enc!CryptNext) \/ OfMsg(Msg!MsgNext)
  \/ OfDoT(DoT!Next) \/ OfDoQ(DoQ!Next) \/ OfCert(Cert!Next)
  \/ OfFan(Fan!Next) \/ OfFast(Fast!Next)
MCSpec == MCInit /\ [][MCNext]_mcVars

\* Exchange "shouldn't be called after closing": only those under way go on.
NoneBeginsClosed ==
  \A e \in Exchanges :
    /\ tClosed /\ tAt[e] = "idle" => tAt'[e] = "idle"
    /\ qClosed /\ qAt[e] = "idle" => qAt'[e] = "idle"

MCContractSpec ==
  MCInit /\ [][(OfDoT(DoT!Next) \/ OfDoQ(DoQ!Next)) /\ NoneBeginsClosed]_mcVars

\* Every step of an exchange or a dial happens in the end: dials and reads have
\* deadlines, and the mutexes and the channel refresh serve their waiters in turn.
MCFairness ==
  /\ WF_plainVars(OfPlain(Worker))
  /\ WF_encVars(OfEnc(Enc!Worker))
  /\ \A e \in Exchanges :
       SF_<<sessionVars, groupVars>>(
         \/ OfDoT(DoT!ExchangeStep(e))
         \/ OfDoQ(DoQ!ExchangeStep(e))
         \/ OfCert(Cert!ExchangeStep(e))
         \/ OfFan(Fan!Next)
         \/ OfFast(Fast!CallStep \/ \E p \in Fast!Pings : Fast!PingStep(p)))

MCFairSpec == MCSpec /\ MCFairness

-----------------------------------------------------------------------------

\* Every open connection has an owner, the pool, an exchange or the upstream,
\* and a DNS-over-TLS connection has one only.
NoConnLost ==
  CASE part = "dot" -> DoT!TypeOK /\ DoT!ConnsAreOwned
    [] part = "doq" -> DoQ!TypeOK /\ DoQ!ConnsAreOwned
    [] OTHER -> TRUE

\* No query is replayed after a timeout or a complete response.
NoUnsafeRetry ==
  DoT!RetriesAreSafe /\ DoQ!RetriesAreSafe

\* What Exchange returns is what its receipt recorded, unless the group had
\* already expired or abandoned the exchange, for plain DNS and for DNSCrypt: a
\* truncated datagram never decides the receipt while the TCP continuation is
\* still to come, and a reservation is held only while its message is decoded, so
\* that no path leaves the candidate slot taken.
ReceiptAgreesWithExchange ==
  CASE part = "plain" ->
         PlainTypeOK /\ ReceiptAgrees /\ ReservedOnlyWhileDecoding /\ TruncatedDatagramIsProvisional
    [] part = "encrypted" -> Enc!CryptTypeOK /\ Enc!CryptReceiptAgrees /\ Enc!ReservedOnlyWhileOpening
    [] OTHER -> TRUE

\* The exchanges of a DNSCrypt upstream share one verified certificate, the best
\* of those the server offers, fetched by one of them at a time and only when it
\* is missing; and each side opens every message of the other that arrives whole.
DNSCryptPeersAgree ==
  CASE part = "dnscrypt" -> Cert!TypeOK /\ Cert!CertificateIsShared
    [] part = "encrypted" -> Enc!ChoosesPreferred
    [] part = "message" -> Msg!PeersAgree
    [] OTHER -> TRUE

\* dns.go, on truncation before encryption: "64 should cover all cases".
RepliesFit ==
  part = "message" => Msg!RepliesFit

\* ExchangeParallel, ExchangeAll, the resolvers and the dialer return an error
\* only if all servers failed, and otherwise what a server gave.
ErrorMeansAllFailed ==
  part = "fanout" => Fan!ErrorMeansAllFailed

\* ExchangeFastest leaves an address that was dialed with success in the answer,
\* and its cache never forgets a success for a failure or a slower dial.
FastestIsKept ==
  /\ [](part = "fastest" => Fast!ChosenWasDialed)
  /\ [][part = "fastest" => Fast!CacheImproves]_mcVars

\* Close leaves no connection open once the exchanges have returned.
NothingLeftOpen ==
  DoT!ClosedIsClosed /\ DoQ!ClosedIsClosed

\* Every plain and every DNSCrypt exchange ends with a decision, with the call
\* returned and with no socket left open, whatever the servers send.
ExchangesEnd ==
  <>[](/\ part = "plain" => ExchangeEnded
       /\ part = "encrypted" => Enc!ExchangeEnded)

Over == {"idle", "replied", "failed", "returned"}

\* Every exchange returns: none waits forever for the pool, for connMu held by a
\* dialing exchange, or for a certificate refresher that failed; and so does every
\* goroutine that asks a server or dials an address for a call that is over.
ExchangesReturn ==
  \A e \in Exchanges :
    []<>(/\ tAt[e] \in Over /\ qAt[e] \in Over /\ cAt[e] \in Over
         /\ part = "fanout" => Fan!HasEnded
         /\ part = "fastest" => Fast!HasEnded)

=============================================================================
