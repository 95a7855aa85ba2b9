------------------------ MODULE DNSCryptCertificate ------------------------
(***************************************************************************)
(* The resolver certificate that the exchanges of upstream.dnsCrypt share. *)
(* An exchange without a valid certificate becomes the refresher by        *)
(* filling the channel refresh, of capacity 1; the others wait for it, each *)
(* with its own deadline, and look again when it is their turn.  Close      *)
(* cancels the context that every exchange runs under.                      *)
(***************************************************************************)
EXTENDS Naturals

CONSTANT Exchanges

VARIABLES
  certificate,  \* dnsCrypt.resolverInfo: "none", "valid", "expired" or "refused"
  refresher,    \* the exchange whose token is in the channel refresh, or 0
  at,           \* at[e]: the step of exchange e
  fetched,      \* fetched[e]: what the refresher has received
  late,         \* the exchanges whose deadline has passed
  isClosed      \* Close has been called

vars == <<certificate, refresher, at, fetched, late, isClosed>>

Init ==
  /\ certificate = "none"
  /\ refresher = 0
  /\ at = [e \in Exchanges |-> "idle"]
  /\ fetched = [e \in Exchanges |-> "none"]
  /\ late = {}
  /\ isClosed = FALSE

Go(e, step) ==
  at' = [at EXCEPT ![e] = step]

\* The context of the exchange is done.
Done(e) ==
  isClosed \/ e \in late

-----------------------------------------------------------------------------

Begin(e) ==
  /\ at[e] = "idle"
  /\ Go(e, IF Done(e) THEN "failed" ELSE "look")
  /\ UNCHANGED <<certificate, refresher, fetched, late, isClosed>>

\* currentCertificate, which checks the dates.
Look(e) ==
  /\ at[e] = "look"
  /\ Go(e, IF certificate = "valid" THEN "query" ELSE "wait")
  /\ UNCHANGED <<certificate, refresher, fetched, late, isClosed>>

\* select: the channel takes the token, or the context is done.
TakeTurn(e) ==
  /\ at[e] = "wait"
  /\ refresher = 0
  /\ refresher' = e
  /\ Go(e, "again")
  /\ UNCHANGED <<certificate, fetched, late, isClosed>>

StopWaiting(e) ==
  /\ at[e] = "wait"
  /\ Done(e)
  /\ Go(e, "failed")
  /\ UNCHANGED <<certificate, refresher, fetched, late, isClosed>>

LeaveHolding(e, step) ==
  /\ Go(e, step)
  /\ UNCHANGED refresher

\* The deferred receive from refresh, on every way out.
Leave(e, step) ==
  /\ Go(e, step)
  /\ refresher' = 0

LookOnce(e) ==
  /\ at[e] = "again"
  /\ IF Done(e) THEN Leave(e, "failed")
     ELSE Go(e, "fetch") /\ UNCHANGED refresher
  /\ UNCHANGED <<certificate, fetched, late, isClosed>>

\* The refresher looks again: the one before it may have succeeded.
LookAgain(e) ==
  /\ at[e] = "again"
  /\ IF Done(e) THEN Leave(e, "failed")
     ELSE IF certificate = "valid" THEN Leave(e, "query")
     ELSE Go(e, "fetch") /\ UNCHANGED refresher
  /\ UNCHANGED <<certificate, fetched, late, isClosed>>

\* client.DialContext fetches the certificate with the latest valid serial.
Fetch(e) ==
  /\ at[e] = "fetch"
  /\ \E c \in {"valid", "refused"} : fetched' = [fetched EXCEPT ![e] = c]
  /\ Go(e, "verify")
  /\ UNCHANGED <<certificate, refresher, late, isClosed>>

FetchFails(e) ==
  /\ at[e] = "fetch"
  /\ Leave(e, "failed")
  /\ UNCHANGED <<certificate, fetched, late, isClosed>>

\* The verification callback decides; an accepted certificate is published.
Verify(e) ==
  /\ at[e] = "verify"
  /\ IF fetched[e] = "refused"
       THEN Leave(e, "failed") /\ UNCHANGED certificate
       ELSE Leave(e, "query") /\ certificate' = fetched[e]
  /\ UNCHANGED <<fetched, late, isClosed>>

\* ExchangeContext over UDP, and over TCP after truncation, ends either way; the
\* context bounds it.
Query(e) ==
  /\ at[e] = "query"
  /\ \E step \in IF Done(e) THEN {"failed"} ELSE {"replied", "failed"} : Go(e, step)
  /\ UNCHANGED <<certificate, refresher, fetched, late, isClosed>>

Close ==
  /\ isClosed' = TRUE
  /\ UNCHANGED <<certificate, refresher, at, fetched, late>>

-----------------------------------------------------------------------------
(* The environment *)

DeadlinePasses(e) ==
  /\ at[e] \notin {"idle", "replied", "failed"}
  /\ late' = late \union {e}
  /\ UNCHANGED <<certificate, refresher, at, fetched, isClosed>>

Expires ==
  /\ certificate = "valid"
  /\ certificate' = "expired"
  /\ UNCHANGED <<refresher, at, fetched, late, isClosed>>

Again(e) ==
  /\ at[e] \in {"replied", "failed"}
  /\ Go(e, "idle")
  /\ late' = late \ {e}
  /\ fetched' = [fetched EXCEPT ![e] = "none"]
  /\ UNCHANGED <<certificate, refresher, isClosed>>

ExchangeStep(e) ==
  \/ Look(e) \/ TakeTurn(e) \/ StopWaiting(e) \/ LookAgain(e) \/ Fetch(e)
  \/ FetchFails(e) \/ Verify(e) \/ Query(e)

Next ==
  \/ Close \/ Expires
  \/ \E e \in Exchanges : ExchangeStep(e) \/ Begin(e) \/ DeadlinePasses(e) \/ Again(e)

Spec == Init /\ [][Next]_vars

-----------------------------------------------------------------------------

TypeOK ==
  /\ certificate \in {"none", "valid", "expired", "refused"}
  /\ refresher \in Exchanges \union {0}
  /\ at \in [Exchanges -> {"idle", "look", "wait", "again", "fetch", "verify",
                           "query", "replied", "failed"}]
  /\ fetched \in [Exchanges -> {"none", "valid", "refused"}]
  /\ late \subseteq Exchanges
  /\ isClosed \in BOOLEAN

\* "Concurrent calls share one verified, valid certificate": only the refresher
\* does certificate I/O, it never fetches while a valid certificate is known,
\* and no certificate that the callback refused is shared.
CertificateIsShared ==
  /\ certificate # "refused"
  /\ \A e \in Exchanges : at[e] \in {"again", "fetch", "verify"} <=> refresher = e
  /\ \A e \in Exchanges : at[e] \in {"fetch", "verify"} => certificate # "valid"

=============================================================================
