------------------------------ MODULE DoHClient ------------------------------
(***************************************************************************)
(* upstream/doh.go: the HTTP client that the exchanges of a DNS-over-HTTPS *)
(* upstream share, replace when it fails and close.  The dials and probes  *)
(* an exchange joins before it returns are in HTTPWork.                    *)
(*                                                                         *)
(* clientMu is held over createClient, so a lookup or a replacement of the *)
(* client is one step; closing a client happens after the unlock.  A       *)
(* RoundTrip on an HTTP/3 client holds the read lock of its transport      *)
(* until the headers are there, Close takes the write lock; the body is    *)
(* read with no lock held.                                                 *)
(***************************************************************************)
EXTENDS Integers, FiniteSets

CONSTANTS Exchanges, Closers,
          MaxClients    \* bound of the clients ever created

VARIABLES pc, mine, cached, tries, err, old,   \* an Exchange or a Close
          receipt,                             \* what the group was told
          client, closed, closeDone, closeErr, \* dnsOverHTTPS
          h3, status, readers                  \* the clients created

procVars == <<pc, mine, cached, tries, err, old, receipt>>
upstreamVars == <<client, closed, closeDone, closeErr>>
clientVars == <<h3, status, readers>>
vars == <<procVars, upstreamVars, clientVars>>

Procs == Exchanges \cup Closers
Clients == 1..MaxClients
None == 0
Created == {c \in Clients : status[c] # "none"}

Init ==
  /\ pc = [p \in Procs |-> "start"] /\ mine = [e \in Exchanges |-> None]
  /\ cached = [e \in Exchanges |-> FALSE] /\ tries = [e \in Exchanges |-> 0]
  /\ err = [p \in Procs |-> "nil"] /\ old = [p \in Procs |-> None]
  /\ receipt = [e \in Exchanges |-> "open"]
  /\ client = None /\ closed = FALSE /\ closeDone = FALSE /\ closeErr = "nil"
  /\ h3 = [c \in Clients |-> FALSE] /\ status = [c \in Clients |-> "none"]
  /\ readers = [c \in Clients |-> {}]

Goto(p, at) == pc' = [pc EXCEPT ![p] = at]
Fail(p, error) == err' = [err EXCEPT ![p] = error]

\* createClient: the transport is HTTP/3 when its probe was the faster one.
createClient ==
  \E c \in Clients, is3 \in BOOLEAN :
    /\ c = Cardinality(Created) + 1
    /\ client' = c
    /\ status' = [status EXCEPT ![c] = "open"]
    /\ h3' = [h3 EXCEPT ![c] = is3]

createFails == client' = None /\ UNCHANGED <<status, h3>>

\* Close seals the admission of clients.
Sealed == closed

GetClosed(e) ==
  /\ pc[e] = "start" /\ Sealed
  /\ Fail(e, "closed") /\ Goto(e, "join")
  /\ UNCHANGED <<mine, cached, tries, old, receipt, upstreamVars, clientVars>>

GetCached(e) ==
  /\ pc[e] = "start" /\ ~Sealed /\ client # None
  /\ mine' = [mine EXCEPT ![e] = client] /\ cached' = [cached EXCEPT ![e] = TRUE]
  /\ Goto(e, "send")
  /\ UNCHANGED <<tries, err, old, receipt, upstreamVars, clientVars>>

GetNew(e) ==
  /\ pc[e] = "start" /\ ~Sealed /\ client = None
  /\ createClient
  /\ mine' = [mine EXCEPT ![e] = client'] /\ Goto(e, "send")
  /\ UNCHANGED <<cached, tries, err, old, receipt, closed, closeDone, closeErr, readers>>

\* The wait for clientMu took too long, or createClient failed.
GetFails(e) ==
  /\ pc[e] = "start" /\ ~Sealed /\ client = None
  /\ createFails
  /\ Fail(e, "other") /\ Goto(e, "join")
  /\ UNCHANGED <<mine, cached, tries, old, receipt, closed, closeDone, closeErr, readers>>

\* client.Do begins.  A waiting Close keeps new readers of an HTTP/3 client out.
RoundTrip(e) ==
  /\ pc[e] = "send"
  /\ ~(h3[mine[e]] /\ status[mine[e]] \in {"closing", "closed"})
  /\ readers' = [readers EXCEPT ![mine[e]] = @ \cup {e}]
  /\ tries' = [tries EXCEPT ![e] = @ + 1]
  /\ Goto(e, "trip")
  /\ UNCHANGED <<mine, cached, err, old, receipt, upstreamVars, h3, status>>

\* An HTTP/3 client that was closed in the meantime refuses.
RoundTripClosed(e) ==
  /\ pc[e] = "send"
  /\ h3[mine[e]] /\ status[mine[e]] = "closed"
  /\ tries' = [tries EXCEPT ![e] = @ + 1]
  /\ Fail(e, "other") /\ receipt' = [receipt EXCEPT ![e] = "failed"]
  /\ Goto(e, "lastReset")
  /\ UNCHANGED <<mine, cached, old, upstreamVars, clientVars>>

\* The loop of Exchange: isCached and i < 2.
MayRetry(e) == cached[e] /\ tries[e] <= 2

\* client.Do returns with the headers of the response.
TripReturns(e) ==
  /\ pc[e] = "trip"
  /\ readers' = [readers EXCEPT ![mine[e]] = @ \ {e}]
  /\ Goto(e, "body")
  /\ UNCHANGED <<mine, cached, tries, err, old, receipt, upstreamVars, h3, status>>

\* The body is read and the response accepted, which may well be after the
\* client was closed.
TripSucceeds(e) ==
  /\ pc[e] = "body"
  /\ Fail(e, "nil") /\ receipt' = [receipt EXCEPT ![e] = "answered"]
  /\ Goto(e, "join")
  /\ UNCHANGED <<mine, cached, tries, old, upstreamVars, clientVars>>

\* client.Do, the reading of the body or a check of the response fails.  The
\* error is one that shouldRetry accepts, such as that of a connection closed
\* under the reading, and is retried, or it is the last one: a timeout, a refused
\* response, any other failure, or no retry is left.  That is published at once.
TripFails(e) ==
  /\ pc[e] \in {"trip", "body"}
  /\ readers' = [readers EXCEPT ![mine[e]] = @ \ {e}]
  /\ \/ MayRetry(e) /\ Fail(e, "retry") /\ Goto(e, "reset") /\ UNCHANGED receipt
     \/ /\ Fail(e, "other") /\ receipt' = [receipt EXCEPT ![e] = "failed"]
        /\ Goto(e, "lastReset")
  /\ UNCHANGED <<mine, cached, tries, old, upstreamVars, h3, status>>

ResetClosed(e) ==
  /\ pc[e] \in {"reset", "lastReset"} /\ Sealed
  /\ Fail(e, "closed") /\ Goto(e, "join")
  /\ UNCHANGED <<mine, cached, tries, old, receipt, upstreamVars, clientVars>>

NoSuccessor(e) == FALSE
\* Another exchange has already replaced the client that failed.
HasSuccessor(e) == client # None /\ client # mine[e]

ResetToSuccessor(e) ==
  /\ pc[e] \in {"reset", "lastReset"} /\ ~Sealed /\ HasSuccessor(e)
  /\ mine' = [mine EXCEPT ![e] = client]
  /\ Goto(e, IF pc[e] = "reset" THEN "send" ELSE "join")
  /\ UNCHANGED <<cached, tries, err, old, receipt, upstreamVars, clientVars>>

\* The client is replaced under the lock and the old one closed after it.
ResetToNew(e) ==
  /\ pc[e] \in {"reset", "lastReset"} /\ ~Sealed /\ ~HasSuccessor(e)
  /\ createClient
  /\ mine' = [mine EXCEPT ![e] = client'] /\ old' = [old EXCEPT ![e] = client]
  /\ Goto(e, IF pc[e] = "reset" THEN "retireAndSend" ELSE "retireAndJoin")
  /\ UNCHANGED <<cached, tries, err, receipt, closed, closeDone, closeErr, readers>>

ResetFails(e) ==
  /\ pc[e] \in {"reset", "lastReset"} /\ ~Sealed /\ ~HasSuccessor(e)
  /\ createFails
  /\ old' = [old EXCEPT ![e] = client] /\ Fail(e, "other")
  /\ Goto(e, "retireAndJoin")
  /\ UNCHANGED <<mine, cached, tries, receipt, closed, closeDone, closeErr, readers>>

Retiring(p) == pc[p] \in {"retireAndSend", "retireAndJoin", "close"}

\* Nothing to close, or closeClient has returned.
Retired(p) == old[p] # None => status[old[p]] = "closed"

\* closeClient: CloseIdleConnections returns at once, the Close of an HTTP/3
\* transport waits for its readers.
CloseBegin(p) ==
  /\ Retiring(p) /\ old[p] # None /\ status[old[p]] = "open"
  /\ status' = [status EXCEPT ![old[p]] = IF h3[old[p]] THEN "closing" ELSE "closed"]
  /\ UNCHANGED <<procVars, upstreamVars, h3, readers>>

CloseEnd(p) ==
  /\ Retiring(p) /\ old[p] # None /\ status[old[p]] = "closing" /\ readers[old[p]] = {}
  /\ status' = [status EXCEPT ![old[p]] = "closed"]
  /\ UNCHANGED <<procVars, upstreamVars, h3, readers>>

RetireWithoutClosing(e) ==
  /\ pc[e] \in {"retireAndSend", "retireAndJoin"}
  /\ old' = [old EXCEPT ![e] = None]
  /\ Goto(e, IF pc[e] = "retireAndSend" THEN "send" ELSE "join")
  /\ UNCHANGED <<mine, cached, tries, err, receipt, upstreamVars, clientVars>>

RetireDone(e) ==
  /\ pc[e] \in {"retireAndSend", "retireAndJoin"} /\ Retired(e)
  /\ old' = [old EXCEPT ![e] = None]
  /\ Goto(e, IF pc[e] = "retireAndSend" THEN "send" ELSE "join")
  /\ UNCHANGED <<mine, cached, tries, err, receipt, upstreamVars, clientVars>>

\* The deferred state.finish(err), then the join; the locals are gone.
Return(e) ==
  /\ pc[e] = "join"
  /\ receipt' = [receipt EXCEPT ![e] = IF @ = "open" THEN "failed" ELSE @]
  /\ mine' = [mine EXCEPT ![e] = None] /\ cached' = [cached EXCEPT ![e] = FALSE]
  /\ tries' = [tries EXCEPT ![e] = 0] /\ Fail(e, "nil")
  /\ Goto(e, "returned")
  /\ UNCHANGED <<old, upstreamVars, clientVars>>

Close(p) ==
  /\ pc[p] = "start" /\ ~closed
  /\ closed' = TRUE /\ old' = [old EXCEPT ![p] = client] /\ client' = None
  /\ Goto(p, "close")
  /\ UNCHANGED <<mine, cached, tries, err, receipt, closeDone, closeErr, clientVars>>

DoneForgotten == closeDone
DoneClosed == TRUE

CloseReturns(p) ==
  /\ pc[p] = "close" /\ Retired(p)
  /\ \E e \in IF old[p] # None /\ h3[old[p]] THEN {"nil", "close"} ELSE {"nil"} :
       closeErr' = e /\ err' = [err EXCEPT ![p] = e]
  /\ closeDone' = DoneClosed /\ old' = [old EXCEPT ![p] = None]
  /\ Goto(p, "returned")
  /\ UNCHANGED <<mine, cached, tries, receipt, client, closed, clientVars>>

\* A second Close waits for the first.
CloseAgain(p) ==
  /\ pc[p] = "start" /\ closed
  /\ Goto(p, "waitClose")
  /\ UNCHANGED <<mine, cached, tries, err, old, receipt, upstreamVars, clientVars>>

DoesNotWait(p) == TRUE
CloseAwaited(p) == closeDone

CloseJoined(p) ==
  /\ pc[p] = "waitClose" /\ CloseAwaited(p)
  /\ err' = [err EXCEPT ![p] = closeErr] /\ Goto(p, "returned")
  /\ UNCHANGED <<mine, cached, tries, old, receipt, upstreamVars, clientVars>>

ExchangeStep(e) ==
  \/ GetClosed(e) \/ GetCached(e) \/ GetNew(e) \/ GetFails(e)
  \/ RoundTrip(e) \/ RoundTripClosed(e) \/ TripReturns(e) \/ TripSucceeds(e) \/ TripFails(e)
  \/ ResetClosed(e) \/ ResetToSuccessor(e) \/ ResetToNew(e) \/ ResetFails(e)
  \/ CloseBegin(e) \/ CloseEnd(e) \/ RetireDone(e) \/ Return(e)

CloserStep(p) ==
  \/ Close(p) \/ CloseBegin(p) \/ CloseEnd(p) \/ CloseReturns(p) \/ CloseAgain(p) \/ CloseJoined(p)


Next == (\E e \in Exchanges : ExchangeStep(e)) \/ (\E p \in Closers : CloserStep(p))

Progress ==
  \/ \E e \in Exchanges : pc[e] # "start" /\ ExchangeStep(e)
  \/ \E p \in Closers : pc[p] # "start" /\ CloserStep(p)

\* Nobody needs to call; the calls that were made do not all stand still while
\* one of them can move, since requests have timeouts.
Spec == Init /\ [][Next]_vars /\ WF_vars(Progress)
-----------------------------------------------------------------------------
TypeOK ==
  /\ client \in Clients \cup {None} /\ {closed, closeDone} \subseteq BOOLEAN
  /\ \A e \in Exchanges : /\ mine[e] \in Clients \cup {None} /\ tries[e] \in 0..(IF cached[e] THEN 3 ELSE 1)
                          /\ pc[e] \in {"send", "trip", "body"} => mine[e] # None
                          /\ receipt[e] \in {"open", "answered", "failed"}
  /\ \A c \in Clients : status[c] \in {"none", "open", "closing", "closed"} /\ readers[c] \subseteq Exchanges

(***************************************************************************)
(* Every client that was created is the current one, is closed, or is in   *)
(* the hands of the exchange or Close that took it away and will close it: *)
(* no keep-alive connection is left behind.  After Close none is current,  *)
(* and no HTTP/3 client is closed under an exchange that waits for its     *)
(* headers: what it may be closed under is the reading of a body.          *)
(***************************************************************************)
NoClientLost ==
  /\ \A c \in Created :
       status[c] # "closed" => c = client \/ \E p \in Procs : Retiring(p) /\ old[p] = c
  /\ client # None => status[client] = "open" /\ ~closed
  /\ \A c \in Created : h3[c] /\ status[c] = "closed" =>
       readers[c] = {} /\ \A e \in Exchanges : pc[e] = "trip" => mine[e] # c

(***************************************************************************)
(* A late failure cannot retire its successor: a client stops being the    *)
(* current one only by Close or by an exchange that failed on that client. *)
(***************************************************************************)
OnlyItsUsersRetireIt ==
  [][client # None /\ client' # client =>
       closed' \/ \E e \in Exchanges : mine[e] = client /\ err[e] # "nil" /\ pc'[e] # pc[e]]_vars

(***************************************************************************)
(* No Close returns before the client the first one took is closed, and    *)
(* all of them report the same error.                                      *)
(***************************************************************************)
ClosersAgree ==
  \A p, q \in Closers : pc[p] = "returned" =>
    /\ \A c \in Created : ~(old[q] = c /\ status[c] # "closed")
    /\ pc[q] = "returned" => err[p] = err[q]

(***************************************************************************)
(* Every Exchange returns with its receipt decided, and every Close        *)
(* returns, although they close clients under each other.                  *)
(***************************************************************************)
EveryoneReturns ==
  <>[](\A p \in Procs : pc[p] \in {"start", "returned"} /\
                        (p \in Exchanges /\ pc[p] = "returned" => receipt[p] # "open"))
=============================================================================
