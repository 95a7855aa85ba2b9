------------------------------- MODULE HTTPWork -------------------------------
(***************************************************************************)
(* upstream/http_work.go with the users of it in upstream/doh.go: the      *)
(* probes and dials that one Exchange admits, and the join that ends it.   *)
(*                                                                         *)
(* net/http starts a queued dial when it likes: during the RoundTrip, after *)
(* it has returned, or after the whole Exchange.  An HTTP/3 dial returns   *)
(* before its handshake is complete and hands its reference over.          *)
(***************************************************************************)
EXTENDS Integers, FiniteSets

CONSTANTS Dials,      \* the dials net/http may want
          MaxTrips    \* bound of the clients the Exchange creates and uses

Probes == {"quic", "tls"}

ASSUME HTTPWorkAssumption ==
  MaxTrips \in Nat \ {0} /\ IsFiniteSet(Dials) /\ Dials \cap Probes = {}

VARIABLES xpc, trips, http3, canceled,   \* the Exchange and its request context
          sealed, work,                  \* httpWork: the flag and the WaitGroup
          probe, answer,                 \* the two probes and their channels
          dial, early                    \* where each dial is, and if it is HTTP/3's

dialVars == <<dial, early>>
vars == <<xpc, trips, http3, canceled, sealed, work, probe, answer, dialVars>>

Init ==
  /\ xpc = "create" /\ trips = 0 /\ http3 = FALSE /\ canceled = FALSE
  /\ sealed = FALSE /\ work = 0
  /\ probe = [p \in Probes |-> "none"] /\ answer = [p \in Probes |-> "none"]
  /\ dial = [d \in Dials |-> "none"] /\ early = [d \in Dials |-> FALSE]

\* Both probes are registered before either starts.
ProbesAdded == 2

\* probeH3 when both HTTP/3 and HTTP/2 are allowed.  A second client is only
\* created once the probes of the first are over, to bound the instance.
ProbeH3 ==
  /\ xpc = "create" /\ \A p \in Probes : probe[p] \in {"none", "done"}
  /\ work' = work + ProbesAdded
  /\ probe' = [p \in Probes |-> "running"] /\ answer' = [p \in Probes |-> "none"]
  /\ xpc' = "probing"
  /\ UNCHANGED <<trips, http3, canceled, sealed, dialVars>>

\* Only one protocol is allowed, or the transport could not be created.
CreateUnprobed ==
  /\ xpc = "create"
  /\ \/ xpc' = "send" /\ http3' \in BOOLEAN
     \/ xpc' = "finish" /\ UNCHANGED http3
  /\ UNCHANGED <<trips, canceled, sealed, work, probe, answer, dialVars>>

\* A probe writes to its buffered channel, then it is done.
ProbeAnswers(p) ==
  /\ probe[p] = "running" /\ answer[p] = "none"
  /\ \E a \in {"ok", "error"} : answer' = [answer EXCEPT ![p] = a]
  /\ UNCHANGED <<xpc, trips, http3, canceled, sealed, work, probe, dialVars>>

ProbeForgotten(p) ==
  /\ probe[p] = "running" /\ answer[p] # "none"
  /\ probe' = [probe EXCEPT ![p] = "done"]
  /\ UNCHANGED <<xpc, trips, http3, canceled, sealed, work, answer, dialVars>>

ProbeDone(p) ==
  /\ probe[p] = "running" /\ answer[p] # "none"
  /\ probe' = [probe EXCEPT ![p] = "done"] /\ work' = work - 1
  /\ UNCHANGED <<xpc, trips, http3, canceled, sealed, answer, dialVars>>

\* The select of probeH3; with either result the slower probe is left running.
ProbeSelected(p) ==
  /\ xpc = "probing" /\ answer[p] # "none"
  /\ http3' = IF p = "quic" THEN answer[p] = "ok" ELSE answer[p] = "error"
  /\ xpc' = "send"
  /\ UNCHANGED <<trips, canceled, sealed, work, probe, answer, dialVars>>

\* client.Do, for which net/http queues any of the dials.
RoundTrip ==
  /\ xpc = "send" /\ trips < MaxTrips
  /\ \E D \in SUBSET {d \in Dials : dial[d] = "none"} :
       /\ dial' = [d \in Dials |-> IF d \in D THEN "queued" ELSE dial[d]]
       /\ early' = [d \in Dials |-> IF d \in D THEN http3 ELSE early[d]]
  /\ trips' = trips + 1 /\ xpc' = "trip"
  /\ UNCHANGED <<http3, canceled, sealed, work, probe, answer>>

\* It returns whatever its dials do; the Exchange resets the client or ends.
RoundTripEnds ==
  /\ xpc = "trip"
  /\ \/ xpc' = "create" /\ trips < MaxTrips
     \/ xpc' = "finish"
  /\ UNCHANGED <<trips, http3, canceled, sealed, work, probe, answer, dialVars>>

\* The timeout of the request.
Cancel ==
  /\ ~canceled /\ canceled' = TRUE
  /\ UNCHANGED <<xpc, trips, http3, sealed, work, probe, answer, dialVars>>

begins == TRUE
begin == ~sealed

\* beginHTTPDial: admission first, then the context of the request.
DialBegins(d) ==
  /\ dial[d] = "queued"
  /\ dial' = [dial EXCEPT ![d] = IF begin /\ ~canceled THEN "dialing" ELSE "refused"]
  /\ work' = IF begin /\ ~canceled THEN work + 1 ELSE work
  /\ UNCHANGED <<xpc, trips, http3, canceled, sealed, probe, answer, early>>

\* The dial failed, or it is complete.
DialDone(d) ==
  /\ dial[d] = "dialing"
  /\ dial' = [dial EXCEPT ![d] = "done"] /\ work' = work - 1
  /\ UNCHANGED <<xpc, trips, http3, canceled, sealed, probe, answer, early>>

\* DialEarly has returned; the reference goes to the goroutine that waits for
\* the handshake.
DialReturnsEarly(d) ==
  /\ dial[d] = "dialing" /\ early[d]
  /\ dial' = [dial EXCEPT ![d] = "handshake"]
  /\ UNCHANGED <<xpc, trips, http3, canceled, sealed, work, probe, answer, early>>

\* HandshakeComplete, or the end of the connection.
HandshakeEnds(d) ==
  /\ dial[d] = "handshake"
  /\ dial' = [dial EXCEPT ![d] = "done"] /\ work' = work - 1
  /\ UNCHANGED <<xpc, trips, http3, canceled, sealed, probe, answer, early>>

\* join: the seal under the mutex, then Wait.
Seal ==
  /\ xpc = "finish"
  /\ sealed' = TRUE /\ xpc' = "wait"
  /\ UNCHANGED <<trips, http3, canceled, work, probe, answer, dialVars>>

Return ==
  /\ xpc = "wait" /\ work = 0
  /\ xpc' = "returned"
  /\ UNCHANGED <<trips, http3, canceled, sealed, work, probe, answer, dialVars>>

ExchangeStep == ProbeH3 \/ CreateUnprobed \/ RoundTrip \/ RoundTripEnds \/ Seal \/ Return
                \/ \E p \in Probes : ProbeSelected(p)
ProbeStep(p) == ProbeAnswers(p) \/ ProbeDone(p)
DialStep(d) == DialDone(d) \/ DialReturnsEarly(d) \/ HandshakeEnds(d)

Next ==
  \/ ExchangeStep \/ Cancel
  \/ \E p \in Probes : ProbeStep(p)
  \/ \E d \in Dials : DialBegins(d) \/ DialStep(d)

Progress == ExchangeStep \/ (\E p \in Probes : ProbeStep(p)) \/ (\E d \in Dials : DialStep(d))

\* Probes, dials and requests have timeouts, so not all of them stand still
\* while one can move.  A queued dial need never start.
Spec == Init /\ [][Next]_vars /\ WF_vars(Progress)
-----------------------------------------------------------------------------
TypeOK ==
  /\ xpc \in {"create", "probing", "send", "trip", "finish", "wait", "returned"}
  /\ trips \in 0..MaxTrips /\ http3 \in BOOLEAN /\ canceled \in BOOLEAN
  /\ sealed \in BOOLEAN /\ work \in Nat
  /\ probe \in [Probes -> {"none", "running", "done"}]
  /\ answer \in [Probes -> {"none", "ok", "error"}]
  /\ dial \in [Dials -> {"none", "queued", "dialing", "handshake", "done", "refused"}]
  /\ early \in [Dials -> BOOLEAN]

Live == {p \in Probes : probe[p] = "running"} \cup {d \in Dials : dial[d] \in {"dialing", "handshake"}}

(***************************************************************************)
(* The WaitGroup counts exactly the probes, dials and unfinished           *)
(* handshakes that run: none is forgotten and none is counted off twice.   *)
(***************************************************************************)
CountsTheRunning == work = Cardinality(Live)

(***************************************************************************)
(* When Exchange has returned nothing it started is running, and a dial    *)
(* that net/http had queued for it can no longer start.                    *)
(***************************************************************************)
ReturnsAlone == xpc = "returned" => Live = {}

(***************************************************************************)
(* Sealing admission and joining the admitted are one decision: while the  *)
(* join waits, the count only falls.                                       *)
(***************************************************************************)
NoAdmissionDuringJoin == [][xpc = "wait" => work' <= work]_vars

(***************************************************************************)
(* The join ends: Exchange returns although the slower probe and the dials *)
(* outlive the requests they were started for.                             *)
(***************************************************************************)
ExchangeReturns == <>(xpc = "returned")
=============================================================================
