---------------------------- MODULE HTTPWorkProofs ----------------------------
(***************************************************************************)
(* Proofs about HTTPWork, for any set of dials and any number of clients.  *)
(***************************************************************************)
EXTENDS HTTPWork, FiniteSetTheorems, TLAPS

(***************************************************************************)
(* The inductive invariant: the WaitGroup counts the live children, the    *)
(* join has sealed the scope before it waits, and it returned at zero.     *)
(* The types of the counter follow from it, not the other way round: work  *)
(* is a natural number because it is a cardinality.                        *)
(***************************************************************************)
IInv ==
  /\ TypeOK
  /\ CountsTheRunning
  /\ xpc \in {"wait", "returned"} => sealed
  /\ ReturnsAlone

\* The children that run form a finite set, so they can be counted.
LEMMA LiveFinite == ASSUME TypeOK PROVE IsFiniteSet(Live)
<1>1. IsFiniteSet(Probes)
  <2>1. IsFiniteSet({"quic"}) /\ IsFiniteSet({"quic"} \cup {"tls"})
    BY FS_Singleton, FS_AddElement
  <2>2. Probes = {"quic"} \cup {"tls"}
    BY DEF Probes
  <2> QED BY <2>1, <2>2
<1>2. IsFiniteSet(Probes \cup Dials)
  BY <1>1, FS_Union, HTTPWorkAssumption
<1>3. Live \in SUBSET (Probes \cup Dials)
  BY DEF Live
<1> QED BY <1>2, <1>3, FS_Subset

\* A child that starts is counted once.
LEMMA Starts ==
  ASSUME TypeOK, CountsTheRunning, NEW x, x \notin Live,
         Live' = Live \cup {x}, work' = work + 1
  PROVE  work' = Cardinality(Live') /\ work' \in Nat
<1>1. Cardinality(Live \cup {x}) = Cardinality(Live) + 1
  BY LiveFinite, FS_AddElement
<1> QED BY <1>1 DEF TypeOK, CountsTheRunning

\* A child that ends is counted off once.
LEMMA Ends ==
  ASSUME TypeOK, CountsTheRunning, NEW x \in Live,
         Live' = Live \ {x}, work' = work - 1
  PROVE  work' = Cardinality(Live') /\ work' \in Nat
<1>1. IsFiniteSet(Live) /\ IsFiniteSet(Live \ {x}) /\ Cardinality(Live \ {x}) = Cardinality(Live) - 1
  BY LiveFinite, FS_RemoveElement
<1>2. Cardinality(Live \ {x}) \in Nat
  BY <1>1, FS_CardinalityType
<1> QED BY <1>1, <1>2 DEF CountsTheRunning

LEMMA InitIInv == Init => IInv
<1> SUFFICES ASSUME Init PROVE IInv
  OBVIOUS
<1>1. TypeOK
  <2>1. trips \in 0..MaxTrips
    BY HTTPWorkAssumption DEF Init
  <2>2. probe \in [Probes -> {"none", "running", "done"}] /\ answer \in [Probes -> {"none", "ok", "error"}]
    BY DEF Init
  <2>3. /\ dial \in [Dials -> {"none", "queued", "dialing", "handshake", "done", "refused"}]
        /\ early \in [Dials -> BOOLEAN]
    BY DEF Init
  <2> QED BY <2>1, <2>2, <2>3 DEF Init, TypeOK
<1>2. Live = {}
  BY DEF Init, Live, Probes
<1>3. CountsTheRunning
  BY <1>2, FS_EmptySet DEF Init, CountsTheRunning
<1> QED BY <1>1, <1>2, <1>3 DEF Init, IInv, ReturnsAlone

LEMMA NextIInv == IInv /\ [Next]_vars => IInv'
<1> SUFFICES ASSUME IInv, [Next]_vars PROVE IInv'
  OBVIOUS
<1>t. TypeOK /\ CountsTheRunning
  BY DEF IInv
<1>q. ASSUME UNCHANGED <<work, probe, dial>>
      PROVE  Live' = Live /\ CountsTheRunning' /\ work' \in Nat
  <2>1. Live' = Live
    BY <1>q DEF Live
  <2> QED BY <1>q, <1>t, <2>1 DEF CountsTheRunning, TypeOK
<1>1. CASE ProbeH3
  <2>1. \A p \in Probes : probe[p] # "running"
    BY <1>1 DEF ProbeH3
  <2>2. "quic" \notin Live /\ "tls" \notin Live
    BY <2>1, HTTPWorkAssumption DEF Live, Probes
  <2>3. Live' = (Live \cup {"quic"}) \cup {"tls"}
    <3>1. {p \in Probes : probe[p] = "running"} = {}
      BY <2>1
    <3>2. {p \in Probes : probe'[p] = "running"} = Probes
      BY <1>1 DEF ProbeH3
    <3> QED BY <1>1, <3>1, <3>2 DEF ProbeH3, Live, Probes, dialVars
  <2>4. IsFiniteSet(Live) /\ IsFiniteSet(Live \cup {"quic"})
        /\ Cardinality(Live \cup {"quic"}) = Cardinality(Live) + 1
    BY <1>t, <2>2, LiveFinite, FS_AddElement
  <2>5. "tls" \notin Live \cup {"quic"}
    BY <2>2
  <2>6. Cardinality(Live') = Cardinality(Live) + 1 + 1
    BY <2>3, <2>4, <2>5, FS_AddElement
  <2>7. work' = Cardinality(Live') /\ work' \in Nat
    BY <1>1, <1>t, <2>6 DEF ProbeH3, ProbesAdded, CountsTheRunning, TypeOK
  <2>8. TypeOK'
    <3>1. probe' \in [Probes -> {"none", "running", "done"}] /\ answer' \in [Probes -> {"none", "ok", "error"}]
      BY <1>1 DEF ProbeH3
    <3> QED BY <1>1, <1>t, <2>7, <3>1 DEF ProbeH3, TypeOK, dialVars
  <2> QED BY <1>1, <2>7, <2>8 DEF IInv, CountsTheRunning, ReturnsAlone, ProbeH3
<1>2. CASE CreateUnprobed \/ RoundTripEnds \/ Cancel \/ Seal
  <2>1. Live' = Live /\ CountsTheRunning' /\ work' \in Nat
    BY <1>2, <1>q DEF CreateUnprobed, RoundTripEnds, Cancel, Seal, dialVars
  <2>2. TypeOK'
    BY <1>2, <1>t DEF TypeOK, CreateUnprobed, RoundTripEnds, Cancel, Seal, dialVars
  <2> QED BY <1>2, <2>1, <2>2 DEF IInv, ReturnsAlone, CreateUnprobed, RoundTripEnds, Cancel, Seal
<1>3. CASE RoundTrip
  <2>1. Live' = Live
    BY <1>3, <1>t DEF RoundTrip, Live, TypeOK
  <2>2. TypeOK'
    BY <1>3, <1>t, HTTPWorkAssumption DEF TypeOK, RoundTrip
  <2> QED BY <1>3, <1>t, <2>1, <2>2 DEF IInv, CountsTheRunning, ReturnsAlone, RoundTrip
<1>4. CASE Return
  <2>1. Live' = Live /\ CountsTheRunning' /\ work' \in Nat
    BY <1>4, <1>q DEF Return, dialVars
  <2>2. Live = {}
    BY <1>4, <1>t, LiveFinite, FS_EmptySet DEF Return, CountsTheRunning
  <2>3. TypeOK'
    BY <1>4, <1>t DEF TypeOK, Return, dialVars
  <2> QED BY <1>4, <2>1, <2>2, <2>3 DEF IInv, ReturnsAlone, Return
<1>5. ASSUME NEW p \in Probes, ProbeSelected(p) \/ ProbeAnswers(p)
      PROVE  IInv'
  <2>1. Live' = Live /\ CountsTheRunning' /\ work' \in Nat
    BY <1>5, <1>q DEF ProbeSelected, ProbeAnswers, dialVars
  <2>2. TypeOK'
    BY <1>5, <1>t DEF TypeOK, ProbeSelected, ProbeAnswers, dialVars
  <2> QED BY <1>5, <2>1, <2>2 DEF IInv, ReturnsAlone, ProbeSelected, ProbeAnswers
<1>6. ASSUME NEW p \in Probes, ProbeDone(p)
      PROVE  IInv'
  <2>1. p \in Live /\ p \notin Dials
    BY <1>6, HTTPWorkAssumption DEF ProbeDone, Live
  <2>2. Live' = Live \ {p}
    BY <1>6, <1>t, <2>1 DEF ProbeDone, Live, TypeOK, dialVars
  <2>3. work' = Cardinality(Live') /\ work' \in Nat
    BY <1>6, <1>t, <2>1, <2>2, Ends DEF ProbeDone
  <2>4. TypeOK'
    BY <1>6, <1>t, <2>3 DEF TypeOK, ProbeDone, dialVars
  <2> QED BY <1>6, <2>1, <2>2, <2>3, <2>4 DEF IInv, CountsTheRunning, ReturnsAlone, ProbeDone
<1>7. ASSUME NEW d \in Dials, DialBegins(d)
      PROVE  IInv'
  <2>1. CASE begin /\ ~canceled
    <3>1. d \notin Live
      BY <1>7, HTTPWorkAssumption DEF DialBegins, Live
    <3>2. Live' = Live \cup {d}
      BY <1>7, <1>t, <2>1 DEF DialBegins, Live, TypeOK
    <3>3. work' = Cardinality(Live') /\ work' \in Nat
      BY <1>7, <1>t, <2>1, <3>1, <3>2, Starts DEF DialBegins
    <3>4. TypeOK'
      BY <1>7, <1>t, <2>1, <3>3 DEF TypeOK, DialBegins
    <3>5. ~sealed /\ xpc' = xpc
      BY <1>7, <2>1 DEF DialBegins, begin
    <3> QED BY <1>7, <3>3, <3>4, <3>5 DEF IInv, CountsTheRunning, ReturnsAlone, DialBegins
  <2>2. CASE ~(begin /\ ~canceled)
    <3>1. Live' = Live /\ work' = work
      BY <1>7, <1>t, <2>2 DEF DialBegins, Live, TypeOK
    <3>2. TypeOK'
      BY <1>7, <1>t, <2>2, <3>1 DEF TypeOK, DialBegins
    <3> QED BY <1>7, <1>t, <3>1, <3>2 DEF IInv, CountsTheRunning, ReturnsAlone, DialBegins
  <2> QED BY <2>1, <2>2
<1>8. ASSUME NEW d \in Dials, DialDone(d) \/ HandshakeEnds(d)
      PROVE  IInv'
  <2>1. d \in Live /\ d \notin Probes
    BY <1>8, HTTPWorkAssumption DEF DialDone, HandshakeEnds, Live
  <2>2. Live' = Live \ {d}
    BY <1>8, <1>t, <2>1 DEF DialDone, HandshakeEnds, Live, TypeOK
  <2>3. work' = Cardinality(Live') /\ work' \in Nat
    BY <1>8, <1>t, <2>1, <2>2, Ends DEF DialDone, HandshakeEnds
  <2>4. TypeOK'
    BY <1>8, <1>t, <2>3 DEF TypeOK, DialDone, HandshakeEnds
  <2> QED BY <1>8, <2>1, <2>2, <2>3, <2>4 DEF IInv, CountsTheRunning, ReturnsAlone, DialDone, HandshakeEnds
<1>9. ASSUME NEW d \in Dials, DialReturnsEarly(d)
      PROVE  IInv'
  <2>1. Live' = Live
    BY <1>9, <1>t DEF DialReturnsEarly, Live, TypeOK
  <2>2. TypeOK'
    BY <1>9, <1>t DEF TypeOK, DialReturnsEarly
  <2> QED BY <1>9, <1>t, <2>1, <2>2 DEF IInv, CountsTheRunning, ReturnsAlone, DialReturnsEarly
<1>10. CASE UNCHANGED vars
  <2>1. Live' = Live /\ CountsTheRunning' /\ work' \in Nat
    BY <1>10, <1>q DEF vars, dialVars
  <2>2. TypeOK'
    BY <1>10, <1>t DEF TypeOK, vars, dialVars
  <2> QED BY <1>10, <2>1, <2>2 DEF IInv, ReturnsAlone, vars
<1> QED BY <1>1, <1>2, <1>3, <1>4, <1>5, <1>6, <1>7, <1>8, <1>9, <1>10
        DEF Next, ExchangeStep, ProbeStep, DialStep

(***************************************************************************)
(* The probes and dials of an Exchange are joined: when it has returned    *)
(* none of them runs and none can start, whatever net/http does with the   *)
(* dials it queued.  The WaitGroup never goes below zero.                  *)
(***************************************************************************)
THEOREM WorkIsJoined == Spec => [](TypeOK /\ CountsTheRunning /\ ReturnsAlone)
<1>1. IInv => TypeOK /\ CountsTheRunning /\ ReturnsAlone
  BY DEF IInv
<1> QED BY <1>1, InitIInv, NextIInv, PTL DEF Spec

(***************************************************************************)
(* While the join waits, no child is admitted.                             *)
(***************************************************************************)
THEOREM JoinAdmitsNothing == Spec => NoAdmissionDuringJoin
<1>1. ASSUME IInv, [Next]_vars
      PROVE  [xpc = "wait" => work' <= work]_vars
  <2> SUFFICES ASSUME xpc = "wait", Next PROVE work' <= work
    BY <1>1 DEF vars
  <2>1. sealed /\ work \in Nat
    BY <1>1 DEF IInv, TypeOK
  <2>2. ASSUME ExchangeStep \/ Cancel PROVE work' = work
    BY <2>1, <2>2 DEF ExchangeStep, ProbeH3, CreateUnprobed, RoundTrip, RoundTripEnds, Seal, Return,
                      ProbeSelected, Cancel
  <2>3. ASSUME NEW p \in Probes, ProbeStep(p) PROVE work' = work \/ work' = work - 1
    BY <2>1, <2>3 DEF ProbeStep, ProbeAnswers, ProbeDone
  <2>4. ASSUME NEW d \in Dials, DialBegins(d) \/ DialStep(d) PROVE work' = work \/ work' = work - 1
    BY <2>1, <2>4 DEF DialStep, DialBegins, begin, DialDone, DialReturnsEarly, HandshakeEnds
  <2>5. work' = work \/ work' = work - 1
    BY <2>2, <2>3, <2>4 DEF Next
  <2> QED BY <2>1, <2>5
<1> QED BY <1>1, InitIInv, NextIInv, PTL DEF Spec, NoAdmissionDuringJoin
=============================================================================
