--------------------------- MODULE CacheTTLProofs ---------------------------
(***************************************************************************)
(* Proofs about CacheTTL, for TTLs of any width, any responses, any bounds *)
(* of the configuration and any clock.                                     *)
(***************************************************************************)
EXTENDS CacheTTL, WellFoundedInduction, TLAPS

-----------------------------------------------------------------------------
(* The least TTL *)

LEMMA MinIsLeast ==
  ASSUME NEW S \in SUBSET Nat, S # {}
  PROVE  Min(S) \in S /\ \A n \in S : Min(S) <= n
<1> DEFINE Less == {ss \in Nat \X Nat : ss[1] < ss[2]}
<1>1. IsWellFoundedOn(Less, Nat)
  BY NatLessThanWellFounded DEF OpToRel
<1>2. PICK x \in S : \A y \in S : ~(<<y, x>> \in Less)
  <2> HIDE DEF Less
  <2> QED BY <1>1, WFMin
<1>3. \E z \in S : \A y \in S : z <= y
  <2>1. ASSUME NEW y \in S PROVE x <= y
    <3>1. x \in Nat /\ y \in Nat OBVIOUS
    <3>2. ~(y < x) BY <1>2, <3>1
    <3> QED BY <3>1, <3>2
  <2> QED BY <2>1
<1> QED BY <1>3 DEF Min

\* Half seconds, and the whole ones that Unix makes of them.
LEMMA UnixTruncates ==
  ASSUME NEW t \in Nat
  PROVE  Unix(t) \in Nat /\ 2 * Unix(t) <= t /\ t <= 2 * Unix(t) + 1
BY DEF Unix
-----------------------------------------------------------------------------
(* What cacheTTL promises of the responses *)

LEMMA TTLsAreNats ==
  ASSUME NEW m \in Responses
  PROVE  TTLs(m) \in SUBSET (0..MaxTTL)
<1>1. Records(m) \subseteq RR
  BY DEF Responses, Records
<1>2. \A rr \in RR : rr.ttl \in 0..MaxTTL
  BY DEF RR
<1> QED BY <1>1, <1>2 DEF TTLs

\* A response is kept no longer than any of its records, and a SERVFAIL no longer
\* than ServFailMaxCacheTTL.
LEMMA CacheTTLBounds ==
  ASSUME NEW m \in Responses
  PROVE  /\ cacheTTL(m) \in 0..MaxTTL
         /\ cacheTTL(m) # 0 =>
              /\ \A ttl \in TTLs(m) : cacheTTL(m) <= ttl
              /\ m.rcode = "servfail" => cacheTTL(m) <= ServFailMax
<1> DEFINE least == Min(TTLs(m) \cup {MaxTTL})
<1>1. TTLs(m) \cup {MaxTTL} \in SUBSET (0..MaxTTL)
  BY TTLsAreNats, TTLAssumption
<1>2. least \in 0..MaxTTL /\ \A ttl \in TTLs(m) : least <= ttl
  <2>1. TTLs(m) \cup {MaxTTL} \in SUBSET Nat
    BY <1>1, TTLAssumption
  <2> QED BY <2>1, <1>1, MinIsLeast
<1>3. cacheTTL(m) = 0 \/ cacheTTL(m) = calculateTTL(m)
  BY DEF cacheTTL
<1>4. \/ m.rcode = "servfail" /\ least > ServFailMax /\ calculateTTL(m) = ServFailMax
      \/ m.rcode = "servfail" /\ ~(least > ServFailMax) /\ calculateTTL(m) = least
      \/ m.rcode # "servfail" /\ least = MaxTTL /\ calculateTTL(m) = 0
      \/ m.rcode # "servfail" /\ least # MaxTTL /\ calculateTTL(m) = least
  <2> HIDE DEF least
  <2>1. calculateTTL(m) = CASE m.rcode = "servfail" /\ least > ServFailMax -> ServFailMax
                            [] m.rcode # "servfail" /\ least = MaxTTL -> 0
                            [] OTHER -> least
    BY DEF calculateTTL, least
  <2>2. CASE m.rcode = "servfail" /\ least > ServFailMax BY <2>1, <2>2
  <2>3. CASE m.rcode = "servfail" /\ ~(least > ServFailMax) BY <2>1, <2>3
  <2>4. CASE m.rcode # "servfail" /\ least = MaxTTL BY <2>1, <2>4
  <2>5. CASE m.rcode # "servfail" /\ least # MaxTTL BY <2>1, <2>5
  <2> QED BY <2>2, <2>3, <2>4, <2>5
<1>5. \A ttl \in TTLs(m) : ttl \in Nat
  BY <1>1, TTLAssumption
<1> HIDE DEF least
<1>6. CASE m.rcode = "servfail" /\ least > ServFailMax /\ calculateTTL(m) = ServFailMax
  BY <1>2, <1>3, <1>5, <1>6, TTLAssumption
<1>7. CASE m.rcode = "servfail" /\ ~(least > ServFailMax) /\ calculateTTL(m) = least
  BY <1>2, <1>3, <1>5, <1>7, TTLAssumption
<1>8. CASE m.rcode # "servfail" /\ calculateTTL(m) \in {0, least}
  BY <1>2, <1>3, <1>5, <1>8, TTLAssumption
<1> QED BY <1>4, <1>6, <1>7, <1>8

\* The overrides of the configuration make a response of a response.
LEMMA OverridesAreResponses ==
  ASSUME NEW m \in Responses, conf \in [min : 0..MaxTTL, max : 0..MaxTTL]
  PROVE  setMinMaxTTL(m) \in Responses
<1> DEFINE over(rrs) == {[rr EXCEPT !.ttl = respectTTLOverrides(@)] : rr \in rrs}
<1>1. ASSUME NEW ttl \in 0..MaxTTL PROVE respectTTLOverrides(ttl) \in 0..MaxTTL
  BY <1>1, TTLAssumption DEF respectTTLOverrides
<1>2. ASSUME NEW rrs \in SUBSET RR PROVE over(rrs) \in SUBSET RR
  <2>1. ASSUME NEW rr \in RR PROVE [rr EXCEPT !.ttl = respectTTLOverrides(@)] \in RR
    BY <1>1, <2>1 DEF RR
  <2> QED BY <2>1
<1>3. setMinMaxTTL(m) = [m EXCEPT !.answer = over(@), !.ns = over(@), !.extra = over(@)]
  BY DEF setMinMaxTTL
<1>4. m.answer \in SUBSET RR /\ m.ns \in SUBSET RR /\ m.extra \in SUBSET RR
  BY DEF Responses
<1>5. over(m.answer) \in SUBSET RR /\ over(m.ns) \in SUBSET RR /\ over(m.extra) \in SUBSET RR
  BY <1>2, <1>4
<1> HIDE DEF over
<1> QED BY <1>3, <1>5 DEF Responses

-----------------------------------------------------------------------------
(* The inductive invariant *)

\* An item expires cacheTTL after the second in which it was stored, and only a
\* clock that was set back shows a time before that.
ItemOK ==
  item # NoItem =>
    /\ item.expire \in Nat /\ item.msg \in Responses
    /\ cacheTTL(item.msg) # 0
    /\ item.expire = Unix(storedAt) + cacheTTL(item.msg)
    /\ ~setBack => storedAt <= clock

IInv == TypeOK /\ conf \in [min : 0..MaxTTL, max : 0..MaxTTL] /\ ItemOK

\* An item that stays has the same TTL and expires at the same time.
LEMMA ItemStays ==
  ASSUME UNCHANGED <<item, storedAt>>
  PROVE  cacheTTL(item.msg)' = cacheTTL(item.msg) /\ Unix(storedAt)' = Unix(storedAt)
BY DEF Unix, cacheTTL, calculateTTL, TTLs, Records, isCacheableNegative, isCacheableSucceded,
   hasIPAns

LEMMA InitIInv == Init => IInv
<1> SUFFICES ASSUME Init PROVE IInv
  OBVIOUS
<1>1. conf \in [min : 0..MaxTTL, max : 0..MaxTTL]
  BY TTLAssumption DEF Init
<1>2. item = NoItem
  BY DEF Init
<1>3. TypeOK
  <2>1. setBack \in BOOLEAN
    BY DEF Init
  <2>2. clock \in 0..MaxClock
    BY TTLAssumption DEF Init
  <2>3. storedAt \in 0..MaxClock
    BY TTLAssumption DEF Init
  <2> QED BY <1>2, <2>1, <2>2, <2>3 DEF TypeOK
<1>4. ItemOK
  BY <1>2 DEF ItemOK
<1> QED BY <1>1, <1>3, <1>4 DEF IInv

LEMMA NextIInv == IInv /\ [Next]_vars => IInv'
<1> SUFFICES ASSUME IInv, [Next]_vars PROVE IInv'
  OBVIOUS
<1> USE DEF IInv
<1>1. ASSUME NEW m \in Msgs, set(m) PROVE IInv'
  <2> DEFINE over == setMinMaxTTL(m)
  <2>1. over \in Responses
    BY TTLAssumption, OverridesAreResponses
  <2>2. cacheTTL(over) \in 0..MaxTTL
    BY <2>1, CacheTTLBounds
  <2>3. cacheTTL(over) # 0 /\ item' = [expire |-> Unix(clock) + cacheTTL(over), msg |-> over]
    BY <1>1 DEF set
  <2>4. storedAt' = clock /\ clock' = clock /\ conf' = conf /\ setBack' = FALSE
    BY <1>1 DEF set
  <2>5. clock \in 0..MaxClock /\ MaxClock \in Nat /\ MaxTTL \in Nat
    BY TTLAssumption DEF TypeOK
  <2> HIDE DEF over
  <2> DEFINE ttl == cacheTTL(over)
  <2>6. item'.expire = Unix(clock) + ttl /\ item'.msg = over
    BY <2>3
  <2>7. ttl \in 1..MaxTTL
    BY <2>2, <2>3, <2>5
  <2>8. cacheTTL(item'.msg) = ttl
    BY <2>6
  <2> HIDE DEF ttl
  <2>9. Unix(clock) \in Nat /\ Unix(clock) <= MaxClock \div 2
    BY <2>5 DEF Unix
  <2>10. Unix(clock) + ttl \in 1..(MaxClock \div 2 + MaxTTL)
    BY <2>5, <2>7, <2>9
  <2>11. TypeOK'
    BY <2>4, <2>5, <2>6, <2>10 DEF TypeOK
  <2>12. ItemOK'
    <3>1. cacheTTL(item.msg)' = ttl
      BY <2>8 DEF cacheTTL, calculateTTL, TTLs, Records, isCacheableNegative,
         isCacheableSucceded, hasIPAns
    <3>2. Unix(storedAt)' = Unix(clock)
      BY <2>4 DEF Unix
    <3> QED BY <3>1, <3>2, <2>1, <2>4, <2>5, <2>6, <2>7, <2>9 DEF ItemOK
  <2> QED BY <2>4, <2>11, <2>12
<1>2. CASE get
  BY <1>2 DEF get, TypeOK, ItemOK
<1>3. CASE Tick
  <2>1. clock' = clock + 1 /\ clock' \in 0..MaxClock
    BY <1>3, TTLAssumption DEF Tick, TypeOK
  <2>2. UNCHANGED <<item, storedAt, setBack, conf>>
    BY <1>3 DEF Tick
  <2>3. TypeOK'
    BY <2>1, <2>2 DEF TypeOK
  <2>4. ItemOK'
    BY <2>1, <2>2, ItemStays, TTLAssumption DEF ItemOK, TypeOK
  <2> QED BY <2>2, <2>3, <2>4
<1>4. CASE SetBack
  <2>1. clock' \in 0..MaxClock
    BY <1>4, TTLAssumption DEF SetBack, TypeOK
  <2>2. UNCHANGED <<item, storedAt, conf>> /\ setBack' = TRUE
    BY <1>4 DEF SetBack
  <2>3. TypeOK'
    BY <2>1, <2>2 DEF TypeOK
  <2>4. ItemOK'
    BY <2>2, ItemStays DEF ItemOK
  <2> QED BY <2>2, <2>3, <2>4
<1>5. CASE UNCHANGED vars
  BY <1>5, ItemStays DEF vars, TypeOK, ItemOK
<1> QED BY <1>1, <1>2, <1>3, <1>4, <1>5 DEF Next

LEMMA IInvIsInvariant == Spec => []IInv
BY InitIInv, NextIInv, PTL DEF Spec

-----------------------------------------------------------------------------
(* What the cache serves *)

\* For every set of responses and every bounds of the configuration, an item of
\* the cache is fresh no longer than its shortest record says, its age and the TTL
\* that unpackItem serves add up to no more than that, and the TTL fits its field.
THEOREM RecordsExpire == Spec => []NoRecordOutlived
<1>1. ASSUME IInv PROVE NoRecordOutlived
  <2> USE <1>1 DEF IInv
  <2> DEFINE ttl == cacheTTL(item.msg)
  <2>1. clock \in Nat /\ storedAt \in Nat /\ MaxTTL \in Nat /\ ServFailMax \in Nat
    BY TTLAssumption DEF TypeOK
  <2>2. /\ Unix(clock) \in Nat /\ 2 * Unix(clock) <= clock /\ clock <= 2 * Unix(clock) + 1
        /\ Unix(storedAt) \in Nat /\ 2 * Unix(storedAt) <= storedAt
        /\ storedAt <= 2 * Unix(storedAt) + 1
    BY <2>1, UnixTruncates
  <2>3. ASSUME item # NoItem, ~Expired
        PROVE  /\ item.msg \in Responses /\ item.expire \in Nat
               /\ ttl \in 1..MaxTTL /\ item.expire = Unix(storedAt) + ttl
               /\ \A t \in TTLs(item.msg) : ttl <= t
               /\ item.msg.rcode = "servfail" => ttl <= ServFailMax
               /\ clock <= 2 * item.expire
    <3>1. item.msg \in Responses /\ item.expire \in Nat /\ ttl # 0 /\ item.expire = Unix(storedAt) + ttl
      BY <2>3 DEF ItemOK
    <3>2. clock <= 2 * item.expire
      BY <2>1, <2>3, <3>1 DEF Expired
    <3>3. /\ ttl \in 0..MaxTTL /\ \A t \in TTLs(item.msg) : ttl <= t
          /\ item.msg.rcode = "servfail" => ttl <= ServFailMax
      BY <3>1, CacheTTLBounds
    <3> HIDE DEF ttl
    <3> QED BY <2>1, <3>1, <3>2, <3>3
  <2>4. ASSUME item # NoItem, ~Expired, NEW rr \in Records(item.msg)
        PROVE  rr \in RR /\ rr.ttl \in 0..MaxTTL /\ (rr.type # "OPT" => rr.ttl \in TTLs(item.msg))
    <3>1. rr \in RR
      BY <2>3, <2>4 DEF Responses, Records
    <3> QED BY <2>4, <3>1 DEF RR, TTLs
  <2> DEFINE seconds == item.expire - Unix(clock)
  <2>5. ~Expired => \A rr : ServedTTL(rr) = IF RemainingTTL = 0 THEN rr.ttl ELSE RemainingTTL
    BY DEF ServedTTL
  <2>6. RemainingTTL = IF seconds < 0 THEN 0 ELSE IF seconds > MaxTTL THEN MaxTTL ELSE seconds
    BY DEF RemainingTTL
  <2> HIDE DEF ttl
  <2>7. ASSUME item # NoItem, ~Expired, ~setBack
        PROVE  /\ clock - storedAt <= 2 * ttl
               /\ seconds \in 0..ttl /\ RemainingTTL = seconds
               /\ clock # 2 * item.expire => /\ seconds # 0
                                             /\ (clock - storedAt) + 2 * seconds < 2 * ttl + 2
    <3>1. storedAt <= clock
      BY <2>7 DEF ItemOK
    <3>2. clock - storedAt <= 2 * ttl
      BY <2>1, <2>2, <2>3, <2>7
    <3>3. seconds \in 0..ttl
      BY <2>1, <2>2, <2>3, <2>7, <3>1
    <3>4. RemainingTTL = seconds
      BY <2>1, <2>3, <2>6, <2>7, <3>3
    <3>5. clock # 2 * item.expire => seconds # 0
      BY <2>1, <2>2, <2>3, <2>7
    <3>6. (clock - storedAt) + 2 * seconds < 2 * ttl + 2
      BY <2>1, <2>2, <2>3, <2>7
    <3> QED BY <3>2, <3>3, <3>4, <3>5, <3>6
  <2>8. ASSUME item # NoItem, ~Expired, ~setBack
        PROVE  /\ \A t \in TTLs(item.msg) : clock - storedAt <= 2 * t
               /\ item.msg.rcode = "servfail" => clock - storedAt <= 2 * ServFailMax
    <3>1. \A t \in TTLs(item.msg) : t \in Nat
      BY <2>1, <2>3, <2>8, TTLsAreNats
    <3> QED BY <2>1, <2>3, <2>7, <2>8, <3>1
  <2> HIDE DEF seconds
  <2>9. ASSUME item # NoItem, ~Expired, ~setBack, NEW rr \in Records(item.msg), rr.type # "OPT"
        PROVE  ServedTTL(rr) <= rr.ttl
    <3>1. rr.ttl \in Nat /\ ttl <= rr.ttl
      BY <2>1, <2>3, <2>4, <2>9
    <3> QED BY <2>1, <2>3, <2>5, <2>7, <2>9, <3>1
  <2>10. ASSUME item # NoItem, ~Expired, ~setBack, clock # 2 * item.expire,
                NEW rr \in Records(item.msg), NEW x \in Records(item.msg),
                rr.type # "OPT", x.type # "OPT"
         PROVE  (clock - storedAt) + 2 * ServedTTL(rr) < 2 * x.ttl + 2
    <3>1. x.ttl \in Nat /\ ttl <= x.ttl
      BY <2>1, <2>3, <2>4, <2>10
    <3>2. ServedTTL(rr) = seconds
      BY <2>5, <2>7, <2>10
    <3> QED BY <2>1, <2>3, <2>7, <2>10, <3>1, <3>2
  <2>11. ASSUME item # NoItem, ~Expired, NEW rr \in Records(item.msg)
         PROVE  ServedTTL(rr) \in 0..MaxTTL
    <3>1. seconds \in Int
      BY <2>1, <2>2, <2>3, <2>11 DEF seconds
    <3> QED BY <2>1, <2>4, <2>5, <2>6, <2>11, <3>1
  <2>12. Served => item # NoItem
    BY DEF Served
  <2> QED BY <2>8, <2>9, <2>10, <2>11, <2>12 DEF NoRecordOutlived
<1> QED BY <1>1, IInvIsInvariant, PTL

\* isCacheableSucceded and isCacheableNegative let no negative response into the
\* cache whose lifetime an SOA does not bound, whatever the upstreams answer.
THEOREM NegativesAreBounded == Spec => []NegativesAreAuthoritative
<1>1. ASSUME IInv PROVE NegativesAreAuthoritative
  <2> SUFFICES ASSUME item # NoItem, Negative(item.msg)
               PROVE  /\ \E rr \in item.msg.ns : rr.type = "SOA" /\ item.expire <= Unix(storedAt) + rr.ttl
                      /\ \A rr \in item.msg.ns : rr.type # "NS"
    BY DEF NegativesAreAuthoritative
  <2> DEFINE m == item.msg
             ttl == cacheTTL(m)
  <2>1. m \in Responses /\ ttl # 0 /\ item.expire = Unix(storedAt) + ttl
    BY <1>1 DEF IInv, ItemOK
  <2>2. isCacheableNegative(m)
    BY <2>1 DEF cacheTTL, isCacheableSucceded, Negative
  <2>3. PICK rr \in m.ns : rr.type = "SOA"
    BY <2>2 DEF isCacheableNegative
  <2>4. rr.ttl \in TTLs(m)
    BY <2>3 DEF TTLs, Records
  <2>5. ttl \in 0..MaxTTL /\ ttl <= rr.ttl /\ rr.ttl \in 0..MaxTTL
    <3>1. ttl \in 0..MaxTTL /\ \A t \in TTLs(m) : ttl <= t
      BY <2>1, CacheTTLBounds
    <3>2. \A t \in TTLs(m) : t \in 0..MaxTTL
      BY <2>1, TTLsAreNats
    <3> QED BY <2>4, <3>1, <3>2
  <2>6. Unix(storedAt) \in Nat
    <3>1. storedAt \in Nat
      BY <1>1, TTLAssumption DEF IInv, TypeOK
    <3> QED BY <3>1, UnixTruncates
  <2>7. item.expire <= Unix(storedAt) + rr.ttl
    <3> HIDE DEF ttl
    <3> QED BY <2>1, <2>5, <2>6, TTLAssumption
  <2> QED BY <2>2, <2>3, <2>7 DEF isCacheableNegative
<1> QED BY <1>1, IInvIsInvariant, PTL
=============================================================================
