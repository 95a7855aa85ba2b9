------------------------------ MODULE CacheTTL ------------------------------
(***************************************************************************)
(* How long proxy/cache.go keeps a response and which TTLs it serves: the  *)
(* overrides applied to an upstream's answer, cacheTTL, the expiry written *)
(* by pack and the TTL computed by unpackItem, for one key of the cache    *)
(* and a clock that the operating system may set back.                     *)
(*                                                                         *)
(* The clock counts half seconds, so that a response can be stored and     *)
(* served within a second; Unix() truncates it.  MaxTTL stands for         *)
(* math.MaxUint32 and ServFailMax for ServFailMaxCacheTTL.                 *)
(***************************************************************************)
EXTENDS Integers, FiniteSetsExt

CONSTANTS Msgs,            \* the responses an upstream may give
          MaxTTL, ServFailMax,
          MinTTLs, MaxTTLs,  \* values of cacheMinTTL and cacheMaxTTL
          Optimistic, OptimisticTTL, OptimisticMaxAge,
          MaxClock         \* bound of the clock, in half seconds

VARIABLES clock, item, storedAt, setBack, conf

vars == <<clock, item, storedAt, setBack, conf>>

\* A resource record is its type and TTL; a section is a set of them.
RR == [type : {"A", "TXT", "SOA", "NS", "OPT"}, ttl : 0..MaxTTL]
Rcodes == {"noerror", "nxdomain", "servfail", "refused"}
Responses == [rcode : Rcodes, qtype : {"A", "TXT"}, truncated : BOOLEAN, oneQuestion : BOOLEAN,
              answer : SUBSET RR, ns : SUBSET RR, extra : SUBSET RR]

ASSUME TTLAssumption ==
  /\ Msgs \subseteq Responses
  /\ MaxTTL \in Nat /\ ServFailMax \in 1..MaxTTL /\ MaxClock \in Nat \ {0}
  /\ MinTTLs \subseteq 0..MaxTTL /\ MaxTTLs \subseteq 0..MaxTTL
  /\ Optimistic \in BOOLEAN /\ OptimisticTTL \in 0..MaxTTL /\ OptimisticMaxAge \in Nat

Records(m) == m.answer \cup m.ns \cup m.extra

respectTTLOverrides(ttl) ==
  IF ttl < conf.min THEN conf.min
  ELSE IF conf.max # 0 /\ ttl > conf.max THEN conf.max ELSE ttl

setMinMaxTTL(m) ==
  LET over(rrs) == {[rr EXCEPT !.ttl = respectTTLOverrides(@)] : rr \in rrs} IN
    [m EXCEPT !.answer = over(@), !.ns = over(@), !.extra = over(@)]

\* minTTL over all the records, the pseudo-record OPT apart.
AnswerTTLsOnly(m) == {rr.ttl : rr \in m.answer}
TTLs(m) == {rr.ttl : rr \in {x \in Records(m) : x.type # "OPT"}}

calculateTTL(m) ==
  LET ttl == Min(TTLs(m) \cup {MaxTTL}) IN
    CASE m.rcode = "servfail" /\ ttl > ServFailMax -> ServFailMax
      [] m.rcode # "servfail" /\ ttl = MaxTTL -> 0
      [] OTHER -> ttl

hasIPAns(m) == \E rr \in m.answer : rr.type = "A"

IgnoresDelegation(m) == \E rr \in m.ns : rr.type = "SOA"
isCacheableNegative(m) ==
  (\E rr \in m.ns : rr.type = "SOA") /\ ~(\E rr \in m.ns : rr.type = "NS")

isCacheableSucceded(m) == m.qtype # "A" \/ hasIPAns(m) \/ isCacheableNegative(m)

cacheTTL(m) ==
  IF \/ m.truncated \/ ~m.oneQuestion
     \/ (m.rcode = "noerror" /\ ~isCacheableSucceded(m))
     \/ (m.rcode = "nxdomain" /\ ~isCacheableNegative(m))
     \/ m.rcode \notin {"noerror", "nxdomain", "servfail"}
  THEN 0 ELSE calculateTTL(m)

NoItem == [expire |-> -1]
Unix(t) == t \div 2

Init ==
  /\ conf \in [min : MinTTLs, max : MaxTTLs]
  /\ conf.max = 0 \/ conf.min <= conf.max
  /\ clock \in {0, 1} /\ item = NoItem /\ storedAt = 0 /\ setBack = FALSE

\* An upstream's answer passes setMinMaxTTL and cacheResp; nothing is stored,
\* and an older item stays, when cacheTTL is zero.
set(m) ==
  /\ LET over == setMinMaxTTL(m) IN
       /\ cacheTTL(over) # 0
       /\ item' = [expire |-> Unix(clock) + cacheTTL(over), msg |-> over]
  /\ storedAt' = clock /\ setBack' = FALSE
  /\ UNCHANGED <<clock, conf>>

\* now.After(expire): half a second past the expiry is past it.
Expired == clock > 2 * item.expire

\* unpackItem yields an item.
Served == item # NoItem /\ (~Expired \/ (Optimistic /\ clock <= 2 * (item.expire + OptimisticMaxAge)))

Unclamped == item.expire - Unix(clock)
\* The TTL unpackItem passes to filterMsg for an item that is not expired.
RemainingTTL == LET seconds == item.expire - Unix(clock) IN
  IF seconds < 0 THEN 0 ELSE IF seconds > MaxTTL THEN MaxTTL ELSE seconds

\* filterMsg rewrites the TTLs unless it is given zero.
ServedTTL(rr) ==
  LET ttl == IF Expired THEN OptimisticTTL ELSE RemainingTTL IN
    IF ttl = 0 THEN rr.ttl ELSE ttl

\* A lookup that cannot use the item deletes it.
get ==
  /\ item # NoItem /\ ~Served
  /\ item' = NoItem
  /\ UNCHANGED <<clock, storedAt, setBack, conf>>

Tick ==
  /\ clock < MaxClock
  /\ clock' = clock + 1
  /\ UNCHANGED <<item, storedAt, setBack, conf>>

\* The system clock is set back.
SetBack ==
  /\ item # NoItem /\ \E t \in 0..(clock - 1) : clock' = t
  /\ setBack' = TRUE
  /\ UNCHANGED <<item, storedAt, conf>>

Next == get \/ Tick \/ SetBack \/ \E m \in Msgs : set(m)

Spec == Init /\ [][Next]_vars
-----------------------------------------------------------------------------
TypeOK ==
  /\ clock \in 0..MaxClock /\ storedAt \in 0..MaxClock /\ setBack \in BOOLEAN
  /\ item # NoItem => item.expire \in 1..(MaxClock \div 2 + MaxTTL)

(***************************************************************************)
(* Nothing is served from the cache past its time.  An item counts as      *)
(* fresh no longer than the least TTL of its records, and a SERVFAIL no    *)
(* longer than ServFailMaxCacheTTL; and its age plus the TTL it is served  *)
(* with never exceeds, by a second or more, the TTL that any of its        *)
(* records had when it was stored (pack and unpackItem both drop fractions *)
(* of a second).  Only at the instant now = expire, where filterMsg takes  *)
(* the remaining TTL of zero for "do not touch", a record may be served    *)
(* with all of the TTL that it was stored with, and never with more.       *)
(* However far the clock is set back, a served TTL fits a uint32, the      *)
(* width of the TTL field (cache.go:145).                                  *)
(***************************************************************************)
NoRecordOutlived ==
  /\ TypeOK
  /\ item # NoItem /\ ~Expired /\ ~setBack =>
       /\ \A ttl \in TTLs(item.msg) : clock - storedAt <= 2 * ttl
       /\ item.msg.rcode = "servfail" => clock - storedAt <= 2 * ServFailMax
       /\ \A rr \in Records(item.msg) : rr.type # "OPT" => ServedTTL(rr) <= rr.ttl
       /\ clock # 2 * item.expire =>
            \A rr, x \in Records(item.msg) :
              rr.type # "OPT" /\ x.type # "OPT" => (clock - storedAt) + 2 * ServedTTL(rr) < 2 * x.ttl + 2
  /\ Served /\ ~Expired => \A rr \in Records(item.msg) : ServedTTL(rr) \in 0..MaxTTL

Negative(m) ==
  m.rcode = "nxdomain" \/ (m.rcode = "noerror" /\ m.qtype = "A" /\ ~hasIPAns(m))

(***************************************************************************)
(* An NXDOMAIN, and a NOERROR for an address that holds none, is cached    *)
(* only with an SOA that bounds it and never when it delegates (RFC 2308). *)
(***************************************************************************)
NegativesAreAuthoritative ==
  item # NoItem /\ Negative(item.msg) =>
    /\ \E rr \in item.msg.ns : rr.type = "SOA" /\ item.expire <= Unix(storedAt) + rr.ttl
    /\ \A rr \in item.msg.ns : rr.type # "NS"
=============================================================================
