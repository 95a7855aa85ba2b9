----------------------------- MODULE MCResolve -----------------------------
EXTENDS Resolve

CONSTANTS r1, r2, r3, q, d, p

\* A plain request, one that asks for DNSSEC and one with upstreams of its own, whose
\* clients may also use the private upstreams, one that must not use the cache, and
\* one of a private address.
Plain == [conf |-> "default", local |-> FALSE, ad |-> FALSE, do |-> FALSE, cd |-> FALSE]
Secure == [Plain EXCEPT !.local = TRUE, !.ad = TRUE, !.do = TRUE]
Custom == [Plain EXCEPT !.conf = "custom", !.local = TRUE]
Unchecked == [Plain EXCEPT !.cd = TRUE]
Private == [Plain EXCEPT !.conf = "private", !.local = TRUE]
MCKinds == {Plain, Secure, Custom, Unchecked, Private}
WaveKinds == {Plain, Secure}

\* A signed answer, one of the fallbacks with the CD bit set, which only a refresh
\* caches, and one that is not cacheable at all.
Signed == [rcode |-> "noerror", ad |-> TRUE, sec |-> TRUE, cd |-> FALSE, keep |-> TRUE, fallback |-> FALSE]
Spare == [Signed EXCEPT !.ad = FALSE, !.cd = TRUE, !.fallback = TRUE]
Brief == [Signed EXCEPT !.rcode = "nxdomain", !.keep = FALSE]
MCReplies == {Signed, Spare}
WaveReplies == {Signed, Brief}

TwoReqs == {r1, r2}
ThreeReqs == {r1, r2, r3}
\* A name of the custom upstreams, one that they pass over, and a PTR question
\* within a DNS64 prefix.
MCQuestions == {q, d, p}
MCCustomFor == {q}
MCReversed == {p}
OneQuestion == {q}
Nothing == {}

\* Calls are interchangeable: their kinds are taken in one order only.  Calls with
\* different questions would not meet anywhere, nor would several that do not use
\* the cache.  The two other questions are asked by calls of several kinds only.
Rank(k) == CHOOSE i \in 1..5 : <<Plain, Secure, Custom, Unchecked, Private>>[i] = k
MCInit ==
  /\ Init
  /\ \A r \in Reqs : question[r] = question[r1]
  /\ Rank(kind[r1]) <= Rank(kind[r2])
  /\ Rank(kind[r2]) <= Rank(kind[r3])
  /\ kind[r2] \notin {Unchecked, Private}
  /\ question[r1] = q => kind[r3] # Private
  /\ question[r1] = d => kind[r1] = Plain /\ kind[r2] = Custom /\ kind[r3] # Unchecked
  /\ question[r1] = p => kind[r1] = Plain /\ kind[r2] = Secure /\ kind[r3] \notin {Unchecked, Private}

\* One key is in use, so the fairness for some key is that for each.
MCFairness ==
  /\ \A r \in Reqs : WF_vars(pc[r] # "start" /\ CallStep(r))
  /\ WF_vars(\E k \in Keys : RefreshStep(k))
MCSpec == MCInit /\ [][Next]_vars /\ MCFairness

=============================================================================
