--------------------------- MODULE UpstreamConfig ---------------------------
(***************************************************************************)
(* proxy.UpstreamConfig: the maps that ParseUpstreamsConfig builds from    *)
(* the lines of a configuration, and the upstreams that a query name       *)
(* selects.  A line for several domains and upstreams is a line for each   *)
(* pair of them.  A name is the sequence of its labels, in lower case.     *)
(***************************************************************************)
EXTENDS Naturals, Sequences, SequencesExt

CONSTANTS
  Domains,    \* the domains that lines are for
  Addresses,  \* the upstreams that lines give, "#" apart
  Names,      \* the names that are queried
  MaxLines    \* bound: the lines of a configuration

VARIABLES
  lines,       \* the lines that have been parsed
  upstreams,   \* the default upstreams
  reserved,    \* domainReservedUpstreams
  specified,   \* specifiedDomainUpstreams
  subOnly,     \* subdomainsOnlyUpstreams
  exclusions   \* subdomainsOnlyExclusions

vars == <<lines, upstreams, reserved, specified, subOnly, exclusions>>

UnqualifiedNames == <<"unqualified_names">>
Nothing == [d \in {} |-> {}]

\* A configuration has a default upstream, or it is not valid.
Init ==
  /\ lines = <<>>
  /\ upstreams = {"default"}
  /\ reserved = Nothing
  /\ specified = Nothing
  /\ subOnly = Nothing
  /\ exclusions = {}

\* The map f with the value v at d, and with the upstream u added at d.
Assign(f, d, v) == [x \in DOMAIN f \union {d} |-> IF x = d THEN v ELSE f[x]]
Add(f, d, u) == Assign(f, d, {u} \union IF d \in DOMAIN f THEN f[d] ELSE {})

Line(domain, wild, addr) ==
  /\ Len(lines) < MaxLines
  /\ lines' = Append(lines, [domain |-> domain, wild |-> wild, addr |-> addr])
  /\ UNCHANGED upstreams

excludeFromReserved(domain, wild) ==
  /\ Line(domain, wild, "#")
  /\ IF wild
       THEN /\ exclusions' = exclusions \union {domain}
            /\ subOnly' = Assign(subOnly, domain, {})
            /\ UNCHANGED <<reserved, specified>>
       ELSE /\ reserved' = Assign(reserved, domain, {})
            /\ specified' = Assign(specified, domain, {})
            /\ UNCHANGED <<subOnly, exclusions>>

\* The upstream of an address is made once and shared by all lines.
includeToReserved(domain, wild, u) ==
  /\ Line(domain, wild, u)
  /\ IF wild
       THEN /\ exclusions' = exclusions \union {domain}
            /\ subOnly' = Add(subOnly, domain, u)
            /\ UNCHANGED specified
       ELSE /\ specified' = Add(specified, domain, u)
            /\ UNCHANGED <<subOnly, exclusions>>
  /\ reserved' = Add(reserved, domain, u)

\* Only a domain that is named may have a wildcard.
Next ==
  \E d \in Domains \union {UnqualifiedNames}, w \in BOOLEAN :
    /\ w => d # UnqualifiedNames
    /\ \/ excludeFromReserved(d, w)
       \/ \E u \in Addresses : includeToReserved(d, w, u)

Spec == Init /\ [][Next]_vars

-----------------------------------------------------------------------------
(* The selection, in the configuration that the lines so far make *)

CopyKeepsPlain ==
  [d \in DOMAIN reserved \union DOMAIN subOnly |->
    IF d \in DOMAIN reserved THEN reserved[d] ELSE subOnly[d]]

\* parse ends with maps.Copy: what wildcards say replaces what domains say.
DomainReservedUpstreams ==
  [d \in DOMAIN reserved \union DOMAIN subOnly |->
    IF d \in DOMAIN subOnly THEN subOnly[d] ELSE reserved[d]]

lookupUpstreams(d) ==
  LET ups == DomainReservedUpstreams[d]
  IN  IF ups = {} THEN upstreams ELSE ups

lookupSubdomainExclusion(host) ==
  LET IsFor(f, d) == d \in DOMAIN f /\ f[d] # {}
  IN  CASE IsFor(specified, host) -> specified[host]
        [] ~IsFor(specified, host) /\ IsFor(DomainReservedUpstreams, Tail(host)) ->
             DomainReservedUpstreams[Tail(host)]
        [] OTHER -> upstreams

\* The keys that are looked up: the name and what is left of it without the
\* first labels, or the key of unqualified names after a single label.
Tried(fqdn) ==
  IF Len(fqdn) = 1 THEN <<fqdn, UnqualifiedNames>>
  ELSE [i \in 1..Len(fqdn) |-> SubSeq(fqdn, i, Len(fqdn))]

getUpstreamsForDomain(fqdn) ==
  LET i == SelectInSeq(Tried(fqdn), LAMBDA d : d \in DOMAIN DomainReservedUpstreams)
  IN  CASE fqdn \in exclusions -> lookupSubdomainExclusion(fqdn)
        [] fqdn \notin exclusions /\ i > 0 -> lookupUpstreams(Tried(fqdn)[i])
        [] OTHER -> upstreams

getUpstreamsForDS(fqdn) ==
  IF Len(fqdn) <= 1 THEN upstreams ELSE getUpstreamsForDomain(Tail(fqdn))

-----------------------------------------------------------------------------
(* What the documentation says of the lines *)

LinesFor(d, wild) ==
  {i \in DOMAIN lines : lines[i].domain = d /\ lines[i].wild = wild}

\* The upstreams that the lines leave: those since the last "#", which stands for
\* the default ones.
Given(d, wild) ==
  {lines[i].addr : i \in {k \in LinesFor(d, wild) :
     \A j \in LinesFor(d, wild) : j >= k => lines[j].addr # "#"}}
ByRule(rule) ==
  IF Given(rule.d, rule.wild) = {} THEN upstreams ELSE Given(rule.d, rule.wild)

Rule(d, wild) == [d |-> d, wild |-> wild]

\* The rules for a name, the most specific one first: the name itself, its
\* parent's subdomains, its parent, and so on.
RulesFor(fqdn) ==
  <<Rule(fqdn, FALSE)>>
    \o IF Len(fqdn) = 1 THEN <<Rule(UnqualifiedNames, FALSE)>>
       ELSE [i \in 1..(2 * Len(fqdn) - 2) |->
              Rule(SubSeq(fqdn, 1 + (i + 1) \div 2, Len(fqdn)), i % 2 = 1)]

MostSpecific(fqdn) ==
  LET i == SelectInSeq(RulesFor(fqdn), LAMBDA r : LinesFor(r.d, r.wild) # {})
  IN  IF i = 0 THEN upstreams ELSE ByRule(RulesFor(fqdn)[i])

\* What a name may be resolved with: what the most specific rule for it says.  The
\* one exception is a name that is the domain of a wildcard and has no upstreams of
\* its own: it goes to the upstreams of its parent or to the default ones.
Documented(n) ==
  IF LinesFor(n, TRUE) = {} \/ Given(n, FALSE) # {} THEN {MostSpecific(n)}
  ELSE {upstreams, Given(Tail(n), TRUE), Given(Tail(n), FALSE)}

\* "More specific domains take priority over less specific domains": whatever the
\* order of the lines, a name is resolved as the most specific rule for it says, a
\* domain never with its own wildcard's upstreams, and DS as the parent of its name.
MostSpecificRuleWins ==
  \A n \in Names :
    /\ getUpstreamsForDomain(n) \in Documented(n)
    /\ Len(n) > 1 => getUpstreamsForDS(n) \in Documented(Tail(n))

\* README.md:372: "The special server address `#` means, 'use the common
\* servers'": a domain whose last line is "#" goes to the default upstreams.
ExcludedGoToDefault ==
  \A n \in Names :
    (\E i \in LinesFor(n, FALSE) :
       lines[i].addr = "#" /\ \A j \in LinesFor(n, FALSE) : j <= i)
      => getUpstreamsForDomain(n) = upstreams

=============================================================================
