---------------------------- MODULE DomainRouting ----------------------------
(***************************************************************************)
(* The pure part of src/domain_routing.rs: what a configured domain        *)
(* matches, and which site of an ordered list answers a request.           *)
(*                                                                         *)
(* A name is split where the code splits it: the leftmost label and        *)
(* everything behind the first dot ("parent", "" when there is no dot).    *)
(* "*.shop.com" is [label |-> "*", parent |-> "shop.com"].  A spelling is  *)
(* what a YAML file or a Host header holds: a name in some form (letter    *)
(* case, a port, a trailing dot), and how often a dot stands before a      *)
(* port, as in "shop.com.:443", which normalize_host turns into            *)
(* "shop.com." only.                                                       *)
(***************************************************************************)
EXTENDS Naturals, Sequences, SequencesExt

CONSTANTS Labels,         \* leftmost labels; may include "*" and ""
          Parents,        \* what may follow the first dot; may include ""
          DottedParents,  \* the parents a wildcard may stand on ("shop.com")
          Forms,          \* ways of spelling one and the same name
          MaxDots         \* bound on the dots before ports

ASSUME NamesAssumption ==
    /\ MaxDots \in Nat
    /\ DottedParents \subseteq Parents
    /\ "" \notin DottedParents

Listeners == {"http", "https"}
Kinds == {"http", "websocket"}

\* What normalize_host leaves of a spelling: `dots` are still to come off.
Name == [label : Labels, parent : Parents, dots : 0..MaxDots]
Spelling == [name : [label : Labels, parent : Parents], form : Forms, dots : 0..MaxDots]
Request == [host : Spelling, listener : Listeners, kind : Kinds]

\* normalize_host, then to_ascii_lowercase: the first pass takes off the last port, and
\* each further one a dot with the port before it.
Normal(spelling) ==
    [label |-> spelling.name.label, parent |-> spelling.name.parent,
     dots |-> spelling.dots]

\* A Host header passes twice, in request_host and in host_matches.
NormalTwice(spelling) ==
    [Normal(spelling) EXCEPT !.dots = IF @ = 0 THEN 0 ELSE @ - 1]

\* An absent or unreadable Host, or a blank domain.
IsEmpty(name) == name.label = "" /\ name.parent = "" /\ name.dots = 0

\* It starts with "*."
IsWildcard(name) == name.label = "*" /\ (name.parent # "" \/ name.dots > 0)

\* host_matches: equality, or "*." standing for exactly one label, not a blank one.
HostMatches(pattern, host) ==
    /\ ~IsEmpty(pattern)
    /\ ~IsEmpty(host)
    /\ \/ pattern = host
       \/ /\ IsWildcard(pattern) /\ pattern.parent # ""
          /\ pattern.parent = host.parent /\ pattern.dots = host.dots
          /\ host.label # ""

DomainAnswers(domain, req, exactOnly) ==
    /\ exactOnly => ~IsWildcard(Normal(domain))
    /\ HostMatches(Normal(domain), NormalTwice(req.host))

SiteMatches(site, req, exactOnly) ==
    /\ req.listener \in site.listen
    /\ req.kind \in site.traffic
    /\ \E i \in DOMAIN site.domains :
          DomainAnswers(site.domains[i], req, exactOnly)

FirstMatch(sites, req, exactOnly) ==
    SelectInSeq(sites, LAMBDA site : SiteMatches(site, req, exactOnly))

\* Mistake to catch: one pass over the sites, exact names and wildcards alike.
SiteForOnePass(sites, req) == FirstMatch(sites, req, FALSE)

\* site_for: exact names over the whole list first, wildcards only after; 0 is
\* the code's None.
SiteFor(sites, req) ==
    LET exact == FirstMatch(sites, req, TRUE)
    IN  IF exact # 0 THEN exact ELSE FirstMatch(sites, req, FALSE)
=============================================================================
