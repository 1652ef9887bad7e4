---------------------------- MODULE SiteValidity ----------------------------
(***************************************************************************)
(* The site file as validation.rs sees it, the tests validate_site makes   *)
(* on one file alone, and the slots a file asks for.  Shared by the loop   *)
(* of the code (SiteClaims) and its abstraction (SiteAdmission).           *)
(***************************************************************************)
EXTENDS DomainRouting

CONSTANTS SiteConfigs,  \* the site files an administrator may write
          Directories   \* the orders in which they may be listed

ASSUME SiteConfigsAssumption ==
    \A c \in SiteConfigs :
        /\ c.enabled \in BOOLEAN
        /\ c.domains \in Seq(Spelling)
        /\ c.listen \subseteq Listeners
        /\ c.traffic \subseteq Kinds
        /\ c.redirectHttps \in BOOLEAN
        /\ c.restValid \in BOOLEAN

ASSUME DirectoriesAssumption ==
    \A d \in Directories : d \in Seq(SiteConfigs)

\* What two sites must not share.
Slot == [name : Name, listener : Listeners, kind : Kinds]

\* Mistake to catch: the claims are keyed by the spelling in the file.
SlotsBySpelling(site, i) ==
    [name : {site.domains[i]}, listener : site.listen, kind : site.traffic]

\* The slots the i-th domain of a site asks for.
SlotsOf(site, i) ==
    [name : {Normal(site.domains[i])}, listener : site.listen,
     kind : site.traffic]

SiteSlots(site) == UNION {SlotsOf(site, i) : i \in DOMAIN site.domains}

\* The domain itself: not blank, and a wildcard only over a parent with a dot in it,
\* be it one that a port left behind.
DomainWellFormed(name) ==
    /\ ~IsEmpty(name)
    /\ IsWildcard(name) =>
          name.parent \in DottedParents \/ (name.parent # "" /\ name.dots > 0)

\* What validate_site tests before it looks at the domains.
HeadValid(site) ==
    /\ site.domains # <<>>
    /\ site.listen # {}
    /\ site.traffic # {}

\* What it tests after them: access, routes, redirects, upstreams and cache
\* (restValid), then redirect_https against the listeners.
TailValid(site) ==
    /\ site.restValid
    /\ site.redirectHttps => "http" \in site.listen

\* The file is valid on its own, whatever the other files say.
Sound(site) ==
    /\ HeadValid(site)
    /\ TailValid(site)
    /\ \A i \in DOMAIN site.domains : DomainWellFormed(Normal(site.domains[i]))
    /\ \A i, j \in DOMAIN site.domains :
          i # j => Normal(site.domains[i]) # Normal(site.domains[j])
=============================================================================
