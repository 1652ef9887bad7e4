----------------------------- MODULE SiteClaims -----------------------------
(***************************************************************************)
(* filter_valid_sites (src/validation.rs): the site files of a directory   *)
(* are validated in order.  Each enabled site claims its (domain,          *)
(* listener, traffic kind) slots one domain at a time on a trial copy of   *)
(* the claims; the copy is committed only when the whole site is valid.    *)
(* One action per iteration of the two loops.                              *)
(***************************************************************************)
EXTENDS SiteValidity

VARIABLES queue,    \* files not decided yet; the head is the one in hand
          valid,    \* sites accepted so far
          claims,   \* slots held by the accepted sites (`domains`)
          trial,    \* the copy the site in hand works on
          claimed,  \* how many of its domains it has claimed
          phase     \* "next": between files, "claim": inside validate_site

vars == <<queue, valid, claims, trial, claimed, phase>>

\* DomainClaim::claim: every slot the domain asks for is still free.
Free(site, i) == SlotsOf(site, i) \cap trial = {}

Init ==
    /\ queue \in Directories
    /\ valid = <<>>
    /\ claims = {}
    /\ trial = {}
    /\ claimed = 0
    /\ phase = "next"

SkipDisabled ==
    /\ phase = "next"
    /\ queue # <<>>
    /\ ~Head(queue).enabled
    /\ queue' = Tail(queue)
    /\ UNCHANGED <<valid, claims, trial, claimed, phase>>

\* let mut trial = domains.clone()
BeginSite ==
    /\ phase = "next"
    /\ queue # <<>>
    /\ Head(queue).enabled
    /\ trial' = claims
    /\ claimed' = 0
    /\ phase' = "claim"
    /\ UNCHANGED <<queue, valid, claims>>

ClaimDomain ==
    LET site == Head(queue)
        i == claimed + 1
    IN  /\ phase = "claim"
        /\ HeadValid(site)
        /\ i \in DOMAIN site.domains
        /\ DomainWellFormed(Normal(site.domains[i]))
        /\ Free(site, i)
        /\ trial' = trial \cup SlotsOf(site, i)
        /\ claimed' = i
        /\ UNCHANGED <<queue, valid, claims, phase>>

\* Some test of validate_site fails at the point the loop has reached.
Fails(site) ==
    \/ ~HeadValid(site)
    \/ /\ claimed < Len(site.domains)
       /\ \/ ~DomainWellFormed(Normal(site.domains[claimed + 1]))
          \/ ~Free(site, claimed + 1)
    \/ claimed = Len(site.domains) /\ ~TailValid(site)

\* Mistake to catch: the claims are written in place, without a trial copy.
ClaimsInPlace == trial

\* What a refused file leaves of the claims: `domains` was never written.
ClaimsAfterReject == claims

\* Err: the site is logged and skipped, and its trial copy is dropped.
RejectSite ==
    /\ phase = "claim"
    /\ Fails(Head(queue))
    /\ claims' = ClaimsAfterReject
    /\ queue' = Tail(queue)
    /\ trial' = {}
    /\ phase' = "next"
    /\ UNCHANGED <<valid, claimed>>

\* Ok: domains = trial; valid.push(site).
AcceptSite ==
    LET site == Head(queue)
    IN  /\ phase = "claim"
        /\ HeadValid(site)
        /\ claimed = Len(site.domains)
        /\ TailValid(site)
        /\ valid' = Append(valid, site)
        /\ claims' = trial
        /\ queue' = Tail(queue)
        /\ trial' = {}
        /\ phase' = "next"
        /\ UNCHANGED claimed

Next ==
    \/ SkipDisabled
    \/ BeginSite
    \/ ClaimDomain
    \/ RejectSite
    \/ AcceptSite

\* The loop runs to its end in the thread that called it.
Spec == Init /\ [][Next]_vars /\ WF_vars(Next)

-----------------------------------------------------------------------------
(* Properties *)

\* Type invariant.
TypeOK ==
    /\ queue \in Seq(SiteConfigs)
    /\ valid \in Seq(SiteConfigs)
    /\ claims \subseteq Slot
    /\ trial \subseteq Slot
    /\ claimed \in Nat
    /\ phase \in {"next", "claim"}
    /\ phase = "claim" => queue # <<>> /\ claimed \in 0..Len(Head(queue).domains)

\* The committed claims are the slots of the accepted sites and nothing else:
\* a site refused halfway through its domains leaves no claim behind.
ClaimsAreAccepted ==
    claims = UNION {SiteSlots(valid[i]) : i \in DOMAIN valid}

\* No two accepted sites hold the same (name, listener, kind).
SitesDisjoint ==
    \A i, j \in DOMAIN valid :
        i # j => SiteSlots(valid[i]) \cap SiteSlots(valid[j]) = {}

\* Inside validate_site the trial copy is the committed claims plus exactly what
\* the domains seen so far ask for, all of it disjoint: this is what makes the
\* commit of AcceptSite safe and a refusal by Free justified.
TrialInHand ==
    phase = "claim" =>
        LET site == Head(queue)
        IN  /\ site.enabled
            /\ claimed > 0 => HeadValid(site)
            /\ trial = claims \cup UNION {SlotsOf(site, k) : k \in 1..claimed}
            /\ \A k \in 1..claimed :
                  /\ DomainWellFormed(Normal(site.domains[k]))
                  /\ SlotsOf(site, k) \cap claims = {}
            /\ \A k, l \in 1..claimed :
                  k # l => SlotsOf(site, k) \cap SlotsOf(site, l) = {}

WildcardMatches(site, req) ==
    /\ req.listener \in site.listen
    /\ req.kind \in site.traffic
    /\ \E i \in DOMAIN site.domains :
          /\ IsWildcard(Normal(site.domains[i]))
          /\ DomainAnswers(site.domains[i], req, FALSE)

\* Routing does not depend on the order of the files: for any request at most
\* one accepted site has an exact name for it and at most one a wildcard, so
\* the "first match" of site_for is the only match of its pass.
RoutingUnambiguous ==
    \A req \in Request : \A i, j \in DOMAIN valid :
        \/ i = j
        \/ /\ ~(SiteMatches(valid[i], req, TRUE) /\ SiteMatches(valid[j], req, TRUE))
           /\ ~(WildcardMatches(valid[i], req) /\ WildcardMatches(valid[j], req))

\* "Exact hostnames win over wildcards when both could match": a site with the
\* exact name on the request's listener and kind always gets the request.
ExactWins ==
    \A req \in Request : \A i \in DOMAIN valid :
        SiteMatches(valid[i], req, TRUE) => SiteFor(valid, req) = i

\* The loop, its trial copies and its claims implement the greedy admission of
\* SiteAdmission: a file is refused only for a fault of its own or for a slot a
\* served site really holds, never for one that a refused file asked for, and
\* every file is decided in the end.
Admission == INSTANCE SiteAdmission WITH queue <- queue, valid <- valid
ImplementsAdmission == Admission!Spec
=============================================================================
