-------------------------- MODULE SiteClaimsProofs --------------------------
(***************************************************************************)
(* Proofs about SiteClaims, for every set of names, every set of site      *)
(* files and every directory.  The inductive invariant says what the trial *)
(* copy holds at each iteration; from it follow the claims of the accepted *)
(* sites, their disjointness, the order-independence of routing, and the   *)
(* refinement of SiteAdmission.                                            *)
(***************************************************************************)
EXTENDS SiteClaims, SequenceTheorems, TLAPS

USE DEF Listeners, Kinds

-----------------------------------------------------------------------------
(* What a site file asks for. *)

\* The head of the queue is a site file and its domains are spellings.
LEMMA HeadIsSite ==
    ASSUME TypeOK, queue # <<>>
    PROVE  /\ Head(queue) \in SiteConfigs
           /\ Tail(queue) \in Seq(SiteConfigs)
           /\ Head(queue).domains \in Seq(Spelling)
           /\ Head(queue).listen \subseteq Listeners
           /\ Head(queue).traffic \subseteq Kinds
<1>1. Head(queue) \in SiteConfigs /\ Tail(queue) \in Seq(SiteConfigs)
  BY HeadTailProperties DEF TypeOK
<1>2. QED
  BY <1>1, SiteConfigsAssumption

\* The slots of a domain are slots.
LEMMA SlotsTyped ==
    ASSUME NEW site \in SiteConfigs, NEW i \in DOMAIN site.domains
    PROVE  SlotsOf(site, i) \subseteq Slot
<1>1. site.domains[i] \in Spelling
  BY SiteConfigsAssumption, ElementOfSeq
<1>2. Normal(site.domains[i]) \in Name
  BY <1>1 DEF Normal, Spelling, Name
<1>3. site.listen \subseteq Listeners /\ site.traffic \subseteq Kinds
  BY SiteConfigsAssumption
<1>4. QED
  BY <1>2, <1>3 DEF SlotsOf, Slot

\* Two domains of a file that hears something share a slot exactly when they
\* are the same name.
LEMMA SlotsMeet ==
    ASSUME NEW site, site.listen # {}, site.traffic # {}, NEW i, NEW j
    PROVE  SlotsOf(site, i) \cap SlotsOf(site, j) # {}
              <=> Normal(site.domains[i]) = Normal(site.domains[j])
<1>1. ASSUME NEW slot \in SlotsOf(site, i) \cap SlotsOf(site, j)
      PROVE  Normal(site.domains[i]) = Normal(site.domains[j])
  BY <1>1 DEF SlotsOf
<1>2. ASSUME Normal(site.domains[i]) = Normal(site.domains[j])
      PROVE  SlotsOf(site, i) \cap SlotsOf(site, j) # {}
  <2>1. PICK l \in site.listen, k \in site.traffic : TRUE
    OBVIOUS
  <2>2. [name |-> Normal(site.domains[i]), listener |-> l, kind |-> k]
           \in SlotsOf(site, i) \cap SlotsOf(site, j)
    BY <1>2, <2>1 DEF SlotsOf
  <2>3. QED
    BY <2>2
<1>3. QED
  BY <1>1, <1>2

-----------------------------------------------------------------------------
(* The inductive invariant. *)

IInv ==
    /\ TypeOK
    /\ ClaimsAreAccepted
    /\ SitesDisjoint
    /\ TrialInHand

LEMMA InitIInv == Init => IInv
<1> SUFFICES ASSUME Init PROVE IInv
  OBVIOUS
<1>1. TypeOK
  BY DirectoriesAssumption DEF Init, TypeOK
<1>2. ClaimsAreAccepted
  BY DEF Init, ClaimsAreAccepted
<1>3. SitesDisjoint /\ TrialInHand
  BY DEF Init, SitesDisjoint, TrialInHand
<1>4. QED
  BY <1>1, <1>2, <1>3 DEF IInv

\* Once every domain is claimed the trial copy is the claims plus the slots of
\* the site, which meet no accepted site.
LEMMA AllClaimed ==
    ASSUME IInv, phase = "claim", claimed = Len(Head(queue).domains)
    PROVE  /\ trial = claims \cup SiteSlots(Head(queue))
           /\ SiteSlots(Head(queue)) \cap claims = {}
           /\ \A i \in DOMAIN valid :
                 SiteSlots(Head(queue)) \cap SiteSlots(valid[i]) = {}
<1> DEFINE site == Head(queue)
<1>1. DOMAIN site.domains = 1..claimed
  BY HeadIsSite, LenProperties DEF IInv, TypeOK
<1>2. SiteSlots(site) = UNION {SlotsOf(site, k) : k \in 1..claimed}
  BY <1>1 DEF SiteSlots
<1>3. trial = claims \cup SiteSlots(site) /\ SiteSlots(site) \cap claims = {}
  BY <1>2 DEF IInv, TrialInHand
<1>4. \A i \in DOMAIN valid : SiteSlots(valid[i]) \subseteq claims
  BY DEF IInv, ClaimsAreAccepted
<1>5. QED
  BY <1>3, <1>4

LEMMA NextIInv == IInv /\ [Next]_vars => IInv'
<1> SUFFICES ASSUME IInv, [Next]_vars PROVE IInv'
  OBVIOUS
<1> USE DEF IInv
<1>1. CASE SkipDisabled
  <2>1. TypeOK'
    BY <1>1, HeadIsSite DEF SkipDisabled, TypeOK
  <2>2. ClaimsAreAccepted' /\ SitesDisjoint'
    BY <1>1 DEF SkipDisabled, ClaimsAreAccepted, SitesDisjoint
  <2>3. TrialInHand'
    BY <1>1 DEF SkipDisabled, TrialInHand
  <2>4. QED
    BY <2>1, <2>2, <2>3
<1>2. CASE BeginSite
  <2>1. TypeOK'
    <3>1. Len(Head(queue).domains) \in Nat
      BY <1>2, HeadIsSite, LenProperties DEF BeginSite
    <3>2. QED
      BY <1>2, <3>1 DEF BeginSite, TypeOK
  <2>2. ClaimsAreAccepted' /\ SitesDisjoint'
    BY <1>2 DEF BeginSite, ClaimsAreAccepted, SitesDisjoint
  <2>3. TrialInHand'
    BY <1>2 DEF BeginSite, TrialInHand
  <2>4. QED
    BY <2>1, <2>2, <2>3
<1>3. CASE ClaimDomain
  <2> DEFINE site == Head(queue)
             i == claimed + 1
  <2>1. /\ queue # <<>> /\ phase = "claim" /\ queue' = queue
        /\ claimed \in Nat /\ claims' = claims /\ valid' = valid
        /\ i \in DOMAIN site.domains /\ claimed' = i
        /\ trial' = trial \cup SlotsOf(site, i)
        /\ SlotsOf(site, i) \cap trial = {}
        /\ DomainWellFormed(Normal(site.domains[i]))
        /\ HeadValid(site) /\ phase' = phase
    BY <1>3 DEF ClaimDomain, TypeOK, Free
  <2>2. 1..i = (1..claimed) \cup {i}
    BY <2>1
  <2>3. TypeOK'
    <3>1. SlotsOf(site, i) \subseteq Slot
      BY <2>1, HeadIsSite, SlotsTyped
    <3>2. i \in 0..Len(site.domains)
      BY <2>1, HeadIsSite, LenProperties
    <3>3. QED
      BY <2>1, <3>1, <3>2 DEF TypeOK
  <2>4. ClaimsAreAccepted' /\ SitesDisjoint'
    BY <2>1 DEF ClaimsAreAccepted, SitesDisjoint
  <2>5. TrialInHand'
    <3>1. trial = claims \cup UNION {SlotsOf(site, k) : k \in 1..claimed}
      BY <2>1 DEF TrialInHand
    <3>2. trial' = claims \cup UNION {SlotsOf(site, k) : k \in 1..i}
      BY <2>1, <2>2, <3>1
    <3>3. \A k \in 1..i : /\ DomainWellFormed(Normal(site.domains[k]))
                          /\ SlotsOf(site, k) \cap claims = {}
      BY <2>1, <2>2, <3>1 DEF TrialInHand
    <3>4. \A k \in 1..claimed : SlotsOf(site, k) \cap SlotsOf(site, i) = {}
      BY <2>1, <3>1
    <3>5. \A k, l \in 1..i :
             k # l => SlotsOf(site, k) \cap SlotsOf(site, l) = {}
      BY <2>1, <2>2, <3>4 DEF TrialInHand
    <3>6. QED
      BY <2>1, <3>2, <3>3, <3>5 DEF TrialInHand
  <2>6. QED
    BY <2>3, <2>4, <2>5
<1>4. CASE RejectSite
  <2>1. queue # <<>>
    BY <1>4 DEF RejectSite, TypeOK
  <2>2. TypeOK'
    BY <1>4, <2>1, HeadIsSite DEF RejectSite, ClaimsAfterReject, TypeOK
  <2>3. ClaimsAreAccepted' /\ SitesDisjoint'
    BY <1>4 DEF RejectSite, ClaimsAfterReject, ClaimsAreAccepted, SitesDisjoint
  <2>4. TrialInHand'
    BY <1>4 DEF RejectSite, TrialInHand
  <2>5. QED
    BY <2>2, <2>3, <2>4
<1>5. CASE AcceptSite
  <2> DEFINE site == Head(queue)
  <2>1. /\ queue # <<>> /\ phase = "claim" /\ phase' = "next"
        /\ claimed = Len(site.domains)
        /\ valid' = Append(valid, site) /\ claims' = trial
        /\ valid \in Seq(SiteConfigs) /\ site \in SiteConfigs
    BY <1>5, HeadIsSite DEF AcceptSite, TypeOK
  <2>2. /\ trial = claims \cup SiteSlots(site)
        /\ \A i \in DOMAIN valid : SiteSlots(site) \cap SiteSlots(valid[i]) = {}
    BY <2>1, AllClaimed
  <2>3. /\ DOMAIN valid' = DOMAIN valid \cup {Len(valid) + 1}
        /\ \A i \in DOMAIN valid : valid'[i] = valid[i]
        /\ valid'[Len(valid) + 1] = site
        /\ Len(valid) + 1 \notin DOMAIN valid
    BY <2>1, AppendProperties, LenProperties
  <2>4. TypeOK'
    BY <1>5, <2>1, HeadIsSite, AppendProperties DEF AcceptSite, TypeOK
  <2>5. ClaimsAreAccepted'
    BY <2>1, <2>2, <2>3 DEF ClaimsAreAccepted
  <2>6. SitesDisjoint'
    BY <2>2, <2>3 DEF SitesDisjoint
  <2>7. TrialInHand'
    BY <2>1 DEF TrialInHand
  <2>8. QED
    BY <2>4, <2>5, <2>6, <2>7
<1>6. CASE UNCHANGED vars
  BY <1>6 DEF vars, TypeOK, ClaimsAreAccepted, SitesDisjoint, TrialInHand
<1>7. QED
  BY <1>1, <1>2, <1>3, <1>4, <1>5, <1>6 DEF Next

\* Everything the invariant holds together: types, claims, disjoint sites and
\* the state of the trial copy.
THEOREM Invariance == Spec => []IInv
  BY InitIInv, NextIInv, PTL DEF Spec

\* The variables keep their types.
THEOREM TypeCorrect == Spec => []TypeOK
<1>1. IInv => TypeOK
  BY DEF IInv
<1>2. QED
  BY <1>1, Invariance, PTL

\* No two accepted sites share a host, listener and kind of traffic.
THEOREM AcceptedAreDisjoint == Spec => []SitesDisjoint
<1>1. IInv => SitesDisjoint
  BY DEF IInv
<1>2. QED
  BY <1>1, Invariance, PTL

\* A refused file leaves no claim behind, whatever the directory.
THEOREM ClaimsExact == Spec => []ClaimsAreAccepted
<1>1. IInv => ClaimsAreAccepted
  BY DEF IInv
<1>2. QED
  BY <1>1, Invariance, PTL

-----------------------------------------------------------------------------
(* Routing over the accepted sites. *)

\* A host matches one exact name only: itself.
LEMMA ExactMatchIsEquality ==
    ASSUME NEW domain, NEW req, DomainAnswers(domain, req, TRUE)
    PROVE  Normal(domain) = NormalTwice(req.host)
BY DEF DomainAnswers, HostMatches

\* The host fixes the wildcard that covers it.
LEMMA WildcardIsDetermined ==
    ASSUME NEW req \in Request, NEW d \in Spelling, NEW e \in Spelling,
           IsWildcard(Normal(d)), IsWildcard(Normal(e)),
           DomainAnswers(d, req, FALSE), DomainAnswers(e, req, FALSE)
    PROVE  Normal(d) = Normal(e)
<1> DEFINE host == NormalTwice(req.host)
<1>1. /\ Normal(d) \in Name /\ Normal(e) \in Name
      /\ Normal(d).label = "*" /\ Normal(e).label = "*"
  <2>1. Normal(d) \in Name /\ Normal(e) \in Name
    BY DEF Normal, Spelling, Name
  <2>2. QED
    BY <2>1 DEF IsWildcard
<1>2. /\ Normal(d).parent = host.parent /\ Normal(d).dots = host.dots
      /\ Normal(e).parent = host.parent /\ Normal(e).dots = host.dots
  BY DEF DomainAnswers, HostMatches
<1>3. QED
  BY <1>1, <1>2 DEF Name

\* Two accepted sites with domains of one name, both hearing the request's
\* listener and kind, are the same site.
LEMMA SharedNameSameSite ==
    ASSUME TypeOK, SitesDisjoint, NEW req \in Request,
           NEW i \in DOMAIN valid, NEW j \in DOMAIN valid,
           req.listener \in valid[i].listen, req.listener \in valid[j].listen,
           req.kind \in valid[i].traffic, req.kind \in valid[j].traffic,
           NEW k \in DOMAIN valid[i].domains, NEW l \in DOMAIN valid[j].domains,
           Normal(valid[i].domains[k]) = Normal(valid[j].domains[l])
    PROVE  i = j
<1> DEFINE slot == [name |-> Normal(valid[i].domains[k]),
                    listener |-> req.listener, kind |-> req.kind]
<1>1. slot \in SlotsOf(valid[i], k) /\ slot \in SlotsOf(valid[j], l)
  BY DEF SlotsOf
<1>2. slot \in SiteSlots(valid[i]) /\ slot \in SiteSlots(valid[j])
  BY <1>1 DEF SiteSlots
<1>3. QED
  BY <1>2 DEF SitesDisjoint

\* Disjoint slots leave at most one exact and at most one wildcard match.
LEMMA DisjointIsUnambiguous == TypeOK /\ SitesDisjoint => RoutingUnambiguous
<1> SUFFICES ASSUME TypeOK, SitesDisjoint, NEW req \in Request,
                    NEW i \in DOMAIN valid, NEW j \in DOMAIN valid, i # j
             PROVE  /\ ~(SiteMatches(valid[i], req, TRUE)
                            /\ SiteMatches(valid[j], req, TRUE))
                    /\ ~(WildcardMatches(valid[i], req)
                            /\ WildcardMatches(valid[j], req))
  BY DEF RoutingUnambiguous
<1>1. \A s \in {i, j} : \A k \in DOMAIN valid[s].domains :
         valid[s].domains[k] \in Spelling
  <2>1. \A s \in {i, j} : valid[s] \in SiteConfigs
    BY ElementOfSeq, LenProperties DEF TypeOK
  <2>2. QED
    BY <2>1, SiteConfigsAssumption, ElementOfSeq, LenProperties
<1>2. ASSUME SiteMatches(valid[i], req, TRUE), SiteMatches(valid[j], req, TRUE)
      PROVE  FALSE
  <2>1. PICK k \in DOMAIN valid[i].domains :
           DomainAnswers(valid[i].domains[k], req, TRUE)
    BY <1>2 DEF SiteMatches
  <2>2. PICK l \in DOMAIN valid[j].domains :
           DomainAnswers(valid[j].domains[l], req, TRUE)
    BY <1>2 DEF SiteMatches
  <2>3. Normal(valid[i].domains[k]) = Normal(valid[j].domains[l])
    BY <2>1, <2>2, ExactMatchIsEquality
  <2>4. QED
    BY <1>2, <2>3, SharedNameSameSite DEF SiteMatches
<1>3. ASSUME WildcardMatches(valid[i], req), WildcardMatches(valid[j], req)
      PROVE  FALSE
  <2>1. PICK k \in DOMAIN valid[i].domains :
           /\ IsWildcard(Normal(valid[i].domains[k]))
           /\ DomainAnswers(valid[i].domains[k], req, FALSE)
    BY <1>3 DEF WildcardMatches
  <2>2. PICK l \in DOMAIN valid[j].domains :
           /\ IsWildcard(Normal(valid[j].domains[l]))
           /\ DomainAnswers(valid[j].domains[l], req, FALSE)
    BY <1>3 DEF WildcardMatches
  <2>3. Normal(valid[i].domains[k]) = Normal(valid[j].domains[l])
    BY <1>1, <2>1, <2>2, WildcardIsDetermined
  <2>4. QED
    BY <1>3, <2>3, SharedNameSameSite DEF WildcardMatches
<1>4. QED
  BY <1>2, <1>3

\* A test that one index alone passes selects that index.
LEMMA OnlyMatchIsFirst ==
    ASSUME NEW sites, NEW req, NEW i \in 1..Len(sites),
           Len(sites) \in Nat,
           SiteMatches(sites[i], req, TRUE),
           \A j \in 1..Len(sites) : SiteMatches(sites[j], req, TRUE) => j = i
    PROVE  FirstMatch(sites, req, TRUE) = i
<1> DEFINE I == {j \in 1..Len(sites) : SiteMatches(sites[j], req, TRUE)}
<1>1. I = {i}
  OBVIOUS
<1>2. Min(I) = i
  <2>1. i \in Nat
    OBVIOUS
  <2>2. Min({i}) = i
    BY <2>1 DEF Min
  <2>3. QED
    BY <1>1, <2>2
<1>3. QED
  BY <1>1, <1>2 DEF FirstMatch, SelectInSeq

\* Routing over the accepted sites does not depend on the order of the files.
THEOREM Unambiguous == Spec => []RoutingUnambiguous
<1>1. IInv => RoutingUnambiguous
  BY DisjointIsUnambiguous DEF IInv
<1>2. QED
  BY <1>1, Invariance, PTL

\* "Exact hostnames win over wildcards when both could match."
THEOREM ExactHostWins == Spec => []ExactWins
<1>1. IInv => ExactWins
  <2> SUFFICES ASSUME IInv, NEW req \in Request, NEW i \in DOMAIN valid,
                      SiteMatches(valid[i], req, TRUE)
               PROVE  SiteFor(valid, req) = i
    BY DEF ExactWins
  <2>1. RoutingUnambiguous
    BY DisjointIsUnambiguous DEF IInv
  <2>2. DOMAIN valid = 1..Len(valid) /\ Len(valid) \in Nat
    BY LenProperties DEF IInv, TypeOK
  <2>3. \A j \in 1..Len(valid) : SiteMatches(valid[j], req, TRUE) => j = i
    BY <2>1, <2>2 DEF RoutingUnambiguous
  <2>4. FirstMatch(valid, req, TRUE) = i
    BY <2>2, <2>3, OnlyMatchIsFirst
  <2>5. i # 0
    BY <2>2
  <2>6. QED
    BY <2>4, <2>5 DEF SiteFor
<1>2. QED
  BY <1>1, Invariance, PTL

-----------------------------------------------------------------------------
(* The loop implements SiteAdmission. *)

\* The abstraction speaks of the same slots and the same faults.
LEMMA SameVocabulary ==
    ASSUME NEW site
    PROVE  /\ Admission!SiteSlots(site) = SiteSlots(site)
           /\ Admission!Sound(site) <=> Sound(site)
<1>1. \A i : Admission!SlotsOf(site, i) = SlotsOf(site, i)
  BY DEF SlotsOf, Normal, Admission!SlotsOf, Admission!Normal
<1>2. Admission!SiteSlots(site) = SiteSlots(site)
  BY <1>1 DEF SiteSlots, Admission!SiteSlots
<1>3. \A name : Admission!DomainWellFormed(name) <=> DomainWellFormed(name)
  BY DEF DomainWellFormed, IsEmpty, IsWildcard, Admission!DomainWellFormed,
         Admission!IsEmpty, Admission!IsWildcard
<1>4. Admission!HeadValid(site) <=> HeadValid(site)
  BY DEF HeadValid, Admission!HeadValid
<1>5. Admission!TailValid(site) <=> TailValid(site)
  BY DEF TailValid, Admission!TailValid
<1>6. \A i : Admission!Normal(site.domains[i]) = Normal(site.domains[i])
  BY DEF Normal, Admission!Normal
<1>7. QED
  BY <1>2, <1>3, <1>4, <1>5, <1>6 DEF Sound, Admission!Sound

\* A site that passed every test is admissible.
LEMMA AcceptedIsAdmissible ==
    ASSUME IInv, AcceptSite PROVE Admission!Admissible(Head(queue))
<1> DEFINE site == Head(queue)
<1>1. /\ queue # <<>> /\ phase = "claim" /\ claimed = Len(site.domains)
      /\ HeadValid(site) /\ TailValid(site) /\ site.enabled
  BY DEF AcceptSite, IInv, TypeOK, TrialInHand
<1>2. DOMAIN site.domains = 1..claimed
  BY <1>1, HeadIsSite, LenProperties DEF IInv
<1>3. \A k \in 1..claimed : DomainWellFormed(Normal(site.domains[k]))
  BY <1>1 DEF IInv, TrialInHand
<1>4. \A k, l \in 1..claimed :
         k # l => Normal(site.domains[k]) # Normal(site.domains[l])
  <2> SUFFICES ASSUME NEW k \in 1..claimed, NEW l \in 1..claimed, k # l
               PROVE  Normal(site.domains[k]) # Normal(site.domains[l])
    OBVIOUS
  <2>1. SlotsOf(site, k) \cap SlotsOf(site, l) = {}
    BY <1>1 DEF IInv, TrialInHand
  <2>2. QED
    BY <1>1, <2>1, SlotsMeet DEF HeadValid
<1>5. Sound(site)
  BY <1>1, <1>2, <1>3, <1>4 DEF Sound
<1>6. \A i \in DOMAIN valid : SiteSlots(site) \cap SiteSlots(valid[i]) = {}
  BY <1>1, AllClaimed
<1>7. QED
  BY <1>1, <1>5, <1>6, SameVocabulary DEF Admission!Admissible

\* A refused site is not: it fails on its own or meets an accepted site.
LEMMA RejectedIsInadmissible ==
    ASSUME IInv, RejectSite PROVE ~Admission!Admissible(Head(queue))
<1> DEFINE site == Head(queue)
<1> SUFFICES ASSUME Admission!Admissible(site) PROVE FALSE
  OBVIOUS
<1>1. /\ queue # <<>> /\ phase = "claim" /\ Fails(site)
      /\ claimed \in 0..Len(site.domains)
  BY DEF RejectSite, IInv, TypeOK
<1>2. Sound(site) /\ HeadValid(site) /\ TailValid(site)
  BY SameVocabulary DEF Admission!Admissible, Sound
<1>3. DOMAIN site.domains = 1..Len(site.domains) /\ Len(site.domains) \in Nat
  BY <1>1, HeadIsSite, LenProperties DEF IInv
<1> DEFINE i == claimed + 1
<1>4. i \in DOMAIN site.domains /\ ~Free(site, i)
  BY <1>1, <1>2, <1>3 DEF Fails, Sound
<1>5. PICK slot : slot \in SlotsOf(site, i) /\ slot \in trial
  BY <1>4 DEF Free
<1>6. CASE slot \in claims
  <2>1. PICK j \in DOMAIN valid : slot \in SiteSlots(valid[j])
    BY <1>6 DEF IInv, ClaimsAreAccepted
  <2>2. slot \in SiteSlots(site)
    BY <1>4, <1>5 DEF SiteSlots
  <2>3. QED
    BY <2>1, <2>2, SameVocabulary DEF Admission!Admissible
<1>7. CASE slot \notin claims
  <2>1. PICK k \in 1..claimed : slot \in SlotsOf(site, k)
    BY <1>1, <1>5, <1>7 DEF IInv, TrialInHand
  <2>2. k \in DOMAIN site.domains /\ k # i
    BY <1>1, <1>3, <2>1
  <2>3. Normal(site.domains[k]) = Normal(site.domains[i])
    BY <1>2, <1>5, <2>1, SlotsMeet DEF HeadValid
  <2>4. QED
    BY <1>2, <1>4, <2>2, <2>3 DEF Sound
<1>8. QED
  BY <1>6, <1>7

\* filter_valid_sites implements the greedy admission (its safety part; that
\* every file is decided is checked by TLC).
THEOREM ImplementsAdmissionSafely ==
    Spec => Admission!Init /\ [][Admission!Next]_(Admission!vars)
<1>1. Init => Admission!Init
  BY DEF Init, Admission!Init
<1>2. IInv /\ [Next]_vars => [Admission!Next]_(Admission!vars)
  <2> SUFFICES ASSUME IInv, [Next]_vars
               PROVE  [Admission!Next]_(Admission!vars)
    OBVIOUS
  <2> USE DEF Admission!Next, Admission!Decide, Admission!vars
  <2>1. CASE SkipDisabled
    BY <2>1 DEF SkipDisabled, Admission!Admissible
  <2>2. CASE BeginSite
    BY <2>2 DEF BeginSite
  <2>3. CASE ClaimDomain
    BY <2>3 DEF ClaimDomain
  <2>4. CASE RejectSite
    <3>1. queue # <<>>
      BY <2>4 DEF RejectSite, IInv, TypeOK
    <3>2. QED
      BY <2>4, <3>1, RejectedIsInadmissible DEF RejectSite
  <2>5. CASE AcceptSite
    <3>1. queue # <<>>
      BY <2>5 DEF AcceptSite, IInv, TypeOK
    <3>2. QED
      BY <2>5, <3>1, AcceptedIsAdmissible DEF AcceptSite
  <2>6. CASE UNCHANGED vars
    BY <2>6 DEF vars
  <2>7. QED
    BY <2>1, <2>2, <2>3, <2>4, <2>5, <2>6 DEF Next
<1>3. QED
  BY <1>1, <1>2, Invariance, PTL DEF Spec
=============================================================================
