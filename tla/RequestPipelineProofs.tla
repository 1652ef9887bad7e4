----------------------- MODULE RequestPipelineProofs -----------------------
(***************************************************************************)
(* Proofs about RequestPipeline for every set of requests and              *)
(* configurations and any number of reloads and retries.  The inductive    *)
(* invariant names the table each index of the context belongs to.         *)
(***************************************************************************)
EXTENDS RequestPipeline, SequenceTheorems, WellFoundedInduction, TLAPS

-----------------------------------------------------------------------------
(* Looking up a site, a rule or a route. *)

\* A nonempty set of numbers has the least element Min names.
LEMMA LeastNumber ==
    ASSUME NEW I \in SUBSET Nat, I # {}
    PROVE  Min(I) \in I
<1>1. \E x \in I : \A y \in I : ~ (<<y, x>> \in OpToRel(<, Nat))
  BY WFMin, NatLessThanWellFounded
<1>2. PICK x \in I : \A y \in I : ~ (<<y, x>> \in OpToRel(<, Nat))
  BY <1>1
<1>3. \A y \in I : ~ (y < x)
  BY <1>2, Zenon DEF OpToRel
<1>4. \A y \in I : x <= y
  BY <1>3
<1>5. QED
  BY <1>4 DEF Min

\* site_for returns nothing or an index of the list.
LEMMA SiteForIndex ==
    ASSUME NEW sites, Len(sites) \in Nat, NEW r
    PROVE  SiteFor(sites, r) \in 0..Len(sites)
<1>1. ASSUME NEW e PROVE FirstMatch(sites, r, e) \in 0..Len(sites)
  <2> DEFINE I == {i \in 1..Len(sites) : SiteMatches(sites[i], r, e)}
  <2>1. I # {} => Min(I) \in I
    BY LeastNumber
  <2>2. QED
    BY <2>1 DEF FirstMatch, SelectInSeq
<1>2. QED
  BY <1>1 DEF SiteFor

\* site_for looks at the authority, the listener and the kind alone.
LEMMA SiteForOfHost ==
    ASSUME NEW sites, NEW r1, NEW r2,
           r1.host = r2.host, r1.listener = r2.listener, r1.kind = r2.kind
    PROVE  SiteFor(sites, r1) = SiteFor(sites, r2)
<1>1. ASSUME NEW site, NEW e PROVE SiteMatches(site, r1, e) <=> SiteMatches(site, r2, e)
  BY DEF SiteMatches, DomainAnswers
<1>2. ASSUME NEW e PROVE FirstMatch(sites, r1, e) = FirstMatch(sites, r2, e)
  <2>1. {i \in 1..Len(sites) : SiteMatches(sites[i], r1, e)}
           = {i \in 1..Len(sites) : SiteMatches(sites[i], r2, e)}
    BY <1>1
  <2>2. QED
    BY <2>1 DEF FirstMatch, SelectInSeq
<1>3. QED
  BY <1>2 DEF SiteFor

\* The rule and the route found are ones the site lists.
LEMMA RuleAndRouteIndex ==
    ASSUME NEW site \in SiteRuntime, NEW path
    PROVE  /\ RuleFor(site, path) # 0 => RuleFor(site, path) \in DOMAIN site.rules
           /\ RouteFor(site, path) # 0 => RouteFor(site, path) \in DOMAIN site.routes
           /\ RuleFor(site, path) \in Nat /\ RouteFor(site, path) \in Nat
<1>1. /\ DOMAIN site.rules = 1..Len(site.rules)
      /\ DOMAIN site.routes = 1..Len(site.routes)
      /\ Len(site.rules) \in Nat /\ Len(site.routes) \in Nat
  BY LenProperties DEF SiteRuntime
<1> DEFINE I == {i \in 1..Len(site.rules) : path \in site.rules[i].from}
           J == {i \in 1..Len(site.routes) : path \in site.routes[i].paths}
<1>2. I \in SUBSET Nat /\ J \in SUBSET Nat
  BY <1>1
<1>3. (I # {} => Min(I) \in I) /\ (J # {} => Min(J) \in J)
  <2> HIDE DEF I, J
  <2>1. QED
    BY <1>2, LeastNumber
<1>4. QED
  BY <1>1, <1>3 DEF RuleFor, RouteFor, SelectInSeq

\* What build_proxy_routing yields: typed, every target usable, the root site
\* last and open to all.
WellBuilt(table) ==
    /\ table \in Table
    /\ Len(table.sites) \in Nat
    /\ DOMAIN table.sites = 1..Len(table.sites)
    /\ \A i \in DOMAIN table.sites :
          table.sites[i] \in SiteRuntime /\ PoolValid(table.sites[i])
    /\ table.root \in 0..Len(table.sites)
    /\ table.root # 0 => /\ ~table.sites[table.root].restricted
                         /\ table.sites[table.root].file = "root"

LEMMA BuiltTable ==
    ASSUME NEW v \in Versions PROVE WellBuilt(Build(v))
<1> USE DEF WellBuilt
<1> DEFINE root == RootSite(v.root)
<1>1. /\ v.sites \in Seq(SiteRuntime) /\ v.hasRoot \in BOOLEAN
      /\ v.root.pool \in Seq(Upstream) /\ v.root.balanced \in BOOLEAN
      /\ PoolValid(v.root)
      /\ \A i \in DOMAIN v.sites : PoolValid(v.sites[i])
  BY PipelineAssumption
<1>2. root \in SiteRuntime /\ PoolValid(root)
  <2>1. /\ <<>> \in Seq(Spelling) /\ <<>> \in Seq(Rule) /\ <<>> \in Seq(Route)
    BY EmptySeq
  <2>2. QED
    BY <1>1, <2>1 DEF RootSite, SiteRuntime, PoolValid
<1>3. CASE v.hasRoot
  <2>1. Build(v) = [sites |-> Append(v.sites, root), root |-> Len(v.sites) + 1]
    BY <1>3 DEF Build
  <2>2. /\ Append(v.sites, root) \in Seq(SiteRuntime)
        /\ Len(Append(v.sites, root)) = Len(v.sites) + 1
        /\ \A i \in 1..Len(v.sites) : Append(v.sites, root)[i] = v.sites[i]
        /\ Append(v.sites, root)[Len(v.sites) + 1] = root
        /\ Len(v.sites) \in Nat /\ DOMAIN v.sites = 1..Len(v.sites)
    BY <1>1, <1>2, AppendProperties, LenProperties
  <2>3. \A i \in 1..(Len(v.sites) + 1) :
           /\ Append(v.sites, root)[i] \in SiteRuntime
           /\ PoolValid(Append(v.sites, root)[i])
    BY <1>1, <1>2, <2>2, ElementOfSeq
  <2>4. ~root.restricted /\ root.file = "root"
    BY DEF RootSite
  <2> HIDE DEF root
  <2>5. DOMAIN Append(v.sites, root) = 1..(Len(v.sites) + 1)
    BY <2>2, LenProperties
  <2>6. QED
    BY <2>1, <2>2, <2>3, <2>4, <2>5 DEF Table
<1>4. CASE ~v.hasRoot
  <2>1. Build(v) = [sites |-> v.sites, root |-> 0]
    BY <1>4 DEF Build
  <2>2. QED
    BY <1>1, <2>1, LenProperties, ElementOfSeq DEF Table
<1>5. QED
  BY <1>3, <1>4

\* Every request's site is one of the table's.
LEMMA OwnerIndex ==
    ASSUME NEW table, WellBuilt(table), NEW r
    PROVE  /\ Owner(table, r) \in 0..Len(table.sites)
           /\ Owner(table, r) # 0 => Owner(table, r) \in DOMAIN table.sites
           /\ SiteFor(table.sites, r) # 0 => SiteFor(table.sites, r) \in DOMAIN table.sites
BY SiteForIndex DEF WellBuilt, Owner

\* An upstream selected belongs to the site, is typed, and is the one whose
\* Host the context it leaves names, unless an older route is still there.
LEMMA SelectionIsOfSite ==
    ASSUME NEW table, WellBuilt(table), NEW i, i \in DOMAIN table.sites, NEW path,
           NEW x, x \in [site : Nat, upstream : Nat, route : Nat], x.site = i,
           NEW s, s \in Selections(table.sites[i], path, x)
    PROVE  /\ s.x \in [site : Nat, upstream : Nat, route : Nat]
           /\ s.x.site = i
           /\ s.upstream \in Upstream \cup {NoUpstream}
           /\ s.upstream # NoUpstream => s.upstream \in UpstreamsOf(table.sites[i])
           /\ s.x.route \in {x.route, RouteFor(table.sites[i], path)}
           /\ /\ s.upstream # NoUpstream
              /\ x.route \in {0, RouteFor(table.sites[i], path)}
              => HostUpstream(table, s.x) = s.upstream
<1> DEFINE site == table.sites[i]
<1>1. /\ site \in SiteRuntime
      /\ \A k \in DOMAIN site.pool : k \in Nat /\ site.pool[k] \in Upstream
      /\ \A k \in DOMAIN site.routes : site.routes[k].upstream \in Upstream
  <2>1. site \in SiteRuntime
    BY DEF WellBuilt
  <2>2. site.pool \in Seq(Upstream) /\ site.routes \in Seq(Route)
    BY <2>1 DEF SiteRuntime
  <2>3. \A k \in DOMAIN site.pool : k \in Nat /\ site.pool[k] \in Upstream
    BY <2>2, ElementOfSeq, LenProperties
  <2>4. \A k \in DOMAIN site.routes : site.routes[k] \in Route
    BY <2>2, ElementOfSeq, LenProperties
  <2>5. QED
    BY <2>1, <2>3, <2>4 DEF Route
<1>2. CASE RouteFor(site, path) # 0
  <2>1. /\ s.x = [site |-> x.site, upstream |-> 1,
                  route |-> RouteFor(site, path)]
        /\ s.upstream = site.routes[RouteFor(site, path)].upstream
    BY <1>2 DEF Selections
  <2>2. RouteFor(site, path) \in DOMAIN site.routes /\ RouteFor(site, path) \in Nat
    BY <1>1, <1>2, RuleAndRouteIndex
  <2>3. s.upstream \in UpstreamsOf(site)
    BY <2>1, <2>2 DEF UpstreamsOf
  <2>4. HostUpstream(table, s.x) = s.upstream
    BY <1>2, <2>1 DEF HostUpstream
  <2>5. /\ s.x \in [site : Nat, upstream : Nat, route : Nat]
        /\ s.x.site = i /\ s.x.route = RouteFor(site, path)
    BY <2>1, <2>2
  <2>6. s.upstream \in Upstream
    BY <1>1, <2>1, <2>2
  <2> HIDE DEF site
  <2>7. QED
    BY <2>3, <2>4, <2>5, <2>6 DEF site
<1>3. CASE RouteFor(site, path) = 0
  <2>1. CASE s.upstream = NoUpstream /\ s.x = x
    BY <2>1
  <2>2. CASE \E k \in DOMAIN site.pool :
                s.x = [x EXCEPT !.upstream = k] /\ s.upstream = site.pool[k]
    <3>1. PICK k \in DOMAIN site.pool :
             s.x = [x EXCEPT !.upstream = k] /\ s.upstream = site.pool[k]
      BY <2>2
    <3>2. s.upstream \in UpstreamsOf(site)
      BY <3>1 DEF UpstreamsOf
    <3>3. x.route = 0 => HostUpstream(table, s.x) = s.upstream
      BY <3>1 DEF HostUpstream
    <3>4. QED
      BY <1>1, <1>3, <3>1, <3>2, <3>3
  <2>3. QED
    BY <1>3, <2>1, <2>2 DEF Selections
<1>4. QED
  BY <1>2, <1>3

-----------------------------------------------------------------------------
(* The inductive invariant. *)

\* Past the filter, with a site in hand.
Past == pc \in {"cache", "peer", "connect", "transform", "sent", "log"}

Tables == \A n \in DOMAIN builds : WellBuilt(builds[n])

\* Before the filter nothing is known; the filter comes before the later phases.
Fresh == pc = "filter" => req = orig /\ ctx = NoContext
InOrder == filtered <= sited

\* ctx.site is the request's site in the table it is an index of.
SiteKnown ==
    Past => LET table == builds[sited] IN
            /\ ctx.site \in Entitled(table)
            /\ SiteFor(table.sites, req) # 0 => ctx.site = SiteFor(table.sites, req)

\* Without a reload ctx.route is no leftover of another table.
RouteKnown ==
    Past /\ Undisturbed =>
        ctx.route \in {0, RouteFor(Current.sites[ctx.site], req.path)}

\* The peer is an upstream of what ctx.site named in the table it came from,
\* and without a reload the one the context names.
PeerKnown ==
    Dialed => /\ peer \in UpstreamsOf(builds[dialed].sites[ctx.site])
              /\ Undisturbed => HostUpstream(Current, ctx) = peer

\* How a request ends.
EndKnown ==
    /\ outcome.kind = "panic" => pc = "done" /\ ~Undisturbed
    /\ pc # "done" => outcome.log = "none"

IInv ==
    /\ TypeOK
    /\ Tables
    /\ Fresh
    /\ InOrder
    /\ SiteKnown
    /\ RouteKnown
    /\ PeerKnown
    /\ EndKnown
    /\ HostOfPeer
    /\ ClosedPathsHidden
    /\ LoggedUnderOwnSite

LEMMA InitIInv == Init => IInv
<1> SUFFICES ASSUME Init PROVE IInv
  OBVIOUS
<1>1. PICK v \in Versions : builds = <<Build(v)>>
  BY DEF Init
<1>2. WellBuilt(Build(v))
  BY BuiltTable
<1>3. /\ builds \in Seq(Table) /\ Len(builds) = 1
      /\ DOMAIN builds = {1} /\ builds[1] = Build(v)
  BY <1>1, <1>2 DEF WellBuilt
<1>4. orig \in Arrival /\ req \in Arrival
  BY PipelineAssumption DEF Init
<1>5. TypeOK
  <2>1. Len(builds) \in 1..(MaxReloads + 1) /\ retries \in 0..MaxRetries
    BY <1>3, PipelineAssumption DEF Init
  <2>2. ctx \in [site : Nat, upstream : Nat, route : Nat]
    BY DEF Init, NoContext
  <2>3. outcome \in Outcome
    BY DEF Init, NoOutcome, Outcome, OutcomeKinds
  <2>4. QED
    BY <1>3, <1>4, <2>1, <2>2, <2>3 DEF Init, TypeOK
<1>6. Tables
  BY <1>2, <1>3 DEF Tables
<1>7. QED
  BY <1>5, <1>6 DEF Init, IInv, Fresh, InOrder, SiteKnown, RouteKnown, PeerKnown,
     EndKnown, HostOfPeer, ClosedPathsHidden, LoggedUnderOwnSite, Past, Dialed,
     NoOutcome

\* The table in force.
LEMMA TableInForce ==
    ASSUME TypeOK, Tables
    PROVE  /\ Now \in DOMAIN builds /\ Current = builds[Now] /\ WellBuilt(Current)
           /\ DOMAIN builds = 1..Now /\ Now \in Nat
BY LenProperties DEF TypeOK, Tables, Now, Current

\* The redirects change the path and, without a Host header, the authority.
LEMMA OnwardTyped ==
    ASSUME TypeOK, Tables, Owner(Current, req) # 0
    PROVE  /\ Onward \in Arrival
           /\ Onward.listener = req.listener /\ Onward.kind = req.kind
           /\ req.hostHeader => Onward.host = req.host
<1>1. Mine \in SiteRuntime
  BY TableInForce, OwnerIndex DEF Mine, WellBuilt
<1>2. req \in Arrival
  BY DEF TypeOK
<1>3. CASE RuleFor(Mine, req.path) = 0
  BY <1>2, <1>3 DEF Onward, AfterRedirects
<1>4. CASE RuleFor(Mine, req.path) # 0
  <2> DEFINE rule == Mine.rules[RuleFor(Mine, req.path)]
  <2>1. rule \in Rule
    <3>1. Mine.rules \in Seq(Rule)
      BY <1>1 DEF SiteRuntime
    <3>2. QED
      BY <1>1, <1>4, <3>1, RuleAndRouteIndex, ElementOfSeq, LenProperties
  <2>2. Onward = [req EXCEPT !.path = rule.to,
                     !.host = IF req.hostHeader THEN @ ELSE rule.authority]
    BY <1>4 DEF Onward, AfterRedirects, Rewritten
  <2> HIDE DEF rule
  <2>3. rule.to \in Paths /\ rule.authority \in Spelling \cup {Absent}
    BY <2>1 DEF Rule
  <2>4. QED
    BY <1>2, <2>2, <2>3 DEF Arrival
<1>5. QED
  BY <1>3, <1>4

\* Setting the kind of an outcome leaves the rest of it.
LEMMA OutcomeOfKind ==
    ASSUME NEW o \in Outcome, NEW kind \in OutcomeKinds
    PROVE  /\ [o EXCEPT !.kind = kind] \in Outcome
           /\ [o EXCEPT !.kind = kind].kind = kind
           /\ [o EXCEPT !.kind = kind].host = o.host
           /\ [o EXCEPT !.kind = kind].log = o.log
BY DEF Outcome

\* What the filter settles on when it lets a request pass.
LEMMA PassingSettles ==
    ASSUME TypeOK, Tables, Fresh, Passing, ~Closed, UNCHANGED <<builds, orig>>
    PROVE  /\ filtered' = Now /\ sited' = Now /\ Undisturbed'
           /\ req' \in Arrival /\ req' = Onward
           /\ ctx = NoContext /\ Settled \in DOMAIN Current.sites
           /\ Settled \in Entitled(Current)'
           /\ SiteFor(Current.sites, req)' # 0 => Settled = SiteFor(Current.sites, req)'
           /\ orig.hostHeader =>
                 Allowed(Current.sites[Owner(Current, orig)], Onward.path)
<1>1. /\ Now \in DOMAIN builds /\ Current = builds[Now] /\ WellBuilt(Current)
      /\ Current' = Current /\ Now' = Now
  BY TableInForce DEF Current, Now
<1>2. /\ pc = "filter" /\ filtered' = Now /\ sited' = Now /\ req' = Onward
      /\ Owner(Current, req) # 0 /\ req = orig /\ ctx = NoContext
  BY DEF Passing, Filtering, Fresh
<1>3. /\ Owner(Current, req) \in DOMAIN Current.sites
      /\ SiteFor(Current.sites, Onward) # 0
            => SiteFor(Current.sites, Onward) \in DOMAIN Current.sites
  BY <1>1, <1>2, OwnerIndex
<1>4. Settled \in Entitled(Current)' /\ Settled \in DOMAIN Current.sites
  BY <1>1, <1>2, <1>3 DEF Settled, Entitled
<1>6. /\ Onward \in Arrival
      /\ Onward.listener = req.listener /\ Onward.kind = req.kind
      /\ req.hostHeader => Onward.host = req.host
  BY <1>2, OnwardTyped
<1>7. ASSUME orig.hostHeader
      PROVE  Allowed(Current.sites[Owner(Current, orig)], Onward.path)
  <2>1. SiteFor(Current.sites, Onward) = SiteFor(Current.sites, orig)
    BY <1>2, <1>6, <1>7, SiteForOfHost
  <2>2. CASE SiteFor(Current.sites, orig) # 0
    BY <2>1, <2>2 DEF Closed, Owner
  <2>3. CASE SiteFor(Current.sites, orig) = 0
    BY <1>1, <1>2, <2>3 DEF Owner, WellBuilt, Allowed
  <2>4. QED
    BY <2>2, <2>3
<1>8. QED
  BY <1>1, <1>2, <1>4, <1>6, <1>7 DEF Settled, Undisturbed

-----------------------------------------------------------------------------
(* Every step preserves it. *)

\* A reload: the tables so far stay, and nothing is undisturbed any more.
LEMMA ReloadStep == IInv /\ Reload => IInv'
<1> SUFFICES ASSUME IInv, Reload PROVE IInv'
  OBVIOUS
<1> USE DEF IInv
<1>1. PICK v \in Versions : builds' = Append(builds, Build(v))
  BY DEF Reload
<1>2. WellBuilt(Build(v)) /\ Build(v) \in Table
  BY BuiltTable DEF WellBuilt
<1>3. /\ Now \in DOMAIN builds /\ DOMAIN builds = 1..Now /\ Now \in Nat
      /\ builds \in Seq(Table)
  BY TableInForce DEF TypeOK
<1>4. /\ builds' \in Seq(Table) /\ Now' = Now + 1
      /\ DOMAIN builds' = 1..(Now + 1)
      /\ \A n \in 1..Now : builds'[n] = builds[n]
      /\ builds'[Now + 1] = Build(v)
  <2>1. /\ builds' \in Seq(Table) /\ Len(builds') = Len(builds) + 1
        /\ \A n \in 1..Len(builds) : builds'[n] = builds[n]
        /\ builds'[Len(builds) + 1] = Build(v)
    BY <1>1, <1>2, <1>3, AppendProperties
  <2>2. DOMAIN builds' = 1..Len(builds')
    BY <2>1, LenProperties
  <2>3. QED
    BY <2>1, <2>2 DEF Now
<1>5. /\ filtered \in 1..Now /\ sited \in 1..Now /\ dialed \in 1..Now
  BY <1>3 DEF TypeOK
<1>6. ~Undisturbed'
  BY <1>3, <1>4, <1>5 DEF Undisturbed, Reload
<1>7. TypeOK'
  <2>1. Len(builds') \in 1..(MaxReloads + 1)
    BY <1>3, <1>4, PipelineAssumption DEF Reload, Now
  <2>2. QED
    BY <1>3, <1>4, <1>5, <2>1 DEF Reload, TypeOK
<1>8. Tables'
  BY <1>2, <1>3, <1>4 DEF Tables
<1>9. SiteKnown'
  BY <1>4, <1>5 DEF Reload, SiteKnown, Past, Entitled
<1>10. PeerKnown'
  BY <1>4, <1>5, <1>6 DEF Reload, PeerKnown, Dialed
<1>11. EndKnown'
  BY DEF Reload, EndKnown
<1>12. ClosedPathsHidden'
  BY <1>4, <1>5 DEF Reload, ClosedPathsHidden
<1>13. QED
  BY <1>6, <1>7, <1>8, <1>9, <1>10, <1>11, <1>12
     DEF Reload, Fresh, InOrder, RouteKnown, HostOfPeer, LoggedUnderOwnSite

\* The filter answers by itself.
LEMMA EndingStep ==
    ASSUME IInv, OwnAnswer \/ DefaultPage \/ Redirect \/ Reject PROVE IInv'
<1> USE DEF IInv
<1>1. /\ pc = "filter" /\ pc' = "done" /\ UNCHANGED <<builds, orig, peer, retries, dialed>>
      /\ \E kind \in OutcomeKinds \ {"panic"} :
            outcome' = [NoOutcome EXCEPT !.kind = kind]
  BY DEF OwnAnswer, DefaultPage, Redirect, Reject, Passing, Filtering, Ends,
     OutcomeKinds
<1>2. /\ WellBuilt(Current) /\ Now \in DOMAIN builds /\ Now \in Nat
      /\ DOMAIN builds = 1..Now
  BY TableInForce
<1>3. /\ filtered' \in DOMAIN builds /\ sited' \in DOMAIN builds
      /\ filtered' <= sited'
  <2>1. CASE UNCHANGED <<filtered, sited>>
    BY <2>1 DEF TypeOK, InOrder
  <2>2. CASE filtered' = Now /\ sited' = Now
    BY <1>2, <2>2
  <2>3. QED
    BY <2>1, <2>2 DEF OwnAnswer, DefaultPage, Redirect, Reject, Passing, Filtering
<1>4. req' \in Arrival /\ ctx' \in [site : Nat, upstream : Nat, route : Nat]
  <2>1. CASE OwnAnswer \/ DefaultPage
    BY <2>1 DEF OwnAnswer, DefaultPage, TypeOK
  <2>2. CASE Redirect
    <3>1. Owner(Current, req) \in Nat
      BY <1>2, OwnerIndex DEF WellBuilt
    <3>2. QED
      BY <2>2, <3>1 DEF Redirect, TypeOK
  <2>3. CASE Reject
    <3>1. /\ filtered' = Now /\ Owner(Current, req) # 0 /\ req = orig
          /\ req' = Onward /\ ctx' = [ctx EXCEPT !.site = Settled]
      BY <2>3 DEF Reject, Passing, Filtering, Fresh
    <3>2. Settled \in Nat
      BY <1>2, OwnerIndex DEF Settled, WellBuilt
    <3>3. QED
      BY <2>3, <3>1, <3>2, OnwardTyped DEF TypeOK, Reject
  <2>4. QED
    BY <2>1, <2>2, <2>3
<1>5. /\ outcome' \in Outcome
      /\ outcome'.kind # "panic" /\ outcome'.log = "none"
  BY <1>1 DEF NoOutcome, Outcome, OutcomeKinds
<1>6. TypeOK'
  BY <1>1, <1>3, <1>4, <1>5 DEF TypeOK
<1>7. Tables' /\ EndKnown'
  BY <1>1, <1>5 DEF Tables, EndKnown
<1>8. QED
  BY <1>1, <1>3, <1>5, <1>6, <1>7
     DEF Fresh, InOrder, SiteKnown, RouteKnown, PeerKnown, HostOfPeer,
     ClosedPathsHidden, LoggedUnderOwnSite, Past, Dialed

\* A WebSocket upgrade goes on to upstream_peer.
LEMMA PassWebsocketStep == IInv /\ PassWebsocket => IInv'
<1> SUFFICES ASSUME IInv, PassWebsocket PROVE IInv'
  OBVIOUS
<1> USE DEF IInv
<1>1. /\ Passing /\ ~Closed /\ pc' = "peer"
      /\ UNCHANGED <<builds, orig, peer, retries, dialed, outcome>>
      /\ ctx' = [ctx EXCEPT !.site = Settled]
  BY DEF PassWebsocket
<1>2. /\ filtered' = Now /\ sited' = Now /\ Undisturbed'
      /\ req' \in Arrival /\ req' = Onward
      /\ ctx = NoContext /\ Settled \in DOMAIN Current.sites
      /\ Settled \in Entitled(Current)'
      /\ SiteFor(Current.sites, req)' # 0 => Settled = SiteFor(Current.sites, req)'
      /\ orig.hostHeader =>
            Allowed(Current.sites[Owner(Current, orig)], Onward.path)
  BY <1>1, PassingSettles
<1>3. /\ WellBuilt(Current) /\ Now \in DOMAIN builds /\ Now \in Nat
      /\ Current = builds[Now] /\ Current' = Current /\ Settled \in Nat
  BY <1>1, <1>2, TableInForce DEF Current, WellBuilt
<1>4. ctx' = [site |-> Settled, upstream |-> 0, route |-> 0] /\ Settled # 0
  BY <1>1, <1>2, <1>3 DEF NoContext, WellBuilt
<1>5. /\ ctx' \in [site : Nat, upstream : Nat, route : Nat]
      /\ ctx'.site = Settled /\ ctx'.route = 0
  BY <1>3, <1>4
<1>6. TypeOK'
  BY <1>1, <1>2, <1>3, <1>4, <1>5 DEF TypeOK
<1>7. SiteKnown'
  BY <1>1, <1>2, <1>3, <1>5 DEF SiteKnown
<1>8. ClosedPathsHidden'
  BY <1>1, <1>2, <1>3 DEF ClosedPathsHidden
<1>9. QED
  BY <1>1, <1>2, <1>3, <1>5, <1>6, <1>7, <1>8
     DEF Tables, Fresh, InOrder, RouteKnown, PeerKnown, EndKnown, HostOfPeer,
     LoggedUnderOwnSite, Passing, Filtering, Dialed

\* An upstream is selected in the filter, or none is.
LEMMA SelectingStep ==
    ASSUME IInv, NoneSelected \/ LeaveToPingora \/ ProxyHttp3 PROVE IInv'
<1> USE DEF IInv
<1>1. /\ Passing /\ ~Closed /\ UNCHANGED <<builds, orig, retries>>
      /\ pc = "filter" /\ pc' \in {"done", "cache", "log"}
      /\ \E s \in Offers : ctx' = s.x
  BY DEF NoneSelected, LeaveToPingora, ProxyHttp3, Ends, Selecting, Passing,
     Filtering
<1>2. /\ filtered' = Now /\ sited' = Now /\ Undisturbed'
      /\ req' \in Arrival /\ req' = Onward
      /\ ctx = NoContext /\ Settled \in DOMAIN Current.sites
      /\ Settled \in Entitled(Current)'
      /\ SiteFor(Current.sites, req)' # 0 => Settled = SiteFor(Current.sites, req)'
      /\ orig.hostHeader =>
            Allowed(Current.sites[Owner(Current, orig)], Onward.path)
  BY <1>1, PassingSettles
<1>3. /\ WellBuilt(Current) /\ Now \in DOMAIN builds /\ Now \in Nat
      /\ Current = builds[Now] /\ Current' = Current
      /\ Settled \in Nat /\ Settled # 0
  BY <1>1, <1>2, TableInForce DEF Current, WellBuilt
<1> DEFINE x == [ctx EXCEPT !.site = Settled]
<1>4. /\ x \in [site : Nat, upstream : Nat, route : Nat]
      /\ x.site = Settled /\ x.route = 0
  BY <1>2, <1>3 DEF NoContext
<1>5. ASSUME NEW s \in Offers
      PROVE  /\ s.x \in [site : Nat, upstream : Nat, route : Nat]
             /\ s.x.site = Settled
             /\ s.upstream \in Upstream \cup {NoUpstream}
             /\ s.x.route \in {0, RouteFor(Current.sites[Settled], Onward.path)}
             /\ s.upstream # NoUpstream => HostUpstream(Current, s.x) = s.upstream
  <2>1. s \in Selections(Current.sites[Settled], Onward.path, x)
    BY DEF Offers
  <2> HIDE DEF x
  <2>2. Settled \in DOMAIN Current.sites /\ x.site = Settled /\ WellBuilt(Current)
    BY <1>2, <1>3, <1>4
  <2>3. /\ s.x \in [site : Nat, upstream : Nat, route : Nat]
        /\ s.x.site = Settled
        /\ s.upstream \in Upstream \cup {NoUpstream}
        /\ s.x.route \in {x.route, RouteFor(Current.sites[Settled], Onward.path)}
        /\ /\ s.upstream # NoUpstream
           /\ x.route \in {0, RouteFor(Current.sites[Settled], Onward.path)}
           => HostUpstream(Current, s.x) = s.upstream
    <3> DEFINE table == Current
    <3>1. /\ WellBuilt(table) /\ Settled \in DOMAIN table.sites
          /\ x \in [site : Nat, upstream : Nat, route : Nat] /\ x.site = Settled
          /\ s \in Selections(table.sites[Settled], Onward.path, x)
      BY <1>4, <2>1, <2>2
    <3> HIDE DEF table
    <3>2. QED
      BY <3>1, SelectionIsOfSite DEF table
  <2>4. QED
    BY <1>4, <2>3
<1>6. /\ ctx' \in [site : Nat, upstream : Nat, route : Nat]
      /\ ctx'.site = Settled
      /\ ctx'.route \in {0, RouteFor(Current.sites[Settled], Onward.path)}
  BY <1>1, <1>5
<1>7. /\ outcome' \in Outcome
      /\ outcome'.log = "none" /\ outcome'.kind # "panic"
      /\ peer' \in Upstream \cup {NoUpstream} /\ dialed' \in DOMAIN builds
  <2>1. CASE NoneSelected
    BY <2>1 DEF NoneSelected, Ends, NoOutcome, Outcome, OutcomeKinds, TypeOK
  <2>2. CASE LeaveToPingora
    BY <1>1, <2>2 DEF LeaveToPingora, TypeOK, EndKnown
  <2>3. CASE ProxyHttp3
    <3>1. PICK s \in Offers :
             /\ peer' = s.upstream /\ s.upstream.h3
             /\ \/ \E kind \in {"served", "bad gateway"} :
                      outcome' = [NoOutcome EXCEPT !.kind = kind,
                                     !.host = HostUpstream(Current, s.x)]
                \/ outcome' = [NoOutcome EXCEPT !.kind = "error"]
      BY <2>3 DEF ProxyHttp3
    <3>2. s.upstream # NoUpstream
      <4>1. ~NoUpstream.h3
        BY DEF NoUpstream
      <4>2. QED
        BY <3>1, <4>1, Zenon
    <3>3. HostUpstream(Current, s.x) = s.upstream
      BY <1>5, <3>2
    <3>4. s.upstream \in Upstream \cup {NoUpstream} /\ dialed' = Now
      BY <1>5, <2>3 DEF ProxyHttp3
    <3>5. \E kind \in {"served", "bad gateway", "error"} :
             \/ outcome' = [kind |-> kind, host |-> s.upstream, log |-> "none"]
             \/ outcome' = [kind |-> kind, host |-> NoUpstream, log |-> "none"]
      <4>1. ASSUME NEW kind \in {"served", "bad gateway"},
                   outcome' = [NoOutcome EXCEPT !.kind = kind,
                                  !.host = HostUpstream(Current, s.x)]
            PROVE  outcome' = [kind |-> kind, host |-> s.upstream, log |-> "none"]
        BY <3>3, <4>1 DEF NoOutcome
      <4>2. ASSUME outcome' = [NoOutcome EXCEPT !.kind = "error"]
            PROVE  outcome' = [kind |-> "error", host |-> NoUpstream, log |-> "none"]
        BY <4>2 DEF NoOutcome
      <4>3. {"served", "bad gateway"} \subseteq {"served", "bad gateway", "error"}
        OBVIOUS
      <4>4. "error" \in {"served", "bad gateway", "error"}
        OBVIOUS
      <4>5. CASE \E kind \in {"served", "bad gateway"} :
                    outcome' = [NoOutcome EXCEPT !.kind = kind,
                                   !.host = HostUpstream(Current, s.x)]
        <5>1. PICK kind \in {"served", "bad gateway"} :
                 outcome' = [NoOutcome EXCEPT !.kind = kind,
                                !.host = HostUpstream(Current, s.x)]
          BY <4>5
        <5>2. QED
          BY <4>1, <4>3, <5>1
      <4>6. CASE outcome' = [NoOutcome EXCEPT !.kind = "error"]
        BY <4>2, <4>4, <4>6
      <4>7. QED
        BY <3>1, <4>5, <4>6
    <3>6. /\ outcome' \in Outcome
          /\ outcome'.log = "none" /\ outcome'.kind # "panic"
      <4>1. \A kind \in {"served", "bad gateway", "error"} :
               kind \in OutcomeKinds /\ kind # "panic"
        BY DEF OutcomeKinds
      <4>2. PICK kind \in {"served", "bad gateway", "error"},
                 host \in {s.upstream, NoUpstream} :
               outcome' = [kind |-> kind, host |-> host, log |-> "none"]
        BY <3>5
      <4>3. host \in Upstream \cup {NoUpstream}
        BY <3>4
      <4>4. kind \in OutcomeKinds /\ kind # "panic"
        BY <4>1
      <4>5. QED
        BY <4>2, <4>3, <4>4 DEF Outcome
    <3>7. peer' \in Upstream \cup {NoUpstream}
      BY <3>1, <3>4
    <3>8. QED
      BY <1>3, <3>4, <3>6, <3>7
  <2>4. QED
    BY <2>1, <2>2, <2>3
<1>8. TypeOK'
  BY <1>1, <1>2, <1>3, <1>6, <1>7 DEF TypeOK
<1>9. SiteKnown' /\ RouteKnown'
  BY <1>1, <1>2, <1>3, <1>6 DEF SiteKnown, RouteKnown
<1>10. ClosedPathsHidden'
  BY <1>1, <1>2, <1>3 DEF ClosedPathsHidden
<1>11. Tables' /\ EndKnown'
  BY <1>1, <1>7 DEF Tables, EndKnown
<1>12. QED
  BY <1>1, <1>2, <1>3, <1>7, <1>8, <1>9, <1>10, <1>11
     DEF Fresh, InOrder, PeerKnown, HostOfPeer, LoggedUnderOwnSite, Dialed

\* What the sites past the filter are worth.
LEMMA SiteInHand ==
    ASSUME IInv, Past
    PROVE  /\ ctx.site \in DOMAIN builds[sited].sites /\ ctx.site # 0
           /\ ctx.site \in Nat
           /\ WellBuilt(builds[sited])
           /\ Undisturbed => sited = Now /\ ctx.site \in DOMAIN Current.sites
<1>1. /\ Now \in DOMAIN builds /\ DOMAIN builds = 1..Now /\ Now \in Nat
      /\ Current = builds[Now]
      /\ sited \in 1..Now /\ filtered \in 1..Now /\ filtered <= sited
  BY TableInForce DEF IInv, TypeOK, InOrder
<1>2. WellBuilt(builds[sited])
  BY <1>1 DEF IInv, Tables
<1>3. ctx.site \in Entitled(builds[sited])
  BY DEF IInv, SiteKnown
<1>4. ctx.site \in DOMAIN builds[sited].sites /\ ctx.site # 0
  BY <1>2, <1>3, OwnerIndex DEF Entitled
<1>5. ctx.site \in Nat
  BY <1>2, <1>4 DEF WellBuilt
<1>6. Undisturbed => sited = Now
  BY <1>1 DEF Undisturbed
<1>7. QED
  BY <1>1, <1>2, <1>4, <1>5, <1>6

\* The cache filter may move the request to another table's site.
LEMMA CacheFilterStep == IInv /\ CacheFilter => IInv'
<1> SUFFICES ASSUME IInv, CacheFilter PROVE IInv'
  OBVIOUS
<1> USE DEF IInv
<1> DEFINE i == SiteFor(Current.sites, req)
<1>1. /\ pc = "cache" /\ pc' = "peer"
      /\ UNCHANGED <<builds, orig, req, peer, retries, filtered, dialed, outcome>>
      /\ IF i # 0 THEN ctx' = [ctx EXCEPT !.site = i] /\ sited' = Now
         ELSE UNCHANGED <<ctx, sited>>
  BY DEF CacheFilter
<1>2. /\ WellBuilt(Current) /\ Now \in DOMAIN builds /\ DOMAIN builds = 1..Now
      /\ Now \in Nat /\ Current = builds[Now] /\ Current' = Current /\ Now' = Now
  BY <1>1, TableInForce DEF Current, Now
<1>3. /\ i # 0 => i \in DOMAIN Current.sites
      /\ i \in Nat
  BY <1>2, OwnerIndex, SiteForIndex DEF WellBuilt
<1>4. Past /\ Past'
  BY <1>1 DEF Past
<1>5. /\ ctx \in [site : Nat, upstream : Nat, route : Nat]
      /\ filtered \in 1..Now /\ sited \in 1..Now /\ filtered <= sited
  BY <1>2 DEF TypeOK, InOrder
<1>6. /\ ctx' \in [site : Nat, upstream : Nat, route : Nat]
      /\ ctx'.route = ctx.route
      /\ ctx'.site = IF i # 0 THEN i ELSE ctx.site
      /\ sited' \in 1..Now /\ filtered' <= sited'
  BY <1>1, <1>2, <1>3, <1>5
<1>7. TypeOK'
  <2>1. ctx'.site # 0
    BY <1>4, <1>6, SiteInHand
  <2>2. QED
    BY <1>1, <1>2, <1>6, <2>1 DEF TypeOK
<1>8. SiteKnown'
  <2>1. CASE i # 0
    BY <1>1, <1>2, <1>6, <2>1 DEF SiteKnown, Entitled
  <2>2. CASE i = 0
    BY <1>1, <1>4, <2>2 DEF SiteKnown, Entitled
  <2>3. QED
    BY <2>1, <2>2
<1>9. RouteKnown'
  <2>1. ASSUME Undisturbed PROVE ctx'.site = ctx.site
    BY <1>2, <1>4, <1>6, <2>1, SiteInHand DEF SiteKnown
  <2>2. Undisturbed' = Undisturbed
    BY <1>1, <1>2 DEF Undisturbed
  <2>3. QED
    BY <1>1, <1>2, <1>4, <1>6, <2>1, <2>2 DEF RouteKnown
<1>10. ClosedPathsHidden'
  BY <1>1 DEF ClosedPathsHidden
<1>11. QED
  BY <1>1, <1>6, <1>7, <1>8, <1>9, <1>10
     DEF Tables, Fresh, InOrder, PeerKnown, EndKnown, HostOfPeer,
     LoggedUnderOwnSite, Dialed

\* upstream_peer finds its site.
LEMMA UpstreamPeerStep == IInv /\ UpstreamPeer => IInv'
<1> SUFFICES ASSUME IInv, UpstreamPeer PROVE IInv'
  OBVIOUS
<1> USE DEF IInv
<1>1. Past /\ pc = "peer" /\ pc' \in {"connect", "log"} /\ Past'
      /\ UNCHANGED <<builds, orig, req, retries, filtered, sited>> /\ dialed' = Now
  BY DEF UpstreamPeer, Past
<1>2. /\ WellBuilt(Current) /\ Now \in DOMAIN builds /\ DOMAIN builds = 1..Now
      /\ Now \in Nat /\ Current = builds[Now] /\ Current' = Current /\ Now' = Now
  BY <1>1, TableInForce DEF Current, Now
<1>3. SiteToDial = ctx.site /\ ctx.site \in DOMAIN Current.sites
  BY <1>1, SiteInHand DEF UpstreamPeer, SiteToDial
<1> DEFINE x == [ctx EXCEPT !.site = SiteToDial]
           site == Current.sites[ctx.site]
<1>4. x = ctx /\ ctx \in [site : Nat, upstream : Nat, route : Nat]
  BY <1>3 DEF TypeOK
<1>5. PICK s \in Selections(site, req.path, ctx) :
         /\ ctx' = s.x /\ peer' = s.upstream
         /\ \/ s.upstream # NoUpstream /\ pc' = "connect" /\ UNCHANGED outcome
            \/ /\ s.upstream = NoUpstream
               /\ pc' = "log"
               /\ outcome' = [outcome EXCEPT !.kind = "error"]
  BY <1>3, <1>4 DEF UpstreamPeer
<1>6. /\ s.x \in [site : Nat, upstream : Nat, route : Nat]
      /\ s.x.site = ctx.site
      /\ s.upstream \in Upstream \cup {NoUpstream}
      /\ s.upstream # NoUpstream => s.upstream \in UpstreamsOf(site)
      /\ s.x.route \in {ctx.route, RouteFor(site, req.path)}
      /\ /\ s.upstream # NoUpstream
         /\ ctx.route \in {0, RouteFor(site, req.path)}
         => HostUpstream(Current, s.x) = s.upstream
  <2> DEFINE table == Current
             c == ctx
  <2>1. /\ WellBuilt(table) /\ c.site \in DOMAIN table.sites
        /\ c \in [site : Nat, upstream : Nat, route : Nat]
        /\ s \in Selections(table.sites[c.site], req.path, c)
    BY <1>2, <1>3, <1>4
  <2> HIDE DEF table, c
  <2>2. QED
    BY <2>1, SelectionIsOfSite DEF table, c
<1>7. /\ outcome \in Outcome
      /\ outcome.log = "none" /\ outcome.kind # "panic"
  BY <1>1 DEF TypeOK, EndKnown
<1>8. /\ outcome' \in Outcome
      /\ outcome'.log = "none" /\ outcome'.kind # "panic"
  <2>1. \/ UNCHANGED outcome
        \/ outcome' = [outcome EXCEPT !.kind = "error"]
    BY <1>5
  <2>2. "error" \in OutcomeKinds /\ "error" # "panic"
    BY DEF OutcomeKinds
  <2>3. /\ [outcome EXCEPT !.kind = "error"] \in Outcome
        /\ [outcome EXCEPT !.kind = "error"].kind = "error"
        /\ [outcome EXCEPT !.kind = "error"].log = outcome.log
    BY <1>7, <2>2, OutcomeOfKind
  <2>4. QED
    BY <1>7, <2>1, <2>2, <2>3
<1>9. TypeOK'
  <2>1. ctx'.site # 0
    BY <1>1, <1>5, <1>6, SiteInHand
  <2>2. QED
    BY <1>1, <1>2, <1>5, <1>6, <1>8, <2>1 DEF TypeOK
<1>10. SiteKnown'
  BY <1>1, <1>5, <1>6 DEF SiteKnown, Entitled
<1>11. Undisturbed' = Undisturbed
  BY <1>1, <1>2 DEF Undisturbed
<1>12. Undisturbed => ctx.route \in {0, RouteFor(site, req.path)}
  BY <1>1 DEF RouteKnown
<1>13. RouteKnown'
  BY <1>1, <1>2, <1>5, <1>6, <1>11, <1>12 DEF RouteKnown
<1>14. PeerKnown'
  BY <1>1, <1>2, <1>5, <1>6, <1>11, <1>12 DEF PeerKnown, Dialed
<1>15. ClosedPathsHidden'
  BY <1>1 DEF ClosedPathsHidden
<1>16. QED
  BY <1>1, <1>8, <1>9, <1>10, <1>13, <1>14, <1>15
     DEF Tables, Fresh, InOrder, EndKnown, HostOfPeer, LoggedUnderOwnSite

\* What a step keeps that moves the phase on and leaves the context alone.
LEMMA SameContext ==
    ASSUME IInv, Past, pc' \in {"peer", "connect", "transform", "sent", "log", "done"},
           Dialed' => Dialed, retries' \in 0..MaxRetries, outcome' \in Outcome,
           UNCHANGED <<builds, orig, req, ctx, peer, filtered, sited, dialed>>
    PROVE  /\ TypeOK' /\ Tables' /\ Fresh' /\ InOrder' /\ SiteKnown' /\ RouteKnown'
           /\ PeerKnown' /\ ClosedPathsHidden'
           /\ Undisturbed' = Undisturbed /\ Current' = Current
           /\ outcome \in Outcome /\ outcome.log = "none" /\ outcome.kind # "panic"
<1> USE DEF IInv
<1>1. Undisturbed' = Undisturbed /\ Current' = Current
  BY DEF Undisturbed, Current, Now
<1>2. ctx.site # 0
  BY SiteInHand
<1>3. pc \notin {"filter", "done"}
  BY DEF Past
<1>4. TypeOK'
  BY <1>2 DEF TypeOK
<1>5. Tables' /\ Fresh' /\ InOrder'
  BY DEF Tables, Fresh, InOrder
<1>6. SiteKnown' /\ RouteKnown' /\ PeerKnown'
  BY <1>1 DEF SiteKnown, RouteKnown, PeerKnown, Entitled
<1>7. ClosedPathsHidden'
  BY <1>3 DEF ClosedPathsHidden
<1>8. outcome \in Outcome /\ outcome.log = "none" /\ outcome.kind # "panic"
  BY <1>3 DEF TypeOK, EndKnown
<1>9. QED
  BY <1>1, <1>4, <1>5, <1>6, <1>7, <1>8

\* pingora connects, retries or relays the answer.
LEMMA PingoraStep ==
    ASSUME IInv, Connect \/ Retry \/ UpstreamAnswers PROVE IInv'
<1>1. /\ Past /\ pc' \in {"peer", "transform", "log"} /\ (Dialed' => Dialed)
      /\ UNCHANGED <<builds, orig, req, ctx, peer, filtered, sited, dialed>>
  BY DEF Connect, Retry, UpstreamAnswers, Past, Dialed
<1>2. /\ retries' \in 0..MaxRetries /\ outcome \in Outcome
      /\ outcome.log = "none" /\ outcome.kind # "panic"
  <2>1. /\ retries \in 0..MaxRetries /\ outcome \in Outcome /\ MaxRetries \in Nat
    BY PipelineAssumption DEF IInv, TypeOK
  <2>2. retries' \in 0..MaxRetries
    <3>1. UNCHANGED retries \/ (retries < MaxRetries /\ retries' = retries + 1)
      BY DEF Connect, Retry, UpstreamAnswers
    <3>2. QED
      BY <2>1, <3>1
  <2>3. outcome.log = "none" /\ outcome.kind # "panic"
    BY <1>1 DEF IInv, EndKnown, Past
  <2>4. QED
    BY <2>1, <2>2, <2>3
<1>3. /\ outcome' \in Outcome /\ outcome'.log = "none" /\ outcome'.kind # "panic"
  <2>1. CASE UNCHANGED outcome
    BY <1>2, <2>1
  <2>2. CASE outcome' = NoOutcome
    BY <2>2 DEF NoOutcome, Outcome, OutcomeKinds
  <2>3. ASSUME NEW kind \in {"served", "bad gateway"},
               outcome' = [outcome EXCEPT !.kind = kind]
        PROVE  outcome' \in Outcome /\ outcome'.log = "none" /\ outcome'.kind # "panic"
    <3>1. kind \in OutcomeKinds
      BY DEF OutcomeKinds
    <3>2. outcome' \in Outcome /\ outcome'.log = outcome.log /\ outcome'.kind = kind
      BY <1>2, <2>3, <3>1, OutcomeOfKind
    <3>3. QED
      BY <1>2, <3>2
  <2>4. QED
    BY <2>1, <2>2, <2>3 DEF Connect, Retry, UpstreamAnswers
<1>4. /\ TypeOK' /\ Tables' /\ Fresh' /\ InOrder' /\ SiteKnown' /\ RouteKnown'
      /\ PeerKnown' /\ ClosedPathsHidden'
  BY <1>1, <1>2, <1>3, SameContext
<1>5. EndKnown' /\ HostOfPeer' /\ LoggedUnderOwnSite'
  BY <1>1, <1>3 DEF EndKnown, HostOfPeer, LoggedUnderOwnSite
<1>6. QED
  BY <1>4, <1>5 DEF IInv

\* A panic means the table was replaced behind the context's back.
LEMMA PanicStep ==
    ASSUME IInv, PeerPanics \/ (Transform /\ TransformPanics(Current, ctx)) PROVE IInv'
<1> USE DEF IInv
<1>1. /\ Past /\ pc' = "done" /\ outcome' = [NoOutcome EXCEPT !.kind = "panic"]
      /\ ~Dialed'
      /\ UNCHANGED <<builds, orig, req, ctx, peer, retries, filtered, sited, dialed>>
  BY DEF PeerPanics, Transform, Ends, Past, Dialed
<1>2. outcome' \in Outcome /\ outcome'.log = "none"
  BY <1>1 DEF NoOutcome, Outcome, OutcomeKinds
<1>3. /\ TypeOK' /\ Tables' /\ Fresh' /\ InOrder' /\ SiteKnown' /\ RouteKnown'
      /\ PeerKnown' /\ ClosedPathsHidden' /\ Undisturbed' = Undisturbed
  BY <1>1, <1>2, SameContext DEF TypeOK
<1>4. ~Undisturbed
  <2> SUFFICES ASSUME Undisturbed PROVE FALSE
    OBVIOUS
  <2>1. /\ ctx.site \in DOMAIN Current.sites /\ ctx.site # 0
        /\ WellBuilt(Current) /\ Current.sites[ctx.site] \in SiteRuntime
    BY <1>1, SiteInHand, TableInForce DEF WellBuilt
  <2>2. CASE PeerPanics
    BY <2>1, <2>2 DEF PeerPanics, SiteToDial
  <2>3. CASE TransformPanics(Current, ctx)
    BY <1>1, <2>1, <2>3, RuleAndRouteIndex DEF TransformPanics, RouteKnown
  <2>4. QED
    BY <2>2, <2>3
<1>5. EndKnown' /\ HostOfPeer' /\ LoggedUnderOwnSite'
  BY <1>1, <1>2, <1>3, <1>4 DEF EndKnown, HostOfPeer, LoggedUnderOwnSite
<1>6. QED
  BY <1>3, <1>5

\* A request that cannot be transformed ends in an error, and is logged.
LEMMA TransformFailsStep ==
    ASSUME IInv, Transform, pc' = "log" PROVE IInv'
<1>1. /\ Past /\ ~Dialed'
      /\ outcome' = [outcome EXCEPT !.kind = "error"]
      /\ UNCHANGED <<builds, orig, req, ctx, peer, retries, filtered, sited, dialed>>
  BY DEF Transform, Ends, Past, Dialed
<1>2. outcome \in Outcome /\ outcome.log = "none" /\ "error" \in OutcomeKinds
  BY <1>1 DEF IInv, TypeOK, EndKnown, Past, OutcomeKinds
<1>3. outcome' \in Outcome /\ outcome'.log = "none" /\ outcome'.kind = "error"
  BY <1>1, <1>2, OutcomeOfKind
<1>4. /\ TypeOK' /\ Tables' /\ Fresh' /\ InOrder' /\ SiteKnown' /\ RouteKnown'
      /\ PeerKnown' /\ ClosedPathsHidden'
  BY <1>1, <1>3, SameContext DEF IInv, TypeOK
<1>5. EndKnown' /\ HostOfPeer' /\ LoggedUnderOwnSite'
  BY <1>1, <1>3 DEF EndKnown, HostOfPeer, LoggedUnderOwnSite
<1>6. QED
  BY <1>4, <1>5 DEF IInv

\* The Host header written is the peer's, unless a reload intervened.
LEMMA TransformStep ==
    ASSUME IInv, Transform, ~TransformPanics(Current, ctx), pc' # "log" PROVE IInv'
<1>1. /\ Past /\ Dialed /\ pc = "transform" /\ pc' = "sent"
      /\ outcome' = [outcome EXCEPT !.host = HostUpstream(Current, ctx)]
      /\ UNCHANGED <<builds, orig, req, ctx, peer, retries, filtered, sited, dialed>>
  BY DEF Transform, Past, Dialed
<1>2. HostUpstream(Current, ctx) \in Upstream \cup {NoUpstream}
  <2>1. /\ ctx.site \in DOMAIN Current.sites
        /\ ctx.route # 0 => ctx.route \in DOMAIN Current.sites[ctx.site].routes
    BY DEF TransformPanics
  <2> DEFINE site == Current.sites[ctx.site]
  <2>2. site \in SiteRuntime
    BY <2>1, TableInForce DEF IInv, WellBuilt
  <2>3. site.routes \in Seq(Route) /\ site.pool \in Seq(Upstream)
    BY <2>2 DEF SiteRuntime
  <2>4. /\ \A k \in DOMAIN site.routes : site.routes[k] \in Route
        /\ \A k \in DOMAIN site.pool : site.pool[k] \in Upstream
    BY <2>3, ElementOfSeq, LenProperties
  <2>5. QED
    BY <2>1, <2>4 DEF HostUpstream, Route
<1>3. outcome \in Outcome /\ outcome.log = "none" /\ outcome.kind # "panic"
  BY <1>1 DEF IInv, TypeOK, EndKnown
<1>4. /\ outcome' \in Outcome /\ outcome'.log = "none" /\ outcome'.kind # "panic"
      /\ outcome'.host = HostUpstream(Current, ctx)
  BY <1>1, <1>2, <1>3 DEF Outcome
<1>5. /\ TypeOK' /\ Tables' /\ Fresh' /\ InOrder' /\ SiteKnown' /\ RouteKnown'
      /\ PeerKnown' /\ ClosedPathsHidden' /\ Undisturbed' = Undisturbed
  BY <1>1, <1>4, SameContext DEF IInv, TypeOK
<1>6. HostOfPeer'
  BY <1>1, <1>4, <1>5 DEF IInv, PeerKnown, HostOfPeer
<1>7. EndKnown' /\ LoggedUnderOwnSite'
  BY <1>1, <1>4 DEF EndKnown, LoggedUnderOwnSite
<1>8. QED
  BY <1>5, <1>6, <1>7 DEF IInv

\* The access line goes to the folder of the site in hand.
LEMMA LogStep == IInv /\ Log => IInv'
<1> SUFFICES ASSUME IInv, Log PROVE IInv'
  OBVIOUS
<1>1. /\ Past /\ pc' = "done" /\ ~Dialed'
      /\ outcome' = [outcome EXCEPT !.log = LogName(Current, ctx)]
      /\ UNCHANGED <<builds, orig, req, ctx, peer, retries, filtered, sited, dialed>>
  BY DEF Log, Past, Dialed
<1>2. /\ WellBuilt(Current) /\ Now \in DOMAIN builds /\ Current = builds[Now]
      /\ ctx.site # 0
  BY <1>1, TableInForce, SiteInHand DEF IInv
<1>3. LogName(Current, ctx) \in Files \cup {"none", "root", "unknown"}
  BY <1>2 DEF LogName, WellBuilt, SiteRuntime
<1>4. outcome \in Outcome /\ outcome.kind # "panic"
  BY <1>1 DEF IInv, TypeOK, EndKnown, Past
<1>5. /\ outcome' \in Outcome /\ outcome'.kind # "panic"
      /\ outcome'.log = LogName(Current, ctx)
  BY <1>1, <1>3, <1>4 DEF Outcome
<1>6. /\ TypeOK' /\ Tables' /\ Fresh' /\ InOrder' /\ SiteKnown' /\ RouteKnown'
      /\ PeerKnown' /\ ClosedPathsHidden'
      /\ Undisturbed' = Undisturbed /\ Current' = Current
  BY <1>1, <1>5, SameContext DEF IInv, TypeOK
<1>7. LoggedUnderOwnSite'
  <2> SUFFICES ASSUME Undisturbed
               PROVE  \E i \in Entitled(Current)' :
                          LogName(Current, ctx) = Current.sites[i].file
    BY <1>5, <1>6 DEF LoggedUnderOwnSite
  <2>1. ctx.site \in Entitled(Current) /\ ctx.site \in DOMAIN Current.sites
    BY <1>1, <1>2, SiteInHand DEF IInv, SiteKnown
  <2>2. LogName(Current, ctx) = Current.sites[ctx.site].file
    BY <1>2, <2>1 DEF LogName, WellBuilt
  <2>3. ctx.site \in Entitled(Current)'
    BY <1>1, <1>6, <2>1 DEF Entitled
  <2>4. QED
    BY <2>2, <2>3
<1>8. EndKnown' /\ HostOfPeer'
  BY <1>1, <1>5 DEF EndKnown, HostOfPeer
<1>9. QED
  BY <1>6, <1>7, <1>8 DEF IInv

-----------------------------------------------------------------------------
(* The theorems. *)

LEMMA NextIInv == IInv /\ [Next]_vars => IInv'
<1> SUFFICES ASSUME IInv, [Next]_vars PROVE IInv'
  OBVIOUS
<1>1. CASE Reload
  BY <1>1, ReloadStep
<1>2. CASE OwnAnswer \/ DefaultPage \/ Redirect \/ Reject
  BY <1>2, EndingStep
<1>3. CASE PassWebsocket
  BY <1>3, PassWebsocketStep
<1>4. CASE NoneSelected \/ LeaveToPingora \/ ProxyHttp3
  BY <1>4, SelectingStep
<1>5. CASE CacheFilter
  BY <1>5, CacheFilterStep
<1>6. CASE UpstreamPeer
  BY <1>6, UpstreamPeerStep
<1>7. CASE Connect \/ Retry \/ UpstreamAnswers
  BY <1>7, PingoraStep
<1>8. CASE PeerPanics
  BY <1>8, PanicStep
<1>9. CASE Transform
  BY <1>9, PanicStep, TransformFailsStep, TransformStep
<1>10. CASE Log
  BY <1>10, LogStep
<1>11. CASE UNCHANGED vars
  BY <1>11 DEF vars, IInv, TypeOK, Tables, WellBuilt, Fresh, InOrder, SiteKnown,
     RouteKnown, PeerKnown, EndKnown, HostOfPeer, ClosedPathsHidden,
     LoggedUnderOwnSite, Past, Dialed, Undisturbed, Entitled, Owner, Current, Now
<1>12. QED
  BY <1>1, <1>2, <1>3, <1>4, <1>5, <1>6, <1>7, <1>8, <1>9, <1>10, <1>11
     DEF Next, Filter

\* Every index of the context belongs to a known table, through every phase,
\* reload and retry.
THEOREM Invariance == Spec => []IInv
  BY InitIInv, NextIInv, PTL DEF Spec

\* The variables keep their types and a request past the filter has a site.
THEOREM TypeCorrect == Spec => []TypeOK
<1>1. IInv => TypeOK
  BY DEF IInv
<1>2. QED
  BY <1>1, Invariance, PTL

\* The phases never mix snapshots: a request whose site was found in the table
\* its upstream was chosen from goes to an upstream of its own site.
THEOREM OwnSiteServes == Spec => []ServedByOwnSite
<1>1. IInv => ServedByOwnSite
  BY DEF IInv, ServedByOwnSite, PeerKnown, SiteKnown, Dialed, Past
<1>2. QED
  BY <1>1, Invariance, PTL

\* The upstream a request reaches gets its own Host header while no reload
\* disturbs the request.
THEOREM HostMatchesPeer == Spec => []HostOfPeer
<1>1. IInv => HostOfPeer
  BY DEF IInv
<1>2. QED
  BY <1>1, Invariance, PTL

\* Nothing the access policy closed is proxied, whatever rewrites and reloads
\* do to the path, provided the request has a Host header.
THEOREM ClosedStayClosed == Spec => []ClosedPathsHidden
<1>1. IInv => ClosedPathsHidden
  BY DEF IInv
<1>2. QED
  BY <1>1, Invariance, PTL

\* The unchecked indexing of upstream_peer and apply_request_transform panics
\* only when a reload came between two phases.
THEOREM PanicsNeedReload == Spec => []PanicOnlyAfterReload
<1>1. IInv => PanicOnlyAfterReload
  BY DEF IInv, EndKnown, PanicOnlyAfterReload
<1>2. QED
  BY <1>1, Invariance, PTL

\* Undisturbed requests are logged in the folder of their own site.
THEOREM LoggedAtHome == Spec => []LoggedUnderOwnSite
<1>1. IInv => LoggedUnderOwnSite
  BY DEF IInv
<1>2. QED
  BY <1>1, Invariance, PTL
=============================================================================
