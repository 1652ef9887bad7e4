--------------------------- MODULE RequestPipeline ---------------------------
(***************************************************************************)
(* One request on its way through proxy/handler.rs while the configuration *)
(* watcher replaces the routing table.                                     *)
(*                                                                         *)
(* Every phase of the handler takes its own snapshot of the shared table,  *)
(* and nothing is locked between two phases: there the request suspends,   *)
(* and reload_routing may install another table.  What a phase leaves in   *)
(* RequestContext are indices into the table it saw; the next phase uses   *)
(* them in the table it sees.  Requests share nothing but the table and    *)
(* the load balancers (a free choice here), so one request stands for all. *)
(***************************************************************************)
EXTENDS DomainRouting

CONSTANTS Paths,       \* request paths
          Addresses,   \* upstream addresses
          Files,       \* names of site files (`source_file`)
          Requests,    \* what a client may send
          Versions,    \* configurations a build or a reload may load
          MaxReloads,  \* bound on the reloads during the request
          MaxRetries   \* bound on pingora's retries of it

\* No authority, no Host.
Absent == [name |-> [label |-> "", parent |-> ""], form |-> "canonical", dots |-> 0]

Upstream == [address : Addresses, h3 : BOOLEAN]
NoUpstream == [address |-> "none", h3 |-> FALSE]

Rule == [from : SUBSET Paths, rewrite : BOOLEAN, parses : BOOLEAN,
         to : Paths, authority : Spelling \cup {Absent}]
Route == [paths : SUBSET Paths, upstream : Upstream]

\* SiteRuntime.  A direct target is a pool of one; `open` are the paths an
\* access list lets through, `trusting` the forwarding modes that believe
\* X-Forwarded-Proto.
SiteRuntime ==
    [file : Files \cup {"root"}, domains : Seq(Spelling),
     listen : SUBSET Listeners, traffic : SUBSET Kinds,
     redirectHttps : BOOLEAN, trusting : BOOLEAN, rules : Seq(Rule),
     restricted : BOOLEAN, open : SUBSET Paths, routes : Seq(Route),
     pool : Seq(Upstream), balanced : BOOLEAN]

\* `own`: a health check from this host or an ACME challenge being served.
Arrival ==
    [host : Spelling \cup {Absent}, hostHeader : BOOLEAN, listener : Listeners,
     kind : Kinds, path : Paths, own : BOOLEAN,
     forwardedProto : {"", "http", "https"}]

\* What validation leaves of an upstream target.
PoolValid(site) ==
    /\ site.pool # <<>>
    /\ ~site.balanced => Len(site.pool) = 1

ASSUME PipelineAssumption ==
    /\ Requests \subseteq Arrival
    /\ NoUpstream.address \notin Addresses
    /\ \A v \in Versions :
          /\ v.sites \in Seq(SiteRuntime)
          /\ v.hasRoot \in BOOLEAN
          /\ v.root.pool \in Seq(Upstream)
          /\ v.root.balanced \in BOOLEAN
          /\ PoolValid(v.root)
          /\ \A i \in DOMAIN v.sites : PoolValid(v.sites[i])
    /\ MaxReloads \in Nat
    /\ MaxRetries \in Nat

VARIABLES builds,    \* the routing tables so far; the last one is in force
          pc,        \* the phase the request is in
          orig,      \* the request as it arrived
          req,       \* its header now: a rewrite changes path and authority
          ctx,       \* RequestContext: site, upstream, route; 0 is None
          peer,      \* the upstream dialed by pingora or the HTTP/3 client
          retries,
          filtered,  \* history: the build request_filter worked on
          sited,     \* history: the build ctx.site is an index of
          dialed,    \* history: the build peer was chosen from
          outcome    \* how it ended: kind, Host header sent, log folder

vars == <<builds, pc, orig, req, ctx, peer, retries, filtered, sited, dialed,
          outcome>>

Current == builds[Len(builds)]
Now == Len(builds)

-----------------------------------------------------------------------------
(* Routing tables. *)

\* ProxyRouting; root is the index of the root site, 0 for None.
Table == [sites : Seq(SiteRuntime), root : Nat]

\* The site build_proxy_routing adds for root.yaml: no domain, open to all.
RootSite(root) ==
    [file |-> "root", domains |-> <<>>, listen |-> Listeners,
     traffic |-> Kinds, redirectHttps |-> FALSE, trusting |-> FALSE,
     rules |-> <<>>, restricted |-> FALSE, open |-> {}, routes |-> <<>>,
     pool |-> root.pool, balanced |-> root.balanced]

\* build_proxy_routing: the sites in order, the root site behind them.
Build(version) ==
    IF version.hasRoot
    THEN [sites |-> Append(version.sites, RootSite(version.root)),
          root |-> Len(version.sites) + 1]
    ELSE [sites |-> version.sites, root |-> 0]

\* The site a request belongs to in a table, 0 if the default page answers.
Owner(table, r) ==
    IF SiteFor(table.sites, r) # 0 THEN SiteFor(table.sites, r) ELSE table.root

-----------------------------------------------------------------------------
(* What the filters look up in one site. *)

RuleFor(site, path) ==
    SelectInSeq(site.rules, LAMBDA rule : path \in rule.from)

RouteFor(site, path) ==
    SelectInSeq(site.routes, LAMBDA route : path \in route.paths)

\* is_allowed: AccessPolicy::All, or a listed prefix.
Allowed(site, path) == site.restricted => path \in site.open

\* public_scheme: the listener, unless the site trusts X-Forwarded-Proto.
PublicScheme(site, r) ==
    IF site.trusting /\ r.forwardedProto # "" THEN r.forwardedProto
    ELSE r.listener

ToHttps(site, r) == site.redirectHttps /\ PublicScheme(site, r) = "http"

\* rewrite_request: set_uri replaces the authority along with the path; a Host
\* header stays.
Rewritten(r, rule) ==
    [r EXCEPT !.path = rule.to,
              !.host = IF r.hostHeader THEN @ ELSE rule.authority]

\* The header redirects::apply leaves when it lets the request pass.
AfterRedirects(site, r) ==
    IF RuleFor(site, r.path) = 0 THEN r
    ELSE Rewritten(r, site.rules[RuleFor(site, r.path)])

\* Mistake to catch: route indices counted from one too many.
SelectionsOffByOne(site, path, x) ==
    IF RouteFor(site, path) = 0
    THEN {[x |-> [x EXCEPT !.upstream = i], upstream |-> site.pool[i]]
             : i \in DOMAIN site.pool}
    ELSE {[x |-> [x EXCEPT !.route = RouteFor(site, path) + 1, !.upstream = 1],
           upstream |-> site.routes[RouteFor(site, path)].upstream]}

\* resolve_upstream_selection: the context it leaves and the upstream it
\* returns, NoUpstream when a balanced pool yields none (503) or an address it
\* does not list (500).  A route sets ctx.route; no route leaves it alone.
Selections(site, path, x) ==
    LET route == RouteFor(site, path)
    IN  IF route # 0
        THEN {[x |-> [site |-> x.site, upstream |-> 1, route |-> route],
               upstream |-> site.routes[route].upstream]}
        ELSE {[x |-> [x EXCEPT !.upstream = i], upstream |-> site.pool[i]]
                 : i \in DOMAIN site.pool}
             \cup (IF site.balanced
                   THEN {[x |-> x, upstream |-> NoUpstream]} ELSE {})

\* Mistake to catch: the Host of the pool member even for an internal route.
PoolHostUpstream(table, x) ==
    IF x.upstream \in DOMAIN table.sites[x.site].pool
    THEN table.sites[x.site].pool[x.upstream]
    ELSE NoUpstream

\* The upstream whose Host header apply_request_transform writes; NoUpstream
\* when ctx.upstream is outside the pool and the client's Host stays.
HostUpstream(table, x) ==
    IF x.route # 0 THEN table.sites[x.site].routes[x.route].upstream
    ELSE IF x.upstream \in DOMAIN table.sites[x.site].pool
         THEN table.sites[x.site].pool[x.upstream]
         ELSE NoUpstream

\* The indexing apply_request_transform does without a check.
TransformPanics(table, x) ==
    x.site \in DOMAIN table.sites =>
        x.route # 0 /\ x.route \notin DOMAIN table.sites[x.site].routes

\* Mistake to catch: the folder is looked up by the Host once more.
LogNameByHost(table, x) ==
    IF SiteFor(table.sites, req) = 0 THEN "root"
    ELSE table.sites[SiteFor(table.sites, req)].file

\* site_log_name: the folder under logs/ the access line goes to.
LogName(table, x) ==
    IF x.site \in {0, table.root} THEN "root"
    ELSE IF x.site \in DOMAIN table.sites THEN table.sites[x.site].file
    ELSE "unknown"

-----------------------------------------------------------------------------
(* Steps. *)

NoContext == [site |-> 0, upstream |-> 0, route |-> 0]
NoOutcome == [kind |-> "pending", host |-> NoUpstream, log |-> "none"]

Init ==
    /\ \E v \in Versions : builds = <<Build(v)>>
    /\ pc = "filter"
    /\ orig \in Requests
    /\ req = orig
    /\ ctx = NoContext
    /\ peer = NoUpstream
    /\ retries = 0
    /\ filtered = 1 /\ sited = 1 /\ dialed = 1
    /\ outcome = NoOutcome

\* reload_routing, when validate_server accepts the new files: the new table
\* is swapped in under the write lock.
Reload ==
    /\ Len(builds) <= MaxReloads
    /\ pc # "done"
    /\ \E v \in Versions : builds' = Append(builds, Build(v))
    /\ UNCHANGED <<pc, orig, req, ctx, peer, retries, filtered, sited, dialed,
                   outcome>>

Ends(kind) ==
    /\ pc' = "done"
    /\ outcome' = [NoOutcome EXCEPT !.kind = kind]

\* /_health from this host and ACME tokens: before any routing.
OwnAnswer ==
    /\ pc = "filter"
    /\ req.own
    /\ Ends("own")
    /\ UNCHANGED <<builds, orig, req, ctx, peer, retries, filtered, sited, dialed>>

DefaultPage ==
    /\ pc = "filter"
    /\ ~req.own
    /\ Owner(Current, req) = 0
    /\ Ends("default page")
    /\ UNCHANGED <<builds, orig, req, ctx, peer, retries, filtered, sited, dialed>>

\* The site request_filter starts with.
Mine == Current.sites[Owner(Current, req)]

\* A table was found; everything up to the next phase happens under it.
Filtering ==
    /\ pc = "filter"
    /\ ~req.own
    /\ Owner(Current, req) # 0
    /\ filtered' = Now
    /\ sited' = Now

RulePasses(rule) == rule.rewrite /\ rule.parses

\* redirects::apply answers: http to https first, then the first rule.
Redirect ==
    LET rule == RuleFor(Mine, req.path)
    IN  /\ Filtering
        /\ \/ ToHttps(Mine, req) /\ Ends("redirect")
           \/ /\ ~ToHttps(Mine, req)
              /\ rule # 0
              /\ ~Mine.rules[rule].rewrite
              /\ Ends("redirect")
           \/ /\ ~ToHttps(Mine, req)
              /\ rule # 0
              /\ Mine.rules[rule].rewrite
              /\ ~Mine.rules[rule].parses
              /\ Ends("error")
        /\ ctx' = [ctx EXCEPT !.site = Owner(Current, req)]
        /\ UNCHANGED <<builds, orig, req, peer, retries, dialed>>

\* The header once redirects::apply let the request pass.
Onward == AfterRedirects(Mine, req)

\* ctx.site once reject_disallowed asked site_for again, with the new header;
\* it finds nothing for the root site's requests, nor for one whose authority
\* the rewrite replaced.
Settled ==
    IF SiteFor(Current.sites, Onward) # 0 THEN SiteFor(Current.sites, Onward)
    ELSE Owner(Current, req)

\* Mistake to catch: the policy is asked about the path as it arrived.
ClosedAsItArrived ==
    /\ SiteFor(Current.sites, Onward) # 0
    /\ ~Allowed(Current.sites[SiteFor(Current.sites, Onward)], req.path)

\* The policy is asked only when site_for finds the site.
Closed ==
    /\ SiteFor(Current.sites, Onward) # 0
    /\ ~Allowed(Current.sites[SiteFor(Current.sites, Onward)], Onward.path)

\* Past the redirects, with the header and the site the later phases see.
Passing ==
    /\ Filtering
    /\ ~ToHttps(Mine, req)
    /\ LET rule == RuleFor(Mine, req.path)
       IN  rule # 0 => RulePasses(Mine.rules[rule])
    /\ req' = Onward

Reject ==
    /\ Passing
    /\ Closed
    /\ Ends("not found")
    /\ ctx' = [ctx EXCEPT !.site = Settled]
    /\ UNCHANGED <<builds, orig, peer, retries, dialed>>

\* A WebSocket upgrade skips the HTTP/3 client and the cache.
PassWebsocket ==
    /\ Passing
    /\ ~Closed
    /\ req.kind = "websocket"
    /\ ctx' = [ctx EXCEPT !.site = Settled]
    /\ pc' = "peer"
    /\ UNCHANGED <<builds, orig, peer, retries, dialed, outcome>>

\* Everything else is asked for an upstream in proxy_if_needed, whatever the
\* protocol of that upstream.
Selecting ==
    /\ Passing
    /\ ~Closed
    /\ req.kind = "http"

Offers ==
    Selections(Current.sites[Settled], Onward.path,
               [ctx EXCEPT !.site = Settled])

NoneSelected ==
    /\ Selecting
    /\ \E s \in Offers : s.upstream = NoUpstream /\ ctx' = s.x
    /\ Ends("error")
    /\ UNCHANGED <<builds, orig, peer, retries, dialed>>

\* Any other protocol than HTTP/3: the selection is dropped, what it wrote into
\* the context is not.
LeaveToPingora ==
    /\ Selecting
    /\ \E s \in Offers :
          s.upstream # NoUpstream /\ ~s.upstream.h3 /\ ctx' = s.x
    /\ pc' = "cache"
    /\ UNCHANGED <<builds, orig, peer, retries, dialed, outcome>>

\* HTTP/3: forwarded, transformed and answered under the same snapshot; a
\* failure becomes a 502, but one to build the request is left to pingora.
ProxyHttp3 ==
    /\ Selecting
    /\ \E s \in Offers :
          /\ s.upstream.h3
          /\ ctx' = s.x
          /\ peer' = s.upstream
          /\ \/ \E kind \in {"served", "bad gateway"} :
                   outcome' = [NoOutcome EXCEPT !.kind = kind,
                                  !.host = HostUpstream(Current, s.x)]
             \/ outcome' = [NoOutcome EXCEPT !.kind = "error"]
    /\ dialed' = Now
    /\ pc' = "log"
    /\ UNCHANGED <<builds, orig, retries>>

\* Mistake to catch: ctx.site becomes what site_for says, even nothing.
CacheFilterForgets ==
    /\ pc = "cache"
    /\ pc' = "peer"
    /\ ctx' = [ctx EXCEPT !.site = SiteFor(Current.sites, req)]
    /\ sited' = Now
    /\ UNCHANGED <<builds, orig, req, peer, retries, filtered, dialed, outcome>>

\* request_cache_filter takes a snapshot of its own and, when site_for finds a
\* site there, points ctx.site at it.  What the cache then holds is pingora's.
CacheFilter ==
    LET i == SiteFor(Current.sites, req)
    IN  /\ pc = "cache"
        /\ pc' = "peer"
        /\ IF i # 0 THEN ctx' = [ctx EXCEPT !.site = i] /\ sited' = Now
           ELSE UNCHANGED <<ctx, sited>>
        /\ UNCHANGED <<builds, orig, req, peer, retries, filtered, dialed,
                       outcome>>

\* Mistake to catch: upstream_peer routes afresh.
SiteRoutedAfresh == Owner(Current, req)

\* ctx.site; the fallbacks behind it serve a request that skipped
\* request_filter, and none does.
SiteToDial == IF ctx.site # 0 THEN ctx.site ELSE Owner(Current, req)

\* upstream_peer, on another snapshot: sites[site_index] unchecked, then one
\* more selection (for all but HTTP/3 and WebSocket the second).
UpstreamPeer ==
    /\ pc = "peer"
    /\ SiteToDial \in DOMAIN Current.sites
    /\ \E s \in Selections(Current.sites[SiteToDial], req.path,
                           [ctx EXCEPT !.site = SiteToDial]) :
          /\ ctx' = s.x
          /\ peer' = s.upstream
          /\ \/ s.upstream # NoUpstream /\ pc' = "connect" /\ UNCHANGED outcome
             \/ /\ s.upstream = NoUpstream
                /\ pc' = "log"
                /\ outcome' = [outcome EXCEPT !.kind = "error"]
    /\ dialed' = Now
    /\ UNCHANGED <<builds, orig, req, retries, filtered, sited>>

\* The index is not one of this table: the handler panics and the task, with
\* its connection, is gone.
PeerPanics ==
    /\ pc = "peer"
    /\ SiteToDial \notin DOMAIN Current.sites
    /\ Ends("panic")
    /\ UNCHANGED <<builds, orig, req, ctx, peer, retries, filtered, sited, dialed>>

\* pingora connects, or gives up (502).
Connect ==
    /\ pc = "connect"
    /\ \/ pc' = "transform" /\ UNCHANGED outcome
       \/ pc' = "log" /\ outcome' = [outcome EXCEPT !.kind = "bad gateway"]
    /\ UNCHANGED <<builds, orig, req, ctx, peer, retries, filtered, sited, dialed>>

\* pingora retries a request whose connection turned out dead, from
\* upstream_peer on and with the context as it is.
Retry ==
    /\ pc \in {"connect", "sent"}
    /\ retries < MaxRetries
    /\ retries' = retries + 1
    /\ pc' = "peer"
    /\ outcome' = NoOutcome
    /\ UNCHANGED <<builds, orig, req, ctx, peer, filtered, sited, dialed>>

\* upstream_request_filter, on one more snapshot: the Host header of the
\* upstream the context now names goes to the peer dialed before.  A header or a
\* path that cannot be built ends the request.
Transform ==
    /\ pc = "transform"
    /\ \/ /\ TransformPanics(Current, ctx)
          /\ Ends("panic")
       \/ /\ ~TransformPanics(Current, ctx)
          /\ pc' = "sent"
          /\ outcome' = [outcome EXCEPT !.host = HostUpstream(Current, ctx)]
       \/ /\ ~TransformPanics(Current, ctx)
          /\ pc' = "log"
          /\ outcome' = [outcome EXCEPT !.kind = "error"]
    /\ UNCHANGED <<builds, orig, req, ctx, peer, retries, filtered, sited, dialed>>

\* The upstream answers, or the connection breaks (502).
UpstreamAnswers ==
    /\ pc = "sent"
    /\ pc' = "log"
    /\ \E kind \in {"served", "bad gateway"} :
          outcome' = [outcome EXCEPT !.kind = kind]
    /\ UNCHANGED <<builds, orig, req, ctx, peer, retries, filtered, sited, dialed>>

\* logging, on the last snapshot; only proxied requests get here.
Log ==
    /\ pc = "log"
    /\ pc' = "done"
    /\ outcome' = [outcome EXCEPT !.log = LogName(Current, ctx)]
    /\ UNCHANGED <<builds, orig, req, ctx, peer, retries, filtered, sited, dialed>>

Filter ==
    \/ OwnAnswer \/ DefaultPage \/ Redirect \/ Reject \/ PassWebsocket
    \/ NoneSelected \/ LeaveToPingora \/ ProxyHttp3

Next ==
    \/ Reload
    \/ Filter
    \/ CacheFilter
    \/ UpstreamPeer \/ PeerPanics
    \/ Connect \/ Retry
    \/ Transform
    \/ UpstreamAnswers
    \/ Log

Spec == Init /\ [][Next]_vars

-----------------------------------------------------------------------------
(* Properties *)

OutcomeKinds == {"pending", "own", "default page", "redirect", "not found",
                 "error", "bad gateway", "served", "panic"}
Outcome == [kind : OutcomeKinds, host : Upstream \cup {NoUpstream},
            log : Files \cup {"none", "root", "unknown"}]

\* Type invariant; past the filter the context always names a site.
TypeOK ==
    /\ builds \in Seq(Table)
    /\ Len(builds) \in 1..(MaxReloads + 1)
    /\ pc \in {"filter", "cache", "peer", "connect", "transform", "sent", "log",
              "done"}
    /\ orig \in Arrival
    /\ req \in Arrival
    /\ ctx \in [site : Nat, upstream : Nat, route : Nat]
    /\ pc \notin {"filter", "done"} => ctx.site # 0
    /\ peer \in Upstream \cup {NoUpstream}
    /\ retries \in 0..MaxRetries
    /\ filtered \in DOMAIN builds
    /\ sited \in DOMAIN builds
    /\ dialed \in DOMAIN builds
    /\ outcome \in Outcome

UpstreamsOf(site) ==
    {site.pool[i] : i \in DOMAIN site.pool}
        \cup {site.routes[i].upstream : i \in DOMAIN site.routes}

\* The sites of a table a request may be served by: the one its Host names,
\* or, when a rewrite moved it to another authority, the one that names.
Entitled(table) == {Owner(table, orig), SiteFor(table.sites, req)} \ {0}

Dialed == pc \in {"connect", "transform", "sent"}

\* A request whose site was found in the table its upstream was chosen from
\* goes to an upstream of its own site, whatever was reloaded before or since:
\* the snapshots of one phase are never mixed.
ServedByOwnSite ==
    Dialed /\ sited = dialed =>
        LET table == builds[dialed]
        IN  \E i \in Entitled(table) : peer \in UpstreamsOf(table.sites[i])

\* No reload since request_filter took its snapshot.
Undisturbed == filtered = Now

\* Without a reload behind its back a request that reaches an upstream carries
\* that upstream's Host header: the context names the peer that was dialed,
\* after a retry and after the discarded selection of the filter too.
HostOfPeer ==
    pc = "sent" /\ Undisturbed => outcome.host = peer

\* What is proxied is open under the access policy of the table it was
\* filtered with, in the path it is proxied under; a request named only by
\* its authority loses its site in a rewrite and is excepted.
ClosedPathsHidden ==
    pc \notin {"filter", "done"} /\ orig.hostHeader =>
        LET table == builds[filtered]
        IN  Allowed(table.sites[Owner(table, orig)], req.path)

\* The handler panics only when a reload came between two of its phases.
PanicOnlyAfterReload == outcome.kind = "panic" => ~Undisturbed

\* Without a reload the access line goes to the folder of the site that served
\* the request ("root" for the root site).
LoggedUnderOwnSite ==
    outcome.log # "none" /\ Undisturbed =>
        \E i \in Entitled(Current) : outcome.log = Current.sites[i].file

\* "routing uses the request Host": the peer is an upstream of a site that
\* answers the request in one of the tables that were in force meanwhile.
RoutedByHost ==
    Dialed =>
        \E n \in DOMAIN builds : \E i \in Entitled(builds[n]) :
            peer \in UpstreamsOf(builds[n].sites[i])
=============================================================================
