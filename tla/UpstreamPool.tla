---------------------------- MODULE UpstreamPool ----------------------------
(***************************************************************************)
(* One balanced pool of upstreams (src/upstreams.rs, src/proxy/routing.rs) *)
(* shared by concurrent requests: pingora's round robin, the health check  *)
(* that a table built at startup has and a reloaded one lacks, and the two *)
(* selections a plain request makes.                                       *)
(*                                                                         *)
(* The counter is kept modulo the number of backends.  Pingora's retry of  *)
(* a request on a dead pooled connection, one more selection, is in        *)
(* RequestPipeline.                                                        *)
(***************************************************************************)
EXTENDS Naturals, Sequences, FiniteSets, SequencesExt

CONSTANTS Clients,
          Setups,       \* pools and what happens to them, see Setup
          Sockets,      \* socket addresses
          Resolved,     \* socket addresses of each configured address
          HealthCheck,  \* health_check: true
          MaxLooks      \* looks of one selection (256 in the code)

Addresses == DOMAIN Resolved

\* HTTP/3 is dialed over QUIC, everything else over TCP.
Transports == {"tcp", "quic"}

\* The upstreams in their configured order; what they resolve to, in the order of
\* try_from_iter; who sends requests, of which kinds, all for one path; what may go
\* down; the bound on the reloads.
Setup ==
    [pool : Seq([address : Addresses, h3 : BOOLEAN]), backends : Seq(Sockets),
     clients : SUBSET Clients, kinds : SUBSET {"http", "websocket"},
     failing : SUBSET (Transports \X Sockets), reloads : Nat]

ASSUME PoolAssumption ==
    /\ Resolved \in [Addresses -> (SUBSET Sockets) \ {{}}]
    /\ \A a \in Addresses \cap Sockets : Resolved[a] = {a}
    /\ \A s \in Setups :
          /\ s \in Setup /\ s.pool # <<>>
          /\ IsInjective(s.backends)
          /\ Range(s.backends) = UNION {Resolved[u.address] : u \in Range(s.pool)}
    /\ HealthCheck \in BOOLEAN
    /\ MaxLooks \in Nat \ {0}

VARIABLES setup,      \* the configured pool and its surroundings
          up,         \* the socket addresses that accept connections, by transport
          balancers,  \* the load balancers so far; the last is in the table
          pc,         \* phase of each client's request
          balancer,   \* the load balancer a selection works on
          looks,      \* how often it looked so far
          seen,       \* backends it found unhealthy
          pick,       \* the upstream to dial, an index of Pool
          ended,      \* how the last request ended
          served      \* the upstream that served last, 0 before

vars == <<setup, up, balancers, pc, balancer, looks, seen, pick, ended, served>>

Pool == setup.pool

\* The backends of every load balancer made of the pool.
Backends == setup.backends

\* Mistake to catch: the health check is never started.
UnwatchedBalancer(withServer) ==
    [ticket |-> 0, healthy |-> Range(Backends), watched |-> FALSE]

\* create_load_balancer: backends are healthy until a check says otherwise.
\* Only a table built with the server gets the background service that checks.
NewBalancer(withServer) ==
    [ticket |-> 0, healthy |-> Range(Backends),
     watched |-> HealthCheck /\ withServer]

\* Mistake to catch: the counter does not go round the whole pool.
TicketOneShort(b) == (b.ticket + 1) % (Len(Backends) - 1)

\* Mistake to catch: the counter is not brought back into the pool.
TicketUnbounded(b) == b.ticket + 1

\* RoundRobin: one number for every look, whoever looks; the key is ignored.
NextTicket(b) == (b.ticket + 1) % Len(Backends)

\* The configured upstream whose text is the address selected, 0 for none.
ConfiguredAs(s) == SelectInSeq(Pool, LAMBDA u : u.address = s)

Init ==
    /\ setup \in Setups
    /\ up = [t \in Transports |-> Sockets]
    /\ balancers = <<NewBalancer(TRUE)>>
    /\ pc = [c \in Clients |-> "idle"]
    /\ balancer = [c \in Clients |-> 1]
    /\ looks = [c \in Clients |-> 0]
    /\ seen = [c \in Clients |-> {}]
    /\ pick = [c \in Clients |-> 0]
    /\ ended = "none"
    /\ served = 0

-----------------------------------------------------------------------------
(* Surroundings. *)

Fail(t, s) ==
    /\ s \in up[t] /\ <<t, s>> \in setup.failing
    /\ up' = [up EXCEPT ![t] = @ \ {s}]
    /\ UNCHANGED <<setup, balancers, pc, balancer, looks, seen, pick, ended, served>>

Recover(t, s) ==
    /\ s \in Sockets \ up[t]
    /\ up' = [up EXCEPT ![t] = @ \cup {s}]
    /\ UNCHANGED <<setup, balancers, pc, balancer, looks, seen, pick, ended, served>>

\* Mistake to catch: a backend once down is never asked again.
ProbeHealthyOnly(healthy, s) ==
    IF s \in up["tcp"] THEN healthy ELSE healthy \ {s}

\* TcpHealthCheck: one failure or one success decides.  An upstream for HTTP/3 is
\* asked over TCP, too.
Probe(healthy, s) ==
    IF s \in up["tcp"] THEN healthy \cup {s} ELSE healthy \ {s}

\* The background service of the n-th balancer connects to one backend.
Check(n, s) ==
    /\ n \in DOMAIN balancers
    /\ balancers[n].watched
    /\ s \in Range(Backends)
    /\ balancers' = [balancers EXCEPT ![n].healthy = Probe(@, s)]
    /\ UNCHANGED <<setup, up, pc, balancer, looks, seen, pick, ended, served>>

\* reload_routing builds its table without the server.
Reload ==
    /\ Len(balancers) <= setup.reloads
    /\ balancers' = Append(balancers, NewBalancer(FALSE))
    /\ UNCHANGED <<setup, up, pc, balancer, looks, seen, pick, ended, served>>

-----------------------------------------------------------------------------
(* A request. *)

\* A selection starts on the table in force.
Selects(c, phase) ==
    /\ pc' = [pc EXCEPT ![c] = phase]
    /\ balancer' = [balancer EXCEPT ![c] = Len(balancers)]
    /\ looks' = [looks EXCEPT ![c] = 0]
    /\ seen' = [seen EXCEPT ![c] = {}]

\* request_filter: a WebSocket upgrade skips proxy_if_needed.
Arrive(c) ==
    /\ c \in setup.clients
    /\ pc[c] = "idle"
    /\ \/ "http" \in setup.kinds /\ Selects(c, "filter")
       \/ /\ "websocket" \in setup.kinds
          /\ pc' = [pc EXCEPT ![c] = "filtered"]
          /\ UNCHANGED <<balancer, looks, seen>>
    /\ UNCHANGED <<setup, up, balancers, pick, ended, served>>

\* upstream_peer selects, whatever the filter selected.
EnterPeer(c) ==
    /\ pc[c] = "filtered"
    /\ Selects(c, "peer")
    /\ UNCHANGED <<setup, up, balancers, pick, ended, served>>

\* The selection is over, and the number of looks and what was seen forgotten.
Leaves(c, phase) ==
    /\ pc' = [pc EXCEPT ![c] = phase]
    /\ balancer' = [balancer EXCEPT ![c] = 1]
    /\ looks' = [looks EXCEPT ![c] = 0]
    /\ seen' = [seen EXCEPT ![c] = {}]

\* resolve_upstream_selection has a backend: look it up in the configuration.
\* In the filter an HTTP/3 upstream is forwarded to, and any other is dropped.
Select(c, s) ==
    LET i == ConfiguredAs(s)
    IN  \/ /\ i = 0
           /\ Leaves(c, "idle")
           /\ ended' = "not_configured"
           /\ UNCHANGED <<pick, served>>
        \/ /\ i # 0
           /\ pc[c] = "filter" /\ ~Pool[i].h3
           /\ Leaves(c, "filtered")
           /\ UNCHANGED <<pick, ended, served>>
        \/ /\ i # 0
           /\ pc[c] = "peer" \/ Pool[i].h3
           /\ pick' = [pick EXCEPT ![c] = i]
           /\ Leaves(c, IF pc[c] = "peer" THEN "connect" ELSE "forward")
           /\ UNCHANGED <<ended, served>>

Selecting(c) == pc[c] \in {"filter", "peer"}
Mine(c) == balancers[balancer[c]]
Offered(c) == Backends[Mine(c).ticket + 1]

TakeTicket(c) ==
    balancers' = [balancers EXCEPT ![balancer[c]].ticket = NextTicket(Mine(c))]

\* select: one look at the backend whose turn it is; another selection may
\* look in between.
Look(c) ==
    /\ Selecting(c)
    /\ looks[c] < MaxLooks
    /\ TakeTicket(c)
    /\ \/ /\ Offered(c) \in Mine(c).healthy \ seen[c]
          /\ Select(c, Offered(c))
       \/ /\ Offered(c) \notin Mine(c).healthy \ seen[c]
          /\ looks' = [looks EXCEPT ![c] = @ + 1]
          /\ seen' = [seen EXCEPT ![c] = @ \cup {Offered(c)}]
          /\ UNCHANGED <<pc, balancer, pick, ended, served>>
    /\ UNCHANGED <<setup, up>>

\* Mistake to catch: an exhausted selection starts over.
ExhaustedStartsOver(c) ==
    /\ Selecting(c)
    /\ looks[c] = MaxLooks
    /\ TakeTicket(c)
    /\ looks' = [looks EXCEPT ![c] = 0]
    /\ UNCHANGED <<setup, up, pc, balancer, seen, pick, ended, served>>

\* "no healthy upstream" (503), after taking one more number.
Exhausted(c) ==
    /\ Selecting(c)
    /\ looks[c] = MaxLooks
    /\ TakeTicket(c)
    /\ Leaves(c, "idle")
    /\ ended' = "unavailable"
    /\ UNCHANGED <<setup, up, pick, served>>

\* The upstream is dialed and answers, or it does not (502).  One for HTTP/3 that
\* upstream_peer selected is dialed as any other, which it may refuse.
Dial(t, i) ==
    \/ /\ Resolved[Pool[i].address] \cap up[t] # {}
       /\ ended' = "served" /\ served' = i
    \/ /\ Resolved[Pool[i].address] \cap up[t] = {} \/ (t = "tcp" /\ Pool[i].h3)
       /\ ended' = "bad_gateway" /\ UNCHANGED served

Dialing(c) == pc[c] \in {"forward", "connect"}

\* http3::forward, or the connection to the peer; the context goes with the request.
Connect(c) ==
    /\ Dialing(c)
    /\ pc' = [pc EXCEPT ![c] = "idle"]
    /\ pick' = [pick EXCEPT ![c] = 0]
    /\ Dial(IF pc[c] = "forward" THEN "quic" ELSE "tcp", pick[c])
    /\ UNCHANGED <<setup, up, balancers, balancer, looks, seen>>

Request(c) == EnterPeer(c) \/ Look(c) \/ Exhausted(c) \/ Connect(c)

Next ==
    \/ \E c \in Clients : Arrive(c) \/ Request(c)
    \/ \E t \in Transports, s \in Sockets : Fail(t, s) \/ Recover(t, s)
    \/ \E n \in DOMAIN balancers, s \in Sockets : Check(n, s)
    \/ Reload

\* A request runs until it waits for the network, where it does not wait for
\* ever (a connection attempt ends), and the service, which only the balancer built
\* at startup may have, checks every backend again and again.  That clients come,
\* upstreams fail or files change is not assumed.
Fairness ==
    /\ \A c \in Clients : WF_vars(Request(c))
    /\ \A s \in Sockets : WF_vars(Check(1, s))

Spec == Init /\ [][Next]_vars /\ Fairness

-----------------------------------------------------------------------------
(* Properties *)

Balancer ==
    [ticket : 0..(Len(Backends) - 1), healthy : SUBSET Range(Backends),
     watched : BOOLEAN]

\* Type invariant; who dials has an upstream to dial.
TypeOK ==
    /\ setup \in Setups
    /\ up \in [Transports -> SUBSET Sockets]
    /\ balancers \in Seq(Balancer)
    /\ Len(balancers) \in 1..(setup.reloads + 1)
    /\ pc \in [Clients -> {"idle", "filter", "filtered", "peer", "forward", "connect"}]
    /\ balancer \in [Clients -> 1..Len(balancers)]
    /\ looks \in [Clients -> 0..MaxLooks]
    /\ seen \in [Clients -> SUBSET Range(Backends)]
    /\ pick \in [Clients -> 0..Len(Pool)]
    /\ \A c \in Clients : Dialing(c) <=> pick[c] # 0
    /\ ended \in {"none", "served", "bad_gateway", "unavailable", "not_configured"}
    /\ served \in 0..Len(Pool)

Alone == \E c \in Clients : setup.clients = {c}

\* A request is refused for a cause.  "no healthy upstream" is the truth when nobody
\* else selects: each backend was looked at and found unhealthy (selections that
\* interleave may take each other's numbers).  And what was selected is found in the
\* configuration again, also when an address is listed twice or out of order, unless
\* the pool was configured by a host name.
RefusedForCause ==
    /\ \A c \in Clients :
          Alone /\ Selecting(c) /\ looks[c] = MaxLooks => seen[c] = Range(Backends)
    /\ (\A i \in DOMAIN Pool : Pool[i].address \in Sockets) =>
          ended # "not_configured"

\* No request stays in selection: the looks are bounded even when every backend
\* is unhealthy.
EveryRequestEnds == \A c \in Clients : pc[c] # "idle" ~> pc[c] = "idle"

\* Traffic never dries up.
Busy == []<>(\E c \in Clients : pc[c] # "idle")

\* Load balancing of what comes one after the other: once all backends are up for
\* good, every socket address of the pool serves again and again, the ones that had
\* been down included.
EveryoneServes ==
    Alone /\ Busy /\ <>[](\A t \in Transports : up[t] = Sockets) =>
        \A a \in Sockets :
            (\E i \in DOMAIN Pool : Pool[i].address = a) =>
                []<>(served # 0 /\ Pool[served].address = a)

\* So it is for plain requests when their two selections meet an odd number of
\* backends, before and after a reload.  Of WebSocket requests nothing is asked here:
\* they are meant to stay where they are, see Sticky.
EveryoneServesUnlessEven ==
    setup.kinds = {"http"} /\ Len(Backends) % 2 = 1 => EveryoneServes

\* "Sticky-ish pick for WebSocket: hash client path so reconnects prefer a stable
\* instance when multiple upstreams are healthy": where nothing ever fails, a client
\* whose WebSocket requests are for one path gets the instance it had.
Sticky ==
    [][Alone /\ setup.kinds = {"websocket"} /\ setup.failing = {} /\ served # 0 =>
          served' = served]_vars

Dials(c, s) ==
    Dialing(c) /\ s \in Resolved[Pool[pick[c]].address]

\* Health checking: an upstream that does not accept connections for good is not
\* dialed for ever, nor is HTTP/3 forwarded to it.
DeadAvoided ==
    HealthCheck =>
        \A s \in Sockets : <>[](s \notin up["tcp"]) =>
            <>[](\A c \in Clients : ~Dials(c, s))

\* So it is until the first reload, however many clients share the health map.
DeadAvoidedBeforeReload == [](Len(balancers) = 1) => DeadAvoided
=============================================================================
