--------------------------- MODULE UpstreamPoolProofs ---------------------------
(***************************************************************************)
(* Proofs about UpstreamPool, for any number of clients, upstreams and     *)
(* reloads, and for pools of any size a selection has looks for.           *)
(***************************************************************************)
EXTENDS UpstreamPool, SequenceTheorems, WellFoundedInduction, TLAPS

-----------------------------------------------------------------------------
(* Lists and counters. *)

\* What was assumed of a setup, one fact at a time.
LEMMA Pools ==
    \A x \in Setups :
        /\ x.pool \in Seq([address : Addresses, h3 : BOOLEAN])
        /\ x.backends \in Seq(Sockets)
        /\ Len(x.pool) \in Nat /\ Len(x.backends) \in Nat \ {0}
        /\ Range(x.backends) \subseteq Sockets
        /\ Range(x.backends) = UNION {Resolved[u.address] : u \in Range(x.pool)}
        /\ x.clients \subseteq Clients /\ x.reloads \in Nat
<1> SUFFICES ASSUME NEW x \in Setups
             PROVE  /\ x.pool \in Seq([address : Addresses, h3 : BOOLEAN])
                    /\ x.backends \in Seq(Sockets)
                    /\ Len(x.pool) \in Nat /\ Len(x.backends) \in Nat \ {0}
                    /\ Range(x.backends) \subseteq Sockets
                    /\ Range(x.backends) = UNION {Resolved[u.address] : u \in Range(x.pool)}
                    /\ x.clients \subseteq Clients /\ x.reloads \in Nat
  OBVIOUS
<1>1. x \in Setup /\ x.pool # <<>>
  BY PoolAssumption
<1>2. Range(x.backends) = UNION {Resolved[u.address] : u \in Range(x.pool)}
  BY PoolAssumption
<1>3. /\ x.pool \in Seq([address : Addresses, h3 : BOOLEAN])
      /\ x.backends \in Seq(Sockets) /\ x.clients \subseteq Clients /\ x.reloads \in Nat
  BY <1>1 DEF Setup
<1>4. Len(x.pool) \in Nat /\ Len(x.backends) \in Nat
  BY <1>3, LenProperties
<1>5. 1 \in DOMAIN x.pool
  BY <1>1, <1>3, <1>4, LenProperties, EmptySeq
<1>6. x.pool[1] \in Range(x.pool) /\ x.pool[1].address \in Addresses
  <2>1. x.pool[1] \in Range(x.pool)
    BY <1>5 DEF Range
  <2>2. x.pool[1] \in [address : Addresses, h3 : BOOLEAN]
    BY <1>3, <1>4, <1>5, ElementOfSeq, LenProperties
  <2>3. QED
    BY <2>1, <2>2
<1>7. Resolved[x.pool[1].address] # {}
  BY <1>6, PoolAssumption
<1>8. Range(x.backends) # {}
  BY <1>2, <1>6, <1>7
<1>9. Len(x.backends) # 0
  BY <1>3, <1>8, LenProperties DEF Range
<1>10. Range(x.backends) \subseteq Sockets
  BY <1>3, LenProperties, ElementOfSeq DEF Range
<1>11. QED
  BY <1>2, <1>3, <1>4, <1>9, <1>10

LEMMA Least ==
    \A I : I \subseteq Nat /\ I # {} => \E m \in I : \A y \in I : m <= y
<1> SUFFICES ASSUME NEW I, I \subseteq Nat, I # {} PROVE \E m \in I : \A y \in I : m <= y
  OBVIOUS
<1> DEFINE R == OpToRel(<, Nat)
<1>1. IsWellFoundedOn(R, Nat)
  BY NatLessThanWellFounded, Zenon
<1>2. \A x, y \in Nat : x < y => <<x, y>> \in R
  BY DEF OpToRel
<1> HIDE DEF R
<1>3. PICK m \in I : \A y \in I : ~(<<y, m>> \in R)
  BY <1>1, WFMin
<1>4. ASSUME NEW y \in I PROVE m <= y
  <2>1. m \in Nat /\ y \in Nat /\ ~(y < m)
    BY <1>2, <1>3
  <2>2. QED
    BY <2>1
<1>5. QED
  BY <1>4

\* The first place of an address in the configuration, 0 if it has none.
LEMMA Configured ==
    ASSUME setup \in Setups, NEW s
    PROVE  /\ ConfiguredAs(s) \in 0..Len(Pool)
           /\ (\E i \in DOMAIN Pool : Pool[i].address = s) => ConfiguredAs(s) # 0
<1> DEFINE I == {i \in 1..Len(Pool) : Pool[i].address = s}
<1>1. ConfiguredAs(s) = IF I # {} THEN Min(I) ELSE 0
  BY DEF ConfiguredAs, SelectInSeq
<1>2. Len(Pool) \in Nat /\ DOMAIN Pool = 1..Len(Pool)
  BY Pools, LenProperties DEF Pool
<1>3. I # {} => Min(I) \in I
  <2>1. I \subseteq Nat
    BY <1>2
  <2> HIDE DEF I
  <2>2. SUFFICES ASSUME I # {} PROVE Min(I) \in I
    OBVIOUS
  <2>3. \E m \in I : \A y \in I : m <= y
    BY <2>1, <2>2, Least
  <2>4. QED
    BY <2>3 DEF Min
<1>4. (\E i \in DOMAIN Pool : Pool[i].address = s) => I # {}
  BY <1>2
<1>5. \A i \in I : i \in 1..Len(Pool)
  OBVIOUS
<1> HIDE DEF I
<1>6. QED
  BY <1>1, <1>2, <1>3, <1>4, <1>5

\* The counter goes round the pool.
LEMMA Wraps ==
    \A n \in Nat \ {0} : \A t \in 0..(n - 1) :
        (t + 1) % n = IF t + 1 = n THEN 0 ELSE t + 1
OBVIOUS

\* How many numbers were taken since the one of position p.
Since(p, t, n) == IF p < t THEN t - 1 - p ELSE t - 1 - p + n

LEMMA SinceBounds ==
    \A n \in Nat \ {0} : \A p, t \in 0..(n - 1) : Since(p, t, n) \in 0..(n - 1)
BY DEF Since

LEMMA SinceGrows ==
    \A n \in Nat \ {0} : \A p, t \in 0..(n - 1) :
        p # t => Since(p, IF t + 1 = n THEN 0 ELSE t + 1, n) = Since(p, t, n) + 1
BY DEF Since

-----------------------------------------------------------------------------
(* The invariant. *)

\* Only the clients of the setup send requests.
Quiet == \A c \in Clients : pc[c] # "idle" => c \in setup.clients

\* A selection alone with its balancer takes all numbers itself: the position whose
\* number was taken less than "looks" numbers ago is one it looked at.
Swept ==
    Alone => \A c \in Clients : Selecting(c) =>
        \A p \in 0..(Len(Backends) - 1) :
            Since(p, Mine(c).ticket, Len(Backends)) < looks[c] => Backends[p + 1] \in seen[c]

\* What the balancer selects is in the configuration.
Found ==
    (\A i \in DOMAIN Pool : Pool[i].address \in Sockets) => ended # "not_configured"

IInv == TypeOK /\ Quiet /\ Swept /\ Found

LEMMA Setting ==
    TypeOK =>
        /\ Backends \in Seq(Sockets) /\ Len(Backends) \in Nat \ {0}
        /\ Len(Pool) \in Nat /\ setup.clients \subseteq Clients /\ setup.reloads \in Nat
        /\ Len(balancers) \in Nat
        /\ DOMAIN balancers = 1..Len(balancers) /\ DOMAIN Backends = 1..Len(Backends)
BY Pools, LenProperties DEF TypeOK, Pool, Backends

LEMMA OnlyOne ==
    ASSUME Quiet, Alone, NEW c \in Clients, NEW d \in Clients, pc[c] # "idle", pc[d] # "idle"
    PROVE  c = d
BY DEF Quiet, Alone

LEMMA MineIsBalancer ==
    ASSUME TypeOK, NEW c \in Clients
    PROVE  Mine(c) \in Balancer /\ balancer[c] \in DOMAIN balancers
<1>1. balancer[c] \in 1..Len(balancers) /\ balancers \in Seq(Balancer)
  BY DEF TypeOK
<1>2. QED
  BY <1>1, ElementOfSeq, LenProperties DEF Mine

LEMMA OfferedIsBackend ==
    ASSUME TypeOK, NEW c \in Clients
    PROVE  Offered(c) \in Range(Backends)
<1>1. Mine(c).ticket \in 0..(Len(Backends) - 1)
  BY MineIsBalancer DEF Balancer
<1>2. Mine(c).ticket + 1 \in DOMAIN Backends
  BY <1>1, Setting
<1>3. QED
  BY <1>2 DEF Offered, Range

\* A new balancer is one, and offers its first backend first.
LEMMA FreshBalancer ==
    ASSUME setup \in Setups, NEW withServer \in BOOLEAN
    PROVE  NewBalancer(withServer) \in Balancer
<1>1. 0 \in 0..(Len(Backends) - 1)
  BY Pools DEF Backends
<1>2. HealthCheck \in BOOLEAN
  BY PoolAssumption
<1>3. QED
  BY <1>1, <1>2 DEF NewBalancer, Balancer

LEMMA InitIInv == Init => IInv
<1> SUFFICES ASSUME Init PROVE IInv
  OBVIOUS
<1>1. setup \in Setups /\ HealthCheck \in BOOLEAN /\ MaxLooks \in Nat \ {0}
  BY PoolAssumption DEF Init
<1>2. NewBalancer(TRUE) \in Balancer
  BY <1>1, FreshBalancer
<1>3. balancers \in Seq(Balancer) /\ Len(balancers) = 1
  <2>1. \A b \in Balancer : <<b>> \in Seq(Balancer) /\ Len(<<b>>) = 1
    OBVIOUS
  <2>2. balancers = <<NewBalancer(TRUE)>>
    BY DEF Init
  <2>3. QED
    BY <1>2, <2>1, <2>2, Zenon
<1>4. Len(Pool) \in Nat /\ setup.reloads \in Nat
  BY <1>1, Pools DEF Pool
<1>5. TypeOK
  <2>1. /\ Len(balancers) \in 1..(setup.reloads + 1) /\ 1 \in 1..Len(balancers)
        /\ 0 \in 0..MaxLooks /\ 0 \in 0..Len(Pool)
    BY <1>1, <1>3, <1>4
  <2>2. /\ pc \in [Clients -> {"idle", "filter", "filtered", "peer", "forward", "connect"}]
        /\ balancer \in [Clients -> 1..Len(balancers)] /\ looks \in [Clients -> 0..MaxLooks]
        /\ seen \in [Clients -> SUBSET Range(Backends)] /\ pick \in [Clients -> 0..Len(Pool)]
    BY <2>1 DEF Init
  <2>3. \A c \in Clients : Dialing(c) <=> pick[c] # 0
    BY DEF Init, Dialing
  <2>4. QED
    BY <1>1, <1>3, <2>1, <2>2, <2>3 DEF Init, TypeOK
<1>6. Quiet /\ Swept /\ Found
  BY DEF Init, Quiet, Swept, Found, Selecting
<1>7. QED
  BY <1>5, <1>6 DEF IInv

-----------------------------------------------------------------------------
(* Surroundings. *)

\* A step between the requests takes no number, and adds balancers at the end.
LEMMA Between ==
    ASSUME IInv, up' \in [Transports -> SUBSET Sockets], balancers' \in Seq(Balancer),
           Len(balancers') \in Len(balancers)..(setup.reloads + 1),
           \A k \in 1..Len(balancers) : balancers'[k].ticket = balancers[k].ticket,
           UNCHANGED <<setup, pc, balancer, looks, seen, pick, ended, served>>
    PROVE  IInv'
<1>1. Balancer' = Balancer /\ Backends' = Backends /\ Pool' = Pool
  BY DEF Balancer, Backends, Pool
<1>2. TypeOK
  BY DEF IInv
<1>3. /\ Len(balancers) \in Nat /\ Len(balancers) \in 1..(setup.reloads + 1)
      /\ setup.reloads \in Nat
  BY <1>2, Setting DEF TypeOK
<1>4. Len(balancers') \in 1..(setup.reloads + 1)
  BY <1>3
<1>5. \A k \in 1..Len(balancers) : k \in 1..Len(balancers')
  BY <1>3
<1>6. balancer' \in [Clients -> 1..Len(balancers')]
  BY <1>2, <1>5 DEF TypeOK
<1>7. TypeOK'
  BY <1>1, <1>2, <1>4, <1>6 DEF TypeOK, Dialing
<1>8. \A c \in Clients : Mine(c)'.ticket = Mine(c).ticket
  BY <1>2 DEF TypeOK, Mine
<1>9. Swept'
  BY <1>1, <1>8 DEF IInv, Swept, Alone, Selecting
<1>10. Quiet' /\ Found'
  BY <1>1 DEF IInv, Quiet, Found
<1>11. QED
  BY <1>7, <1>9, <1>10 DEF IInv

LEMMA UpStep ==
    ASSUME IInv, NEW t \in Transports, NEW s \in Sockets, Fail(t, s) \/ Recover(t, s)
    PROVE  IInv'
<1>1. /\ up' \in [Transports -> SUBSET Sockets]
      /\ UNCHANGED <<setup, balancers, pc, balancer, looks, seen, pick, ended, served>>
  BY DEF IInv, TypeOK, Fail, Recover
<1>2. /\ balancers \in Seq(Balancer) /\ Len(balancers) \in Len(balancers)..(setup.reloads + 1)
      /\ \A k \in 1..Len(balancers) : balancers[k].ticket = balancers[k].ticket
  BY Setting DEF IInv, TypeOK
<1>3. QED
  BY <1>1, <1>2, Between

\* What changes one balancer leaves a list of as many balancers.
LEMMA OneBalancer ==
    ASSUME TypeOK, NEW n \in 1..Len(balancers), NEW b \in Balancer,
           balancers' = [balancers EXCEPT ![n] = b]
    PROVE  /\ balancers' \in Seq(Balancer) /\ Len(balancers') = Len(balancers)
           /\ balancers'[n] = b
           /\ \A k \in 1..Len(balancers) : k # n => balancers'[k] = balancers[k]
<1>1. balancers \in Seq(Balancer)
  BY DEF TypeOK
<1>2. [balancers EXCEPT ![n] = b] \in Seq(Balancer)
  BY <1>1, ExceptSeq
<1>3. Len(balancers') = Len(balancers)
  BY <1>1, ExceptSeq
<1>4. n \in DOMAIN balancers /\ DOMAIN balancers = 1..Len(balancers)
  BY <1>1, LenProperties
<1>5. QED
  BY <1>2, <1>3, <1>4

LEMMA Updates ==
    \A b \in Balancer :
        /\ \A t \in 0..(Len(Backends) - 1) :
              [b EXCEPT !.ticket = t] \in Balancer /\ [b EXCEPT !.ticket = t].ticket = t
        /\ \A h \in SUBSET Range(Backends) :
              [b EXCEPT !.healthy = h] \in Balancer /\ [b EXCEPT !.healthy = h].ticket = b.ticket
BY DEF Balancer

LEMMA CheckStep ==
    ASSUME IInv, NEW n \in DOMAIN balancers, NEW s \in Sockets, Check(n, s)
    PROVE  IInv'
<1>1. TypeOK /\ n \in 1..Len(balancers) /\ balancers[n] \in Balancer
  BY Setting, ElementOfSeq DEF IInv, TypeOK
<1> DEFINE h == Probe(balancers[n].healthy, s)
           b == [balancers[n] EXCEPT !.healthy = h]
<1>2. h \in SUBSET Range(Backends)
  BY <1>1 DEF Check, Probe, Balancer
<1>3. b \in Balancer /\ b.ticket = balancers[n].ticket
  <2> HIDE DEF h
  <2>1. QED
    BY <1>1, <1>2, Updates, Zenon
<1>4. /\ balancers' = [balancers EXCEPT ![n] = b]
      /\ UNCHANGED <<setup, up, pc, balancer, looks, seen, pick, ended, served>>
  BY DEF Check
<1> HIDE DEF b
<1>5. /\ balancers' \in Seq(Balancer) /\ Len(balancers') = Len(balancers)
      /\ balancers'[n] = b
      /\ \A k \in 1..Len(balancers) : k # n => balancers'[k] = balancers[k]
  BY <1>1, <1>3, <1>4, OneBalancer
<1>6. up' \in [Transports -> SUBSET Sockets] /\ Len(balancers') \in Len(balancers)..(setup.reloads + 1)
  BY <1>1, <1>4, <1>5, Setting DEF TypeOK
<1>7. \A k \in 1..Len(balancers) : balancers'[k].ticket = balancers[k].ticket
  BY <1>3, <1>5
<1>8. QED
  BY <1>4, <1>5, <1>6, <1>7, Between

LEMMA ReloadStep == ASSUME IInv, Reload PROVE IInv'
<1>1. TypeOK /\ balancers \in Seq(Balancer) /\ setup \in Setups
  BY DEF IInv, TypeOK
<1>2. NewBalancer(FALSE) \in Balancer
  BY <1>1, FreshBalancer
<1>3. /\ balancers' = Append(balancers, NewBalancer(FALSE)) /\ Len(balancers) <= setup.reloads
      /\ UNCHANGED <<setup, up, pc, balancer, looks, seen, pick, ended, served>>
  BY DEF Reload
<1>4. /\ balancers' \in Seq(Balancer) /\ Len(balancers') = Len(balancers) + 1
      /\ \A k \in 1..Len(balancers) : balancers'[k] = balancers[k]
  <2> DEFINE b == NewBalancer(FALSE)
  <2>1. b \in Balancer /\ balancers' = Append(balancers, b)
    BY <1>2, <1>3
  <2> HIDE DEF b
  <2>2. QED
    BY <1>1, <2>1, AppendProperties
<1>5. up' \in [Transports -> SUBSET Sockets] /\ Len(balancers') \in Len(balancers)..(setup.reloads + 1)
  BY <1>1, <1>3, <1>4, Setting DEF TypeOK
<1>6. \A k \in 1..Len(balancers) : balancers'[k].ticket = balancers[k].ticket
  BY <1>4
<1>7. QED
  BY <1>3, <1>4, <1>5, <1>6, Between

-----------------------------------------------------------------------------
(* A request. *)

Phases == {"idle", "filter", "filtered", "peer", "forward", "connect"}

\* A request that begins or ends a selection starts to count anew.
LEMMA Moves ==
    ASSUME TypeOK, NEW c \in Clients, NEW phase \in Phases, NEW n \in 1..Len(balancers),
           pc' = [pc EXCEPT ![c] = phase], balancer' = [balancer EXCEPT ![c] = n],
           looks' = [looks EXCEPT ![c] = 0], seen' = [seen EXCEPT ![c] = {}]
    PROVE  /\ pc' \in [Clients -> Phases] /\ balancer' \in [Clients -> 1..Len(balancers)]
           /\ looks' \in [Clients -> 0..MaxLooks] /\ seen' \in [Clients -> SUBSET Range(Backends)]
           /\ pc'[c] = phase /\ looks'[c] = 0
           /\ \A d \in Clients \ {c} : pc'[d] = pc[d]
<1>1. 0 \in 0..MaxLooks
  BY PoolAssumption
<1>2. /\ pc \in [Clients -> Phases] /\ balancer \in [Clients -> 1..Len(balancers)]
      /\ looks \in [Clients -> 0..MaxLooks] /\ seen \in [Clients -> SUBSET Range(Backends)]
  BY DEF TypeOK, Phases
<1>3. QED
  BY <1>1, <1>2

\* A selection that has not looked has nothing to have seen, and one of the others
\* there is not if the client is alone.
LEMMA NobodyElse ==
    ASSUME Quiet, NEW c \in Clients, c \in setup.clients, setup' = setup,
           \A d \in Clients \ {c} : pc'[d] = pc[d],
           Selecting(c)' =>
               /\ looks'[c] = 0 /\ Mine(c)'.ticket \in 0..(Len(Backends) - 1)
               /\ Len(Backends) \in Nat \ {0}
    PROVE  Swept'
<1> SUFFICES ASSUME Alone', NEW d \in Clients, Selecting(d)', NEW p \in 0..(Len(Backends') - 1)
             PROVE  ~(Since(p, Mine(d)'.ticket, Len(Backends')) < looks'[d])
  BY DEF Swept
<1>1. Alone /\ Backends' = Backends
  BY DEF Alone, Backends
<1>2. d = c
  <2>1. SUFFICES ASSUME d # c PROVE FALSE
    OBVIOUS
  <2>2. pc[d] # "idle"
    BY <2>1 DEF Selecting
  <2>3. QED
    BY <1>1, <2>1, <2>2 DEF Quiet, Alone
<1>3. Since(p, Mine(c)'.ticket, Len(Backends)) \in 0..(Len(Backends) - 1) /\ looks'[c] = 0
  BY <1>1, <1>2, SinceBounds
<1>4. ~(Since(p, Mine(c)'.ticket, Len(Backends)) < looks'[c])
  BY <1>3
<1>5. QED
  BY <1>1, <1>2, <1>4

LEMMA MineIsBalancerNext ==
    ASSUME TypeOK', NEW c \in Clients
    PROVE  Mine(c)' \in Balancer'
<1>1. balancer'[c] \in 1..Len(balancers') /\ balancers' \in Seq(Balancer')
  BY DEF TypeOK
<1>2. QED
  BY <1>1, ElementOfSeq, LenProperties DEF Mine

LEMMA ArriveStep == ASSUME IInv, NEW c \in Clients, Arrive(c) PROVE IInv'
<1>1. /\ c \in setup.clients /\ pc[c] = "idle" /\ TypeOK /\ Quiet
      /\ UNCHANGED <<setup, up, balancers, pick, ended, served>>
  BY DEF IInv, Arrive
<1>2. Len(balancers) \in 1..Len(balancers) /\ Len(Backends) \in Nat \ {0}
  BY <1>1, Setting DEF TypeOK
<1>3. /\ pc' \in [Clients -> Phases] /\ balancer' \in [Clients -> 1..Len(balancers)]
      /\ looks' \in [Clients -> 0..MaxLooks] /\ seen' \in [Clients -> SUBSET Range(Backends)]
      /\ pc'[c] \in {"filter", "filtered"} /\ (pc'[c] = "filter" => looks'[c] = 0)
      /\ \A d \in Clients \ {c} : pc'[d] = pc[d]
  <2>1. CASE Selects(c, "filter")
    <3>1. /\ pc' = [pc EXCEPT ![c] = "filter"] /\ balancer' = [balancer EXCEPT ![c] = Len(balancers)]
          /\ looks' = [looks EXCEPT ![c] = 0] /\ seen' = [seen EXCEPT ![c] = {}]
          /\ "filter" \in Phases
      BY <2>1 DEF Selects, Phases
    <3>2. QED
      BY <1>1, <1>2, <3>1, Moves
  <2>2. CASE pc' = [pc EXCEPT ![c] = "filtered"] /\ UNCHANGED <<balancer, looks, seen>>
    BY <1>1, <2>2 DEF TypeOK, Phases
  <2>3. QED
    BY <2>1, <2>2 DEF Arrive
<1>4. \A d \in Clients : Dialing(d)' <=> Dialing(d)
  BY <1>1, <1>3 DEF Dialing
<1>5. Balancer' = Balancer /\ Backends' = Backends /\ Pool' = Pool
  BY <1>1 DEF Balancer, Backends, Pool
<1>6. TypeOK'
  BY <1>1, <1>3, <1>4, <1>5 DEF TypeOK, Phases
<1>7. Quiet'
  BY <1>1, <1>3 DEF Quiet
<1>8. Swept'
  <2>1. Mine(c)'.ticket \in 0..(Len(Backends) - 1)
    BY <1>1, <1>5, <1>6, MineIsBalancerNext DEF Balancer
  <2>2. QED
    BY <1>1, <1>2, <1>3, <2>1, NobodyElse DEF Selecting
<1>9. Found'
  BY <1>1, <1>5 DEF IInv, Found
<1>10. QED
  BY <1>6, <1>7, <1>8, <1>9 DEF IInv

LEMMA EnterPeerStep == ASSUME IInv, NEW c \in Clients, EnterPeer(c) PROVE IInv'
<1>1. /\ pc[c] = "filtered" /\ TypeOK /\ Quiet /\ c \in setup.clients
      /\ UNCHANGED <<setup, up, balancers, pick, ended, served>>
  BY DEF IInv, EnterPeer, Quiet
<1>2. Len(balancers) \in 1..Len(balancers) /\ Len(Backends) \in Nat \ {0}
  BY <1>1, Setting DEF TypeOK
<1>3. /\ pc' = [pc EXCEPT ![c] = "peer"] /\ balancer' = [balancer EXCEPT ![c] = Len(balancers)]
      /\ looks' = [looks EXCEPT ![c] = 0] /\ seen' = [seen EXCEPT ![c] = {}]
      /\ "peer" \in Phases
  BY DEF EnterPeer, Selects, Phases
<1>4. /\ pc' \in [Clients -> Phases] /\ balancer' \in [Clients -> 1..Len(balancers)]
      /\ looks' \in [Clients -> 0..MaxLooks] /\ seen' \in [Clients -> SUBSET Range(Backends)]
      /\ pc'[c] = "peer" /\ looks'[c] = 0
      /\ \A d \in Clients \ {c} : pc'[d] = pc[d]
  BY <1>1, <1>2, <1>3, Moves
<1>5. \A d \in Clients : Dialing(d)' <=> Dialing(d)
  BY <1>1, <1>4 DEF Dialing
<1>6. Balancer' = Balancer /\ Backends' = Backends /\ Pool' = Pool
  BY <1>1 DEF Balancer, Backends, Pool
<1>7. TypeOK'
  BY <1>1, <1>4, <1>5, <1>6 DEF TypeOK, Phases
<1>8. Quiet'
  BY <1>1, <1>4 DEF Quiet
<1>9. Swept'
  <2>1. Mine(c)'.ticket \in 0..(Len(Backends) - 1)
    BY <1>1, <1>6, <1>7, MineIsBalancerNext DEF Balancer
  <2>2. QED
    BY <1>1, <1>2, <1>4, <2>1, NobodyElse
<1>10. Found'
  BY <1>1, <1>6 DEF IInv, Found
<1>11. QED
  BY <1>7, <1>8, <1>9, <1>10 DEF IInv

\* A connection attempt ends as a success or as a failure of an upstream there is.
LEMMA Dialed ==
    ASSUME NEW t, NEW i \in 1..Len(Pool), Dial(t, i), served \in 0..Len(Pool), Len(Pool) \in Nat
    PROVE  ended' \in {"served", "bad_gateway"} /\ served' \in 0..Len(Pool)
BY DEF Dial

LEMMA ConnectStep == ASSUME IInv, NEW c \in Clients, Connect(c) PROVE IInv'
<1>1. /\ Dialing(c) /\ pc[c] # "idle" /\ TypeOK /\ Quiet /\ c \in setup.clients
      /\ pc' = [pc EXCEPT ![c] = "idle"] /\ pick' = [pick EXCEPT ![c] = 0]
      /\ Dial(IF pc[c] = "forward" THEN "quic" ELSE "tcp", pick[c])
      /\ UNCHANGED <<setup, up, balancers, balancer, looks, seen>>
  BY DEF IInv, Connect, Dialing, Quiet
<1>2. /\ pc \in [Clients -> Phases] /\ pick \in [Clients -> 0..Len(Pool)] /\ Len(Pool) \in Nat
      /\ served \in 0..Len(Pool) /\ pick[c] # 0
  BY <1>1, Setting DEF TypeOK, Phases
<1>3. pick[c] \in 1..Len(Pool)
  BY <1>2
<1>4. ended' \in {"served", "bad_gateway"} /\ served' \in 0..Len(Pool)
  BY <1>1, <1>2, <1>3, Dialed
<1>5. /\ pc' \in [Clients -> Phases] /\ pick' \in [Clients -> 0..Len(Pool)]
      /\ pc'[c] = "idle" /\ pick'[c] = 0
      /\ \A d \in Clients \ {c} : pc'[d] = pc[d] /\ pick'[d] = pick[d]
  <2>1. "idle" \in Phases /\ 0 \in 0..Len(Pool)
    BY <1>2 DEF Phases
  <2>2. QED
    BY <1>1, <1>2, <2>1
<1>6. \A d \in Clients : Dialing(d)' <=> pick'[d] # 0
  BY <1>1, <1>5 DEF TypeOK, Dialing
<1>7. Balancer' = Balancer /\ Backends' = Backends /\ Pool' = Pool
  BY <1>1 DEF Balancer, Backends, Pool
<1>8. TypeOK'
  BY <1>1, <1>4, <1>5, <1>6, <1>7 DEF TypeOK, Phases
<1>9. Quiet'
  BY <1>1, <1>5 DEF Quiet
<1>10. Swept'
  BY <1>1, <1>5, NobodyElse DEF Selecting
<1>11. Found'
  BY <1>4 DEF Found
<1>12. QED
  BY <1>8, <1>9, <1>10, <1>11 DEF IInv

-----------------------------------------------------------------------------
(* A selection. *)

\* Taking a number: the balancer stays what it is, and its counter goes on by one.
LEMMA Taken ==
    ASSUME TypeOK, NEW c \in Clients, TakeTicket(c)
    PROVE  /\ balancers' \in Seq(Balancer) /\ Len(balancers') = Len(balancers)
           /\ balancers'[balancer[c]].ticket =
                 IF Mine(c).ticket + 1 = Len(Backends) THEN 0 ELSE Mine(c).ticket + 1
           /\ Mine(c).ticket \in 0..(Len(Backends) - 1)
<1>1. Mine(c) \in Balancer /\ balancer[c] \in 1..Len(balancers) /\ Len(Backends) \in Nat \ {0}
  BY MineIsBalancer, Setting
<1>2. Mine(c).ticket \in 0..(Len(Backends) - 1)
  BY <1>1 DEF Balancer
<1> DEFINE t == NextTicket(Mine(c))
           b == [Mine(c) EXCEPT !.ticket = t]
<1>3. t = IF Mine(c).ticket + 1 = Len(Backends) THEN 0 ELSE Mine(c).ticket + 1
  BY <1>1, <1>2, Wraps DEF NextTicket
<1>4. t \in 0..(Len(Backends) - 1)
  BY <1>1, <1>2, <1>3
<1>5. balancers' = [balancers EXCEPT ![balancer[c]] = b]
  BY DEF TakeTicket, Mine
<1> HIDE DEF t
<1>6. b \in Balancer /\ b.ticket = t
  BY <1>1, <1>4, Updates, Zenon
<1> HIDE DEF b
<1>7. /\ balancers' \in Seq(Balancer) /\ Len(balancers') = Len(balancers)
      /\ balancers'[balancer[c]] = b
  BY <1>1, <1>5, <1>6, OneBalancer
<1>8. QED
  BY <1>2, <1>3, <1>6, <1>7

\* A selection that ends, with or without an upstream.
LEMMA EndsStep ==
    ASSUME IInv, NEW c \in Clients, Selecting(c), TakeTicket(c),
           NEW phase \in {"idle", "filtered", "forward", "connect"}, Leaves(c, phase),
           pick' \in [Clients -> 0..Len(Pool)],
           pick'[c] # 0 <=> phase \in {"forward", "connect"},
           \A d \in Clients \ {c} : pick'[d] = pick[d],
           ended' \in {ended, "served", "bad_gateway", "unavailable", "not_configured"},
           ended' = "not_configured" => ended = "not_configured" \/
               ~(\A i \in DOMAIN Pool : Pool[i].address \in Sockets),
           served' \in 0..Len(Pool), UNCHANGED <<setup, up>>
    PROVE  IInv'
<1>1. TypeOK /\ Quiet /\ pc[c] # "idle"
  BY DEF IInv, Selecting
<1>2. c \in setup.clients
  BY <1>1 DEF Quiet
<1>3. /\ pc' = [pc EXCEPT ![c] = phase] /\ balancer' = [balancer EXCEPT ![c] = 1]
      /\ looks' = [looks EXCEPT ![c] = 0] /\ seen' = [seen EXCEPT ![c] = {}]
      /\ phase \in Phases
  BY DEF Leaves, Phases
<1>4. 1 \in 1..Len(balancers)
  BY <1>1, Setting DEF TypeOK
<1>5. /\ pc' \in [Clients -> Phases] /\ balancer' \in [Clients -> 1..Len(balancers)]
      /\ looks' \in [Clients -> 0..MaxLooks] /\ seen' \in [Clients -> SUBSET Range(Backends)]
      /\ pc'[c] = phase /\ looks'[c] = 0
      /\ \A d \in Clients \ {c} : pc'[d] = pc[d]
  BY <1>1, <1>3, <1>4, Moves
<1>6. balancers' \in Seq(Balancer) /\ Len(balancers') = Len(balancers)
  BY <1>1, Taken
<1>7. \A d \in Clients : Dialing(d)' <=> pick'[d] # 0
  BY <1>1, <1>5 DEF TypeOK, Dialing
<1>8. Balancer' = Balancer /\ Backends' = Backends /\ Pool' = Pool
  BY DEF Balancer, Backends, Pool
<1>9. TypeOK'
  BY <1>1, <1>5, <1>6, <1>7, <1>8 DEF TypeOK, Phases
<1>10. Quiet'
  BY <1>1, <1>2, <1>5 DEF Quiet
<1>11. Swept'
  BY <1>1, <1>2, <1>5, NobodyElse DEF Selecting
<1>12. Found'
  BY <1>8 DEF IInv, Found
<1>13. QED
  BY <1>9, <1>10, <1>11, <1>12 DEF IInv

\* An address that is a socket address resolves to itself: whoever resolves to the
\* one selected is configured as it.
LEMMA BackendIsConfigured ==
    ASSUME TypeOK, NEW s \in Range(Backends), \A i \in DOMAIN Pool : Pool[i].address \in Sockets
    PROVE  ConfiguredAs(s) # 0
<1>1. setup \in Setups /\ Pool = setup.pool
  BY DEF TypeOK, Pool
<1>2. PICK u \in Range(Pool) : s \in Resolved[u.address]
  BY <1>1, Pools DEF Backends
<1>3. PICK i \in DOMAIN Pool : u = Pool[i]
  BY <1>2 DEF Range
<1>4. Pool[i].address \in Addresses
  <2>1. Pool \in Seq([address : Addresses, h3 : BOOLEAN])
    BY <1>1, Pools
  <2>2. Pool[i] \in [address : Addresses, h3 : BOOLEAN]
    BY <2>1, ElementOfSeq, LenProperties
  <2>3. QED
    BY <2>2
<1>5. Resolved[Pool[i].address] = {Pool[i].address}
  BY <1>4, PoolAssumption
<1>6. Pool[i].address = s
  BY <1>2, <1>3, <1>5
<1>7. QED
  BY <1>1, <1>6, Configured

LEMMA SelectStep ==
    ASSUME IInv, NEW c \in Clients, Selecting(c), TakeTicket(c),
           NEW s \in Range(Backends), Select(c, s), UNCHANGED <<setup, up>>
    PROVE  IInv'
<1> DEFINE i == ConfiguredAs(s)
<1>1. TypeOK /\ pick \in [Clients -> 0..Len(Pool)] /\ served \in 0..Len(Pool) /\ Len(Pool) \in Nat
  BY Setting DEF IInv, TypeOK
<1>2. i \in 0..Len(Pool)
  BY <1>1, Configured DEF TypeOK
<1>3. pick[c] = 0
  BY <1>1 DEF TypeOK, Selecting, Dialing
<1>4. CASE i = 0 /\ Leaves(c, "idle") /\ ended' = "not_configured" /\ UNCHANGED <<pick, served>>
  <2>1. ~(\A k \in DOMAIN Pool : Pool[k].address \in Sockets)
    BY <1>1, <1>4, BackendIsConfigured
  <2>2. QED
    BY <1>1, <1>3, <1>4, <2>1, EndsStep
<1>6. CASE Leaves(c, "filtered") /\ UNCHANGED <<pick, ended, served>>
  BY <1>1, <1>3, <1>6, EndsStep
<1>7. ASSUME i # 0, pick' = [pick EXCEPT ![c] = i],
             Leaves(c, IF pc[c] = "peer" THEN "connect" ELSE "forward"),
             UNCHANGED <<ended, served>>
      PROVE  IInv'
  <2> DEFINE phase == IF pc[c] = "peer" THEN "connect" ELSE "forward"
  <2> HIDE DEF i
  <2>1. /\ pick' \in [Clients -> 0..Len(Pool)] /\ pick'[c] # 0
        /\ \A d \in Clients \ {c} : pick'[d] = pick[d]
    BY <1>1, <1>2, <1>7
  <2>2. phase \in {"forward", "connect"} /\ Leaves(c, phase)
    BY <1>7
  <2> HIDE DEF phase
  <2>3. QED
    BY <1>1, <1>7, <2>1, <2>2, EndsStep
<1>8. QED
  BY <1>4, <1>6, <1>7 DEF Select

LEMMA ExhaustedStep == ASSUME IInv, NEW c \in Clients, Exhausted(c) PROVE IInv'
<1>1. /\ Selecting(c) /\ TakeTicket(c) /\ Leaves(c, "idle") /\ ended' = "unavailable"
      /\ UNCHANGED <<setup, up, pick, served>>
  BY DEF Exhausted
<1>2. pick \in [Clients -> 0..Len(Pool)] /\ served \in 0..Len(Pool) /\ pick[c] = 0
  BY <1>1 DEF IInv, TypeOK, Selecting, Dialing
<1>3. QED
  BY <1>1, <1>2, EndsStep

\* One more look: the position looked at joins the ones seen, every other one is
\* one number further back.
LEMMA UnhealthyStep ==
    ASSUME IInv, NEW c \in Clients, Selecting(c), looks[c] < MaxLooks, TakeTicket(c),
           looks' = [looks EXCEPT ![c] = @ + 1],
           seen' = [seen EXCEPT ![c] = @ \cup {Offered(c)}],
           UNCHANGED <<setup, up, pc, balancer, pick, ended, served>>
    PROVE  IInv'
<1> DEFINE n == Len(Backends)
           t == Mine(c).ticket
           u == IF t + 1 = n THEN 0 ELSE t + 1
<1>1. TypeOK /\ Quiet /\ pc[c] # "idle" /\ n \in Nat \ {0}
  BY Setting DEF IInv, Selecting
<1>2. /\ balancers' \in Seq(Balancer) /\ Len(balancers') = Len(balancers)
      /\ balancers'[balancer[c]].ticket = u /\ t \in 0..(n - 1)
  BY <1>1, Taken
<1>3. /\ looks \in [Clients -> 0..MaxLooks] /\ seen \in [Clients -> SUBSET Range(Backends)]
      /\ looks[c] + 1 \in 0..MaxLooks /\ looks[c] \in Nat /\ Offered(c) \in Range(Backends)
  BY <1>1, PoolAssumption, OfferedIsBackend DEF TypeOK
<1>4. /\ looks' \in [Clients -> 0..MaxLooks] /\ seen' \in [Clients -> SUBSET Range(Backends)]
      /\ looks'[c] = looks[c] + 1 /\ seen'[c] = seen[c] \cup {Offered(c)}
  BY <1>3
<1>5. Balancer' = Balancer /\ Backends' = Backends /\ Pool' = Pool
  BY DEF Balancer, Backends, Pool
<1>6. TypeOK'
  BY <1>1, <1>2, <1>4, <1>5 DEF TypeOK, Dialing
<1>7. Swept'
  <2> SUFFICES ASSUME Alone', NEW d \in Clients, Selecting(d)', NEW p \in 0..(Len(Backends') - 1),
                      Since(p, Mine(d)'.ticket, Len(Backends')) < looks'[d]
               PROVE  Backends'[p + 1] \in seen'[d]
    BY DEF Swept
  <2>1. Alone /\ Selecting(d) /\ pc[d] # "idle" /\ p \in 0..(n - 1)
    BY <1>5 DEF Alone, Selecting
  <2>2. d = c
    BY <1>1, <2>1, OnlyOne
  <2>3. Mine(d)'.ticket = u
    BY <1>2, <2>2 DEF Mine
  <2>4. Since(p, u, n) < looks[c] + 1
    BY <1>4, <1>5, <2>2, <2>3
  <2>5. CASE p = t
    <3>1. Backends[p + 1] = Offered(c)
      BY <2>5 DEF Offered
    <3>2. QED
      BY <1>4, <1>5, <2>2, <3>1
  <2>6. CASE p # t
    <3>1. Since(p, u, n) = Since(p, t, n) + 1 /\ Since(p, t, n) \in 0..(n - 1)
      BY <1>1, <1>2, <2>1, <2>6, SinceGrows, SinceBounds
    <3>2. Since(p, t, n) < looks[c]
      BY <1>3, <2>4, <3>1
    <3>3. Backends[p + 1] \in seen[c]
      BY <2>1, <2>2, <3>2 DEF IInv, Swept
    <3>4. QED
      BY <1>4, <1>5, <2>2, <3>3
  <2>7. QED
    BY <2>5, <2>6
<1>8. Quiet' /\ Found'
  BY <1>1, <1>5 DEF IInv, Quiet, Found
<1>9. QED
  BY <1>6, <1>7, <1>8 DEF IInv

LEMMA LookStep == ASSUME IInv, NEW c \in Clients, Look(c) PROVE IInv'
<1>1. Selecting(c) /\ looks[c] < MaxLooks /\ TakeTicket(c) /\ UNCHANGED <<setup, up>>
  BY DEF Look
<1>2. Offered(c) \in Range(Backends)
  BY OfferedIsBackend DEF IInv
<1>3. CASE Select(c, Offered(c))
  BY <1>1, <1>2, <1>3, SelectStep
<1>4. CASE /\ looks' = [looks EXCEPT ![c] = @ + 1]
           /\ seen' = [seen EXCEPT ![c] = @ \cup {Offered(c)}]
           /\ UNCHANGED <<pc, balancer, pick, ended, served>>
  BY <1>1, <1>4, UnhealthyStep
<1>5. QED
  BY <1>3, <1>4 DEF Look

LEMMA NextIInv == IInv /\ [Next]_vars => IInv'
<1> SUFFICES ASSUME IInv, [Next]_vars PROVE IInv'
  OBVIOUS
<1>1. ASSUME NEW c \in Clients, Arrive(c) \/ Request(c) PROVE IInv'
  BY <1>1, ArriveStep, EnterPeerStep, LookStep, ExhaustedStep, ConnectStep DEF Request
<1>2. ASSUME NEW t \in Transports, NEW s \in Sockets, Fail(t, s) \/ Recover(t, s) PROVE IInv'
  BY <1>2, UpStep
<1>3. ASSUME NEW n \in DOMAIN balancers, NEW s \in Sockets, Check(n, s) PROVE IInv'
  BY <1>3, CheckStep
<1>4. CASE Reload
  BY <1>4, ReloadStep
<1>5. CASE UNCHANGED vars
  BY <1>5 DEF vars, IInv, TypeOK, Quiet, Swept, Found, Balancer, Backends, Pool, Alone,
              Selecting, Dialing, Mine
<1>6. QED
  BY <1>1, <1>2, <1>3, <1>4, <1>5 DEF Next

LEMMA AlwaysIInv == Spec => []IInv
BY InitIInv, NextIInv, PTL DEF Spec

-----------------------------------------------------------------------------
(* The results. *)

\* The types, the counter in its pool, the looks of a selection within their bound;
\* and who dials has an upstream to dial.
THEOREM TypeCorrect == Spec => []TypeOK
<1>1. IInv => TypeOK
  BY DEF IInv
<1>2. QED
  BY <1>1, AlwaysIInv, PTL

\* "no healthy upstream" is the truth for a client alone, whatever comes back or goes
\* down meanwhile and however often the table is loaded again; and what is selected is
\* found in the configuration.  A pool may have as many backends as a selection has
\* looks, and no more: one more would be refused unseen.
THEOREM AlwaysRefusedForCause ==
    ASSUME \A x \in Setups : Len(x.backends) <= MaxLooks
    PROVE  Spec => []RefusedForCause
<1>1. ASSUME IInv PROVE RefusedForCause
  <2>1. ASSUME NEW c \in Clients, Alone, Selecting(c), looks[c] = MaxLooks
        PROVE  seen[c] = Range(Backends)
    <3>1. TypeOK /\ Len(Backends) \in Nat \ {0} /\ MaxLooks \in Nat /\ Len(Backends) <= MaxLooks
      BY <1>1, Setting, PoolAssumption DEF IInv, TypeOK, Backends
    <3>2. Mine(c).ticket \in 0..(Len(Backends) - 1)
      BY <3>1, MineIsBalancer DEF Balancer
    <3>3. ASSUME NEW i \in DOMAIN Backends PROVE Backends[i] \in seen[c]
      <4>1. i - 1 \in 0..(Len(Backends) - 1) /\ (i - 1) + 1 = i
        BY <3>1, Setting
      <4>2. Since(i - 1, Mine(c).ticket, Len(Backends)) \in 0..(Len(Backends) - 1)
        BY <3>1, <3>2, <4>1, SinceBounds
      <4>3. Since(i - 1, Mine(c).ticket, Len(Backends)) < looks[c]
        BY <2>1, <3>1, <4>2
      <4>4. Backends[(i - 1) + 1] \in seen[c]
        BY <1>1, <2>1, <4>1, <4>3 DEF IInv, Swept
      <4>5. QED
        BY <4>1, <4>4
    <3>4. seen[c] \subseteq Range(Backends)
      BY <3>1 DEF TypeOK
    <3>5. QED
      BY <3>3, <3>4 DEF Range
  <2>2. QED
    BY <1>1, <2>1 DEF IInv, Found, RefusedForCause
<1>2. QED
  BY <1>1, AlwaysIInv, PTL
=============================================================================
