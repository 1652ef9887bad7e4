--------------------------- MODULE MCUpstreamPool ---------------------------
(***************************************************************************)
(* Small pools: two or three socket addresses, listed out of order, and a  *)
(* pool with HTTP/3, a host name and an address listed twice.              *)
(***************************************************************************)
EXTENDS UpstreamPool

MCResolved == [a \in {"a", "b", "c", "name"} |-> IF a = "name" THEN {"b"} ELSE {a}]

Plain(address) == [address |-> address, h3 |-> FALSE]
Http3(address) == [address |-> address, h3 |-> TRUE]

\* What a pool resolves to, as the BTreeSet of try_from_iter keeps it.
Sorted(pool) ==
    SelectSeq(<<"a", "b", "c">>,
              LAMBDA s : \E u \in Range(pool) : s \in MCResolved[u.address])

Two == <<Plain("b"), Plain("a")>>
Three == <<Plain("b"), Plain("c"), Plain("a"), Plain("c")>>
Mixed == <<Http3("c"), Plain("a"), Plain("name")>>

\* Plain requests one after the other to three upstreams, one listed twice.
Sequential ==
    [pool |-> Three, backends |-> Sorted(Three),
     clients |-> {"c1"}, kinds |-> {"http"},
     failing |-> {"tcp"} \X {"a", "b", "c"}, reloads |-> 1]
\* Two clients with plain and WebSocket requests and a mixed pool.
Concurrent ==
    [pool |-> Mixed, backends |-> Sorted(Mixed),
     clients |-> {"c1", "c2"}, kinds |-> {"http", "websocket"},
     failing |-> {<<"tcp", "c">>, <<"quic", "c">>}, reloads |-> 0]
\* WebSocket requests and an even pool, across a reload.
WebSockets ==
    [pool |-> Two, backends |-> Sorted(Two),
     clients |-> {"c1"}, kinds |-> {"websocket"},
     failing |-> {"tcp"} \X {"a", "b"}, reloads |-> 1]
\* Plain requests to two upstreams that do not fail.
Pair ==
    [pool |-> Two, backends |-> Sorted(Two),
     clients |-> {"c1"}, kinds |-> {"http"},
     failing |-> {}, reloads |-> 0]

\* WebSocket requests one after the other to two upstreams that do not fail.
Reconnects ==
    [pool |-> Two, backends |-> Sorted(Two),
     clients |-> {"c1"}, kinds |-> {"websocket"},
     failing |-> {}, reloads |-> 0]

AllSetups == {Sequential, Concurrent, WebSockets, Pair}
ReloadedOnly == {WebSockets}
PairOnly == {Pair}
ReconnectsOnly == {Reconnects}
=============================================================================
