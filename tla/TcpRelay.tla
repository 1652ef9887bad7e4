------------------------------- MODULE TcpRelay -------------------------------
(***************************************************************************)
(* One connection through src/tcp_proxy.rs: the thread of relay_connection *)
(* connects, duplicates the two sockets, starts a copying thread for each  *)
(* direction and joins them, upward first.  Each copying thread owns one   *)
(* handle of either socket, so a socket is closed when both have returned, *)
(* and the end of one direction is not passed on before.                   *)
(*                                                                         *)
(* Bytes are counted, not named.                                           *)
(***************************************************************************)
EXTENDS StreamBounds

Peers == {"client", "server"}
Directions == {"up", "down"}
Source(d) == IF d = "up" THEN "client" ELSE "server"
Sink(d) == IF d = "up" THEN "server" ELSE "client"

VARIABLES main,    \* the step of relay_connection
          copy,    \* each copying thread: "off", "running", "ok", "error"
          peer,    \* "open"; "closed" sends no more; "gone" neither reads
          sent,    \* bytes each peer sent
          passed,  \* bytes each copying thread wrote
          arrived, \* bytes of each direction that reached a peer which reads
          line     \* the access line: whether it names an error, and its counts

vars == <<main, copy, peer, sent, passed, arrived, line>>

NoLine == [error |-> FALSE, up |-> 0, down |-> 0]

Init ==
    /\ main = "connect"
    /\ copy = [d \in Directions |-> "off"]
    /\ peer = [p \in Peers |-> "open"]
    /\ sent = [p \in Peers |-> 0]
    /\ passed = [d \in Directions |-> 0]
    /\ arrived = [d \in Directions |-> 0]
    /\ line = NoLine

-----------------------------------------------------------------------------
(* The peers. *)

Connected(p) == p = "client" \/ main \notin {"connect", "refused"}

Send(p) ==
    /\ peer[p] = "open" /\ Connected(p) /\ sent[p] < MaxBytes
    /\ sent' = [sent EXCEPT ![p] = @ + 1]
    /\ UNCHANGED <<main, copy, peer, passed, arrived, line>>

\* Half-close: the peer still reads.
Close(p) ==
    /\ peer[p] = "open" /\ Connected(p)
    /\ peer' = [peer EXCEPT ![p] = "closed"]
    /\ UNCHANGED <<main, copy, sent, passed, arrived, line>>

Leave(p) ==
    /\ peer[p] # "gone" /\ Connected(p)
    /\ peer' = [peer EXCEPT ![p] = "gone"]
    /\ UNCHANGED <<main, copy, sent, passed, arrived, line>>

-----------------------------------------------------------------------------
(* relay_connection *)

Log(error, up, down) == line' = [error |-> error, up |-> up, down |-> down]

\* connect_upstream tries every address; a refusal or a failing try_clone drops
\* the sockets there are.
Connect ==
    /\ main = "connect"
    /\ \/ main' = "clone" /\ UNCHANGED line
       \/ main' = "refused" /\ Log(TRUE, 0, 0)
    /\ UNCHANGED <<copy, peer, sent, passed, arrived>>

Clone ==
    /\ main = "clone"
    /\ \/ /\ main' = "join_up"
          /\ copy' = [d \in Directions |-> "running"]
          /\ UNCHANGED line
       \/ main' = "refused" /\ Log(TRUE, 0, 0) /\ UNCHANGED copy
    /\ UNCHANGED <<peer, sent, passed, arrived>>

\* On an error the other direction is not joined; it goes on by itself.
JoinUp ==
    /\ main = "join_up"
    /\ \/ copy["up"] = "ok" /\ main' = "join_down" /\ UNCHANGED line
       \/ copy["up"] = "error" /\ main' = "done" /\ Log(TRUE, 0, 0)
    /\ UNCHANGED <<copy, peer, sent, passed, arrived>>

JoinDown ==
    /\ main = "join_down"
    /\ main' = "done"
    /\ \/ copy["down"] = "ok" /\ Log(FALSE, passed["up"], passed["down"])
       \/ copy["down"] = "error" /\ Log(TRUE, passed["up"], 0)
    /\ UNCHANGED <<copy, peer, sent, passed, arrived>>

-----------------------------------------------------------------------------
(* io::copy of one direction. *)

Returns(d, how) == copy' = [copy EXCEPT ![d] = how]

\* Mistake to catch: a thread stops when its sink sends no more.
ForwardToOpen(d) ==
    /\ copy[d] = "running" /\ passed[d] < sent[Source(d)]
    /\ IF peer[Sink(d)] = "open"
       THEN /\ passed' = [passed EXCEPT ![d] = @ + 1]
            /\ arrived' = [arrived EXCEPT ![d] = @ + 1]
            /\ UNCHANGED copy
       ELSE Returns(d, "ok") /\ UNCHANGED <<passed, arrived>>
    /\ UNCHANGED <<main, peer, sent, line>>

\* To a peer that is gone the first write still succeeds, a later one fails.
Forward(d) ==
    /\ copy[d] = "running" /\ passed[d] < sent[Source(d)]
    /\ \/ /\ passed' = [passed EXCEPT ![d] = @ + 1]
          /\ arrived' = IF peer[Sink(d)] = "gone" THEN arrived
                        ELSE [arrived EXCEPT ![d] = @ + 1]
          /\ UNCHANGED copy
       \/ /\ peer[Sink(d)] = "gone"
          /\ Returns(d, "error")
          /\ UNCHANGED <<passed, arrived>>
    /\ UNCHANGED <<main, peer, sent, line>>

\* Mistake to catch: the end of a direction is waited for on the other.
EndOfSink(d) ==
    /\ copy[d] = "running" /\ passed[d] = sent[Source(d)]
    /\ copy[IF d = "up" THEN "down" ELSE "up"] # "running"
    /\ Returns(d, "ok")
    /\ UNCHANGED <<main, peer, sent, passed, arrived, line>>

\* The end of the stream, or a reset by a peer that is gone.
EndOfSource(d) ==
    /\ copy[d] = "running" /\ passed[d] = sent[Source(d)]
    /\ \/ peer[Source(d)] # "open" /\ Returns(d, "ok")
       \/ peer[Source(d)] = "gone" /\ Returns(d, "error")
    /\ UNCHANGED <<main, peer, sent, passed, arrived, line>>

-----------------------------------------------------------------------------
Main == Connect \/ Clone \/ JoinUp \/ JoinDown
Copying(d) == Forward(d) \/ EndOfSource(d)

Next ==
    \/ Main
    \/ \E d \in Directions : Copying(d)
    \/ \E p \in Peers : Send(p) \/ Close(p) \/ Leave(p)

\* Threads are scheduled and a connection attempt ends.  What the peers do is
\* their affair.
Fairness == WF_vars(Main) /\ \A d \in Directions : WF_vars(Copying(d))

Spec == Init /\ [][Next]_vars /\ Fairness

-----------------------------------------------------------------------------
(* Properties *)

\* Type invariant; the copying threads exist behind try_clone.
TypeOK ==
    /\ main \in {"connect", "clone", "join_up", "join_down", "done", "refused"}
    /\ copy \in [Directions -> {"off", "running", "ok", "error"}]
    /\ \A d \in Directions :
          copy[d] = "off" <=> main \in {"connect", "clone", "refused"}
    /\ peer \in [Peers -> {"open", "closed", "gone"}]
    /\ sent \in [Peers -> 0..MaxBytes]
    /\ passed \in [Directions -> 0..MaxBytes] /\ arrived \in [Directions -> 0..MaxBytes]
    /\ \A d \in Directions : arrived[d] <= passed[d] /\ passed[d] <= sent[Source(d)]
    /\ line \in [error : BOOLEAN, up : 0..MaxBytes, down : 0..MaxBytes]

\* An access line without an error is written last: both peers have ended their
\* stream, and it counts every byte they sent.
LineIsFinal ==
    main = "done" /\ ~line.error =>
        /\ line.up = sent["client"] /\ line.down = sent["server"]
        /\ \A p \in Peers : peer[p] # "open"

\* A half-close loses nothing: what a peer sent reaches the other as long as that
\* one reads, whatever the other direction does.
BytesArrive ==
    \A d \in Directions, n \in 1..MaxBytes :
        main = "join_up" /\ sent[Source(d)] >= n
            ~> arrived[d] >= n \/ peer[Sink(d)] = "gone"

\* The two threads and with them both sockets are gone once neither peer sends any
\* more.  (One that waits for the end of the other's stream waits in vain: the end
\* of one direction is not passed on.)
SocketsClosed ==
    main \in {"join_up", "join_down"} /\ (\A p \in Peers : peer[p] # "open")
        ~> \A d \in Directions : copy[d] \in {"ok", "error"}
=============================================================================
