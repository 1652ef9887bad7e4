------------------------------- MODULE Streams -------------------------------
(***************************************************************************)
(* The bytes of one connection: a client comes to a TCP service or to a    *)
(* listener of the HTTP proxy, and from then on is in the hands of         *)
(* TcpRelay or of BodyRewrite alone.                                       *)
(***************************************************************************)
EXTENDS StreamBounds, Sequences

VARIABLES service,
          main, copy, peer, sent, passed, arrived, line,
          upstream, retries, stage, response, declared, state, came, out

Relay == INSTANCE TcpRelay
Body == INSTANCE BodyRewrite WITH phase <- stage

relayVars == <<main, copy, peer, sent, passed, arrived, line>>
bodyVars == <<upstream, retries, stage, response, declared, state, came, out>>
streamVars == <<service, relayVars, bodyVars>>

StreamInit == service \in {"tcp", "http"} /\ Relay!Init /\ Body!Init

ByRelay(Step) == service = "tcp" /\ Step /\ UNCHANGED <<service, bodyVars>>
ByBody(Step) == service = "http" /\ Step /\ UNCHANGED <<service, relayVars>>

StreamNext == ByRelay(Relay!Next) \/ ByBody(Body!Next)

\* The fairness of TcpRelay, for a client that came to a TCP service.
StreamFairness ==
    /\ WF_streamVars(ByRelay(Relay!Main))
    /\ \A d \in Relay!Directions : WF_streamVars(ByRelay(Relay!Copying(d)))

StreamSpec == StreamInit /\ [][StreamNext]_streamVars /\ StreamFairness

\* Type invariants of both modules.
StreamsTypeOK == Relay!TypeOK /\ Body!TypeOK

BytesArrive == Relay!BytesArrive
SocketsClosed == Relay!SocketsClosed
BodyArrives == Body!BodyArrives
=============================================================================
