---------------------------- MODULE MCConnections ----------------------------
(***************************************************************************)
(* The listeners of the TCP services around reloads, and the bytes of one  *)
(* connection.  No reload touches a connection, so a behaviour is of one   *)
(* or of the other.                                                        *)
(*                                                                         *)
(* The listeners have two ports: services that keep, move, lose and        *)
(* contest a port across reloads, and files that are refused before and    *)
(* after they claimed one.                                                 *)
(***************************************************************************)
EXTENDS TcpListeners, Streams

File1(port) == [enabled |-> TRUE, listenParses |-> TRUE, upstreamParses |-> TRUE,
                port |-> port, anyAddress |-> FALSE]
Any(port) == [File1(port) EXCEPT !.anyAddress = TRUE]

MCDirectories == {
    << Any(1), File1(2) >>,
    << Any(2), [Any(1) EXCEPT !.upstreamParses = FALSE], Any(1) >>,
    << [File1(1) EXCEPT !.listenParses = FALSE],
       [Any(2) EXCEPT !.enabled = FALSE], File1(1), Any(1) >>,
    << >> }

VARIABLE of  \* "listeners" or "connection"

\* What takes no part in a behaviour starts in one way.
MCInit ==
    /\ of \in {"listeners", "connection"} /\ Init /\ StreamInit
    /\ of = "connection" => taken = {}
    /\ of = "listeners" => service = "tcp"
    /\ service = "tcp" =>
          /\ upstream = [found |-> TRUE, base |-> FALSE, foreign |-> FALSE]
          /\ response = [text |-> FALSE, utf8 |-> FALSE]

ByListeners(Step) == of = "listeners" /\ Step /\ UNCHANGED <<of, streamVars>>
ByConnection(Step) == of = "connection" /\ Step /\ UNCHANGED <<of, vars>>

MCNext == ByListeners(Next) \/ ByConnection(StreamNext)

\* The fairness of TcpListeners and of TcpRelay, each for its behaviours.
MCFairness ==
    /\ WF_vars(ByListeners(Signal \/ Join \/ StopDone \/ Start \/ StartDone))
    /\ \A t \in Threads : WF_vars(ByListeners(Listener(t)))
    /\ WF_streamVars(ByConnection(ByRelay(Relay!Main)))
    /\ \A d \in Relay!Directions :
          WF_streamVars(ByConnection(ByRelay(Relay!Copying(d))))

MCSpec == MCInit /\ [][MCNext]_<<of, vars, streamVars>> /\ MCFairness
=============================================================================
