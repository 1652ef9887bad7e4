---------------------------- MODULE TcpListeners ----------------------------
(***************************************************************************)
(* The TCP listeners of src/tcp_proxy.rs around a reload: filter_valid_tcp *)
(* chooses the services, stop_all signals and joins the listener threads   *)
(* of the services before, start_one spawns the new ones, and each thread  *)
(* binds, polls its flag and accepts at its own pace.  Connections run in  *)
(* threads of their own that no reload touches and are left out.           *)
(***************************************************************************)
EXTENDS Naturals, Sequences, FiniteSets

CONSTANTS Ports,
          Directories,  \* lists of TCP files that may be loaded
          DualStack,    \* a socket on [::] serves IPv4 too (Linux)
          Foreign,      \* ports another process may take
          MaxApplies,   \* bound on startup and reloads
          MaxFailures   \* bound on sockets that cannot be made nonblocking

Families == {"v4", "v6"}

\* `anyAddress`: a bare port or 0.0.0.0, which listens on [::] too.
File == [enabled : BOOLEAN, listenParses : BOOLEAN, upstreamParses : BOOLEAN,
         port : Ports, anyAddress : BOOLEAN]

ASSUME ListenersAssumption ==
    /\ Directories \subseteq Seq(File)
    /\ DualStack \in BOOLEAN
    /\ Foreign \subseteq Ports
    /\ MaxApplies \in Nat /\ MaxFailures \in Nat

VARIABLES gen,       \* how often apply was called
          running,   \* the files the handles of stop_all belong to
          files,     \* the files loaded last
          phase,     \* of the thread in apply
          k,         \* the file or handle it is at
          shutdown,  \* the flags that are set: [gen, port]
          thread,    \* state of each listener thread
          taken      \* ports held by another process

vars == <<gen, running, files, phase, k, shutdown, thread, taken>>

-----------------------------------------------------------------------------
(* Which files are served. *)

\* validate_tcp inserts the port before it looks at the upstream.
ClaimsPort(dir, i) == dir[i].enabled /\ dir[i].listenParses

\* filter_valid_tcp keeps a file that is valid and the first to claim its port;
\* apply starts one handle for each, in order.
Serves(dir, i) ==
    /\ ClaimsPort(dir, i)
    /\ dir[i].upstreamParses
    /\ ~ \E j \in 1..(i - 1) : ClaimsPort(dir, j) /\ dir[j].port = dir[i].port

\* listen_addresses; "v4" also stands for one address given explicitly.
FamiliesOf(file) == IF file.anyAddress THEN Families ELSE {"v4"}

-----------------------------------------------------------------------------
(* Sockets. *)

Threads == [gen : 1..MaxApplies, port : Ports, family : Families]
Bound == {"listening", "accepting"}
Live == {"spawned"} \cup Bound

\* What a listening socket answers.
Covers(family) == IF family = "v6" /\ DualStack THEN Families ELSE {family}

Available(port, family) ==
    /\ port \notin taken
    /\ \A t \in Threads :
          thread[t] \in Bound /\ t.port = port =>
              Covers(t.family) \cap Covers(family) = {}

Reachable(port, family) ==
    \E t \in Threads :
        thread[t] \in Bound /\ t.port = port /\ family \in Covers(t.family)

-----------------------------------------------------------------------------
(* apply, called at startup and by the watcher's thread. *)

Init ==
    /\ gen = 0
    /\ running = <<>>
    /\ files = <<>>
    /\ phase = "idle"
    /\ k = 1
    /\ shutdown = {}
    /\ thread = [t \in Threads |-> "none"]
    /\ taken \in SUBSET Foreign

\* reload loads and validates before apply stops anything.
Apply ==
    /\ phase = "idle"
    /\ gen < MaxApplies
    /\ gen' = gen + 1
    /\ running' = files
    /\ files' \in Directories
    /\ phase' = "stop"
    /\ k' = 1
    /\ UNCHANGED <<shutdown, thread, taken>>

\* Mistake to catch: past a service that is not running, the next is joined
\* without a look whether there is one.
JoinsAhead ==
    /\ phase = "stop"
    /\ k \in DOMAIN running
    /\ IF Serves(running, k)
       THEN /\ shutdown' = shutdown \cup {[gen |-> gen - 1, port |-> running[k].port]}
            /\ UNCHANGED k
       ELSE /\ k' = k + 1
            /\ UNCHANGED shutdown
    /\ phase' = "join"
    /\ UNCHANGED <<gen, running, files, thread, taken>>

\* stop_all: raise the flag of the next handle.
Signal ==
    /\ phase = "stop"
    /\ k \in DOMAIN running
    /\ IF Serves(running, k)
       THEN /\ shutdown' = shutdown \cup {[gen |-> gen - 1, port |-> running[k].port]}
            /\ phase' = "join"
            /\ UNCHANGED k
       ELSE /\ k' = k + 1
            /\ UNCHANGED <<shutdown, phase>>
    /\ UNCHANGED <<gen, running, files, thread, taken>>

\* Mistake to catch: the threads are signalled and not waited for.
JoinNobody ==
    /\ phase = "join"
    /\ phase' = "stop"
    /\ k' = k + 1
    /\ UNCHANGED <<gen, running, files, shutdown, thread, taken>>

\* join: both threads of the handle have returned.
Join ==
    /\ phase = "join"
    /\ \A t \in Threads :
          t.gen = gen - 1 /\ t.port = running[k].port => thread[t] \notin Live
    /\ phase' = "stop"
    /\ k' = k + 1
    /\ UNCHANGED <<gen, running, files, shutdown, thread, taken>>

StopDone ==
    /\ phase = "stop"
    /\ k \notin DOMAIN running
    /\ phase' = "start"
    /\ k' = 1
    /\ UNCHANGED <<gen, running, files, shutdown, thread, taken>>

Spawned(file) ==
    {[gen |-> gen, port |-> file.port, family |-> f] : f \in FamiliesOf(file)}

\* start_one: one thread per address.
Start ==
    /\ phase = "start"
    /\ k \in DOMAIN files
    /\ thread' = [t \in Threads |->
                    IF Serves(files, k) /\ t \in Spawned(files[k]) THEN "spawned"
                    ELSE thread[t]]
    /\ k' = k + 1
    /\ UNCHANGED <<gen, running, files, phase, shutdown, taken>>

StartDone ==
    /\ phase = "start"
    /\ k \notin DOMAIN files
    /\ phase' = "idle"
    /\ UNCHANGED <<gen, running, files, k, shutdown, thread, taken>>

-----------------------------------------------------------------------------
(* run_listener. *)

Becomes(t, state) ==
    /\ thread' = [thread EXCEPT ![t] = state]
    /\ UNCHANGED <<gen, running, files, phase, k, shutdown, taken>>

\* A bind that fails is logged, and the thread returns; so it does, with the port
\* free again, when the socket cannot be made nonblocking.
Bind(t) ==
    /\ thread[t] = "spawned"
    /\ \/ Available(t.port, t.family) /\ Becomes(t, "listening")
       \/ ~Available(t.port, t.family) /\ Becomes(t, "gone")
       \/ /\ Available(t.port, t.family)
          /\ Cardinality({x \in Threads : thread[x] = "failed"}) < MaxFailures
          /\ Becomes(t, "failed")

Flagged(t) == [gen |-> t.gen, port |-> t.port] \in shutdown

\* Mistake to catch: the flag is not looked at again once bound.
NeverPolls(t) ==
    /\ thread[t] = "listening"
    /\ Becomes(t, "accepting")

\* while !shutdown
Poll(t) ==
    /\ thread[t] = "listening"
    /\ \/ Flagged(t) /\ Becomes(t, "gone")
       \/ ~Flagged(t) /\ Becomes(t, "accepting")

\* A client, or nobody: 50 milliseconds later the flag is looked at again.
Accept(t) ==
    /\ thread[t] = "accepting"
    /\ Becomes(t, "listening")

-----------------------------------------------------------------------------

\* Another process takes a free port, or lets it go.
Take(port) ==
    /\ port \in Foreign
    /\ \A f \in Families : Available(port, f)
    /\ taken' = taken \cup {port}
    /\ UNCHANGED <<gen, running, files, phase, k, shutdown, thread>>

Release(port) ==
    /\ port \in taken
    /\ taken' = taken \ {port}
    /\ UNCHANGED <<gen, running, files, phase, k, shutdown, thread>>

Manager == Apply \/ Signal \/ Join \/ StopDone \/ Start \/ StartDone
Listener(t) == Bind(t) \/ Poll(t) \/ Accept(t)

Next ==
    \/ Manager
    \/ \E t \in Threads : Listener(t)
    \/ \E port \in Ports : Take(port) \/ Release(port)

\* Threads are scheduled.  That files change again, or that a foreign process
\* gives up a port, is not assumed.
Fairness ==
    /\ WF_vars(Signal \/ Join \/ StopDone \/ Start \/ StartDone)
    /\ \A t \in Threads : WF_vars(Listener(t))

Spec == Init /\ [][Next]_vars /\ Fairness

-----------------------------------------------------------------------------
(* Properties *)

\* Type invariant.
TypeOK ==
    /\ gen \in 0..MaxApplies
    /\ running \in Seq(File)
    /\ files \in Seq(File)
    /\ phase \in {"idle", "stop", "join", "start"}
    /\ k \in Nat \ {0}
    /\ phase = "join" => k \in DOMAIN running
    /\ shutdown \subseteq [gen : 0..MaxApplies, port : Ports]
    /\ thread \in [Threads -> {"none", "spawned", "listening", "accepting", "gone", "failed"}]
    /\ taken \subseteq Foreign

\* When the new services start, and ever after, no thread of an earlier
\* configuration is left that could bind, accept or hold a port.
OldListenersGone ==
    phase \in {"start", "idle"} =>
        \A t \in Threads : thread[t] \in Live => t.gen = gen

\* A thread outlives its service in no configuration: whoever accepts is
\* served by a file in force, or by one that is about to be stopped.
AcceptsForItsFile ==
    \A t \in Threads :
        thread[t] \in Live =>
            LET dir == IF phase \in {"start", "idle"} THEN files ELSE running
            IN  \E i \in DOMAIN dir :
                    /\ Serves(dir, i)
                    /\ dir[i].port = t.port
                    /\ t.family \in FamiliesOf(dir[i])

\* A reload gets through: no thread keeps stop_all waiting for ever.
ApplyEnds == phase # "idle" ~> phase = "idle"

Settled == phase = "idle" /\ \A t \in Threads : thread[t] # "spawned"

\* No other process wants the port, and each socket of the service could be made
\* nonblocking.
Undisturbed(port) ==
    /\ port \notin Foreign
    /\ \A t \in Threads : thread[t] = "failed" => t.gen # gen \/ t.port # port

\* "Konnector listens on IPv4 and IPv6 so DNS (A or AAAA) always reaches the
\* port": once a reload has settled every service answers on IPv4, what the last
\* configuration held being free again, unless it was disturbed.  IPv6
\* is lost to nobody but the other thread of the service, which wins the port where
\* a socket on [::] serves both families and 0.0.0.0 comes first.
ServedOnItsPort ==
    Settled =>
        \A i \in DOMAIN files :
            Serves(files, i) /\ Undisturbed(files[i].port) =>
                /\ Reachable(files[i].port, "v4")
                /\ files[i].anyAddress =>
                      \/ Reachable(files[i].port, "v6")
                      \/ /\ DualStack
                         /\ thread[[gen |-> gen, port |-> files[i].port, family |-> "v4"]]
                               \in Bound
=============================================================================
