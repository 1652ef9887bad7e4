---------------------------- MODULE ConfigWatcher ----------------------------
(***************************************************************************)
(* The configuration watcher: run of src/application.rs loads the          *)
(* directory and starts the thread of src/config_watcher.rs, which waits   *)
(* for file events, lets a burst pass, drains the queue and calls          *)
(* reload_routing and the TCP reload.  Files are read one by one while     *)
(* editors go on writing; certificates and names change without an event.  *)
(***************************************************************************)
EXTENDS Naturals, Sequences

CONSTANTS NumFiles,   \* site files, numbered in the order of their paths
          Contents,   \* what a site file may hold
          Roots,      \* what root.yaml may hold
          NumTcps,    \* TCP files, numbered in the order of their paths
          Tcps,       \* what a TCP file may hold
          Absent,     \* no file, no site
          Unloaded,   \* nothing was read yet
          MaxSaves,   \* bound on the saves of editors
          MaxNoise    \* bound on the events queued that are no change

SiteFiles == 1..NumFiles
TcpFiles == 1..NumTcps

\* `valid`: parsed, enabled and accepted by validate_site but for its domains.
\* `named`: a pool address must be resolved, or is malformed.
Content == [valid : BOOLEAN, domain : STRING, named : BOOLEAN]

\* `needs`: what validate_server asks for.
Root == [needs : {"nothing", "certificate", "the impossible"}, named : BOOLEAN]

ASSUME WatcherAssumption ==
    /\ {NumFiles, NumTcps} \subseteq Nat
    /\ Contents \subseteq Content
    /\ Roots \subseteq Root
    /\ Absent \notin Contents /\ Absent \notin Tcps
    /\ MaxSaves \in Nat
    /\ MaxNoise \in Nat

VARIABLES sites, root, tcp,  \* the files on disk
          names,       \* names can be resolved
          certs,       \* the certificate files are in order
          queue,       \* events the watcher has not received
          watching,    \* events are being queued
          pc,          \* of main until the watcher starts, then of its thread
          todo,        \* files listed and not read yet
          loaded,      \* site files read by this load
          loadedRoot,  \* root.yaml as this load read it
          loadedTcp,   \* TCP files read by this load
          table,       \* the routing table in force
          services,    \* the TCP files in force
          gap,         \* a file changed while nobody watched
          saves

disk == <<sites, root, tcp, gap, saves>>
outside == <<names, certs>>
load == <<todo, loaded, loadedRoot, loadedTcp>>
inForce == <<table, services>>
vars == <<disk, outside, load, inForce, queue, watching, pc>>

-----------------------------------------------------------------------------
(* What a load makes of the files. *)

Valid(content) == content # Absent /\ content.valid

Overlap(files, f) ==
    \E g \in SiteFiles :
        g < f /\ Valid(files[g]) /\ files[g].domain = files[f].domain

\* filter_valid_sites: the first valid file with a domain is served.
Served(files) ==
    [f \in SiteFiles |-> IF Valid(files[f]) /\ ~Overlap(files, f)
                         THEN files[f]
                         ELSE Absent]

Routing(files, r) == [sites |-> Served(files), root |-> r]

\* validate_server
Refused(r) ==
    \/ r.needs = "the impossible"
    \/ r.needs = "certificate" /\ ~certs

\* create_load_balancer resolves the addresses of every pool.
NeedsNames(files, r) ==
    r.named \/ \E f \in SiteFiles : Served(files)[f] # Absent /\ files[f].named

-----------------------------------------------------------------------------
(* Events, as inotify and notify queue them: an event equal to the last one *)
(* in the queue is dropped.                                                 *)

\* Mistake to catch: events are queued for a watch that does not exist yet.
EmitAlways(event) ==
    queue' = IF queue = <<>> \/ queue[Len(queue)] # event
             THEN Append(queue, event)
             ELSE queue

Emit(event) ==
    queue' = IF watching /\ (queue = <<>> \/ queue[Len(queue)] # event)
             THEN Append(queue, event)
             ELSE queue

ChangeQueued == \E i \in DOMAIN queue : queue[i] = "change"

Saved ==
    /\ saves < MaxSaves
    /\ saves' = saves + 1
    /\ gap' = (gap \/ ~watching)
    /\ Emit("change")
    /\ UNCHANGED <<outside, load, inForce, watching, pc>>

\* An editor writes, renames or removes a file.  Writing in place is two saves,
\* of half a file and of the whole.
SaveSite(f, content) ==
    /\ sites' = [sites EXCEPT ![f] = content]
    /\ UNCHANGED <<root, tcp>>
    /\ Saved

SaveRoot(r) ==
    /\ root' = r
    /\ UNCHANGED <<sites, tcp>>
    /\ Saved

SaveTcp(f, t) ==
    /\ tcp' = [tcp EXCEPT ![f] = t]
    /\ UNCHANGED <<sites, root>>
    /\ Saved

\* Somebody reads a file, or the watch reports an error.
Noise(event) ==
    /\ event \in {"access", "error"}
    /\ Len(queue) < MaxNoise
    /\ Emit(event)
    /\ UNCHANGED <<disk, outside, load, inForce, watching, pc>>

\* Name service and certificate files come and go, and are not watched here.
Elsewhere ==
    /\ names' \in BOOLEAN
    /\ certs' \in BOOLEAN
    /\ UNCHANGED <<disk, load, inForce, queue, watching, pc>>

-----------------------------------------------------------------------------
(* Loading and reloading. *)

\* list_site_config_paths
List ==
    /\ pc = "list"
    /\ pc' = "read"
    /\ todo' = {f \in SiteFiles : sites[f] # Absent}
    /\ loaded' = [f \in SiteFiles |-> Absent]
    /\ Emit("access")
    /\ UNCHANGED <<disk, outside, inForce, watching, loadedRoot, loadedTcp>>

\* load_site_file; a file that went away since it was listed is skipped.
ReadSite(f) ==
    /\ pc = "read"
    /\ f \in todo
    /\ \A g \in todo : f <= g
    /\ todo' = todo \ {f}
    /\ loaded' = [loaded EXCEPT ![f] = sites[f]]
    /\ Emit("access")
    /\ UNCHANGED <<disk, outside, inForce, watching, pc, loadedRoot, loadedTcp>>

\* Mistake to catch: behind a refusal the TCP files are not reloaded.
RefusalEndsReload ==
    /\ pc = "read"
    /\ todo = {}
    /\ loadedRoot' = root
    /\ pc' = IF watching /\ Refused(root) THEN "wait" ELSE "install"
    /\ Emit("access")
    /\ UNCHANGED <<disk, outside, inForce, watching, todo, loaded, loadedTcp>>

\* Mistake to catch: a reload is refused for the root.yaml of the load before.
ReadRootBehind ==
    /\ pc = "read"
    /\ todo = {}
    /\ loadedRoot' = root
    /\ pc' = IF watching /\ Refused(loadedRoot) THEN "tcp" ELSE "install"
    /\ Emit("access")
    /\ UNCHANGED <<disk, outside, inForce, watching, todo, loaded, loadedTcp>>

\* server and validate_server: a refusal is only logged at startup, and ends
\* reload_routing later on.
ReadRoot ==
    /\ pc = "read"
    /\ todo = {}
    /\ loadedRoot' = root
    /\ pc' = IF watching /\ Refused(root) THEN "tcp" ELSE "install"
    /\ Emit("access")
    /\ UNCHANGED <<disk, outside, inForce, watching, todo, loaded, loadedTcp>>

\* Mistake to catch: the queue is drained when the reload is done.
InstallAndDrain ==
    /\ pc = "install"
    /\ pc' = "tcp"
    /\ table' = Routing(loaded, loadedRoot)
    /\ queue' = <<>>
    /\ UNCHANGED <<disk, outside, load, services, watching>>

\* build_proxy_routing and the swap, or a panic that ends the process at
\* startup and the watcher's thread later on.
Install ==
    /\ pc = "install"
    /\ \/ /\ names \/ ~NeedsNames(loaded, loadedRoot)
          /\ pc' = "tcp"
          /\ table' = Routing(loaded, loadedRoot)
          /\ UNCHANGED <<watching, queue>>
       \/ /\ ~names /\ NeedsNames(loaded, loadedRoot)
          /\ pc' = "dead"
          /\ watching' = FALSE
          /\ queue' = <<>>
          /\ UNCHANGED table
    /\ UNCHANGED <<disk, outside, load, services>>

\* list_tcp_config_paths
ListTcp ==
    /\ pc = "tcp"
    /\ pc' = "tcpread"
    /\ todo' = {f \in TcpFiles : tcp[f] # Absent}
    /\ loadedTcp' = [f \in TcpFiles |-> Absent]
    /\ Emit("access")
    /\ UNCHANGED <<disk, outside, inForce, watching, loaded, loadedRoot>>

\* load_tcp_file; here too a file that went away is skipped.
ReadTcp(f) ==
    /\ pc = "tcpread"
    /\ f \in todo
    /\ \A g \in todo : f <= g
    /\ todo' = todo \ {f}
    /\ loadedTcp' = [loadedTcp EXCEPT ![f] = tcp[f]]
    /\ Emit("access")
    /\ UNCHANGED <<disk, outside, inForce, watching, pc, loaded, loadedRoot>>

\* filter_valid_tcp and apply (module TcpListeners).
ApplyTcp ==
    /\ pc = "tcpread"
    /\ todo = {}
    /\ pc' = IF watching THEN "wait" ELSE "watch"
    /\ services' = loadedTcp
    /\ UNCHANGED <<disk, outside, load, watching, table, queue>>

-----------------------------------------------------------------------------
(* The watcher's thread. *)

\* The thread ends when the watch cannot be created, or not on the directory.
Watch ==
    /\ pc = "watch"
    /\ \/ pc' = "wait" /\ watching' = TRUE
       \/ pc' = "dead" /\ UNCHANGED watching
    /\ UNCHANGED <<disk, outside, load, inForce, queue>>

\* Mistake to catch: reads are taken for changes.
ReceiveAnything ==
    /\ pc = "wait"
    /\ queue # <<>>
    /\ queue' = Tail(queue)
    /\ pc' = IF Head(queue) = "error" THEN "wait" ELSE "sleep"
    /\ UNCHANGED <<disk, outside, load, inForce, watching>>

\* is_noise_event and errors are passed over.
Receive ==
    /\ pc = "wait"
    /\ queue # <<>>
    /\ queue' = Tail(queue)
    /\ pc' = IF Head(queue) = "change" THEN "sleep" ELSE "wait"
    /\ UNCHANGED <<disk, outside, load, inForce, watching>>

\* 750 milliseconds later.
Drain ==
    /\ pc = "sleep"
    /\ pc' = "list"
    /\ queue' = <<>>
    /\ gap' = FALSE
    /\ UNCHANGED <<sites, root, tcp, saves, outside, load, inForce, watching>>

-----------------------------------------------------------------------------

Init ==
    /\ sites \in [SiteFiles -> Contents \cup {Absent}]
    /\ root \in Roots
    /\ tcp \in [TcpFiles -> Tcps \cup {Absent}]
    /\ names \in BOOLEAN
    /\ certs \in BOOLEAN
    /\ queue = <<>>
    /\ watching = FALSE
    /\ pc = "list"
    /\ todo = {}
    /\ loaded = [f \in SiteFiles |-> Absent]
    /\ loadedRoot = Unloaded
    /\ loadedTcp = Unloaded
    /\ table = Unloaded
    /\ services = Unloaded
    /\ gap = FALSE
    /\ saves = 0

Editor ==
    \/ \E f \in SiteFiles, content \in Contents \cup {Absent} : SaveSite(f, content)
    \/ \E r \in Roots : SaveRoot(r)
    \/ \E f \in TcpFiles, t \in Tcps \cup {Absent} : SaveTcp(f, t)

Loader ==
    \/ List
    \/ \E f \in SiteFiles : ReadSite(f)
    \/ ReadRoot
    \/ Install
    \/ ListTcp
    \/ \E f \in TcpFiles : ReadTcp(f)
    \/ ApplyTcp
    \/ Watch
    \/ Receive
    \/ Drain

Next ==
    \/ Editor
    \/ Loader
    \/ \E event \in {"access", "error"} : Noise(event)
    \/ Elsewhere

\* The thread that loads is scheduled.  Nothing is assumed of editors, of the
\* name service or of whoever installs certificates.
Spec == Init /\ [][Next]_vars /\ WF_vars(Loader)

-----------------------------------------------------------------------------
(* Properties *)

\* Type invariant.
TypeOK ==
    /\ sites \in [SiteFiles -> Contents \cup {Absent}]
    /\ root \in Roots
    /\ tcp \in [TcpFiles -> Tcps \cup {Absent}]
    /\ names \in BOOLEAN
    /\ certs \in BOOLEAN
    /\ queue \in Seq({"change", "access", "error"})
    /\ watching \in BOOLEAN
    /\ pc \in {"list", "read", "install", "tcp", "tcpread", "watch", "wait", "sleep", "dead"}
    /\ todo \subseteq SiteFiles \cup TcpFiles
    /\ loaded \in [SiteFiles -> Contents \cup {Absent}]
    /\ loadedRoot \in Roots \cup {Unloaded}
    /\ {loadedTcp, services} \subseteq [TcpFiles -> Tcps \cup {Absent}] \cup {Unloaded}
    /\ gap \in BOOLEAN
    /\ saves \in 0..MaxSaves
    /\ ~watching => queue = <<>>

\* The watcher has nothing to do, and missed nothing before it began to watch.
Settled == pc = "wait" /\ ~ChangeQueued /\ ~gap

\* However saves fall between the reads of a load, once the watcher is idle the
\* table is the one the files describe, unless validate_server has a say.
SitesInSync ==
    Settled /\ root.needs = "nothing" => table = Routing(sites, root)

\* A root.yaml that asks for a certificate is in force too, if the files of the
\* certificate have been in order all along: one that was refused before, and one that
\* no certificate makes good, do not stand in the way of a later load.
RootInSync ==
    []certs =>
        [](Settled /\ root.needs # "the impossible" => table = Routing(sites, root))

\* The TCP services are in sync, also behind a reload that was refused.
TcpInSync == Settled => services = tcp

\* When editors stop, the watcher comes to rest: reading the directory it
\* watches does not keep it going, nor do errors.
ComesToRest == <>[](pc = "dead" \/ (pc = "wait" /\ ~ChangeQueued))
=============================================================================
