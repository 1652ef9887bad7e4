------------------------- MODULE ConfigWatcherProofs -------------------------
(***************************************************************************)
(* Proofs about ConfigWatcher for any number of files, contents, saves and *)
(* events.  The inductive invariant says at each stage of a load what was  *)
(* read so far is what is on disk, or a change is queued behind it.        *)
(***************************************************************************)
EXTENDS ConfigWatcher, TLAPS

\* What is read may be out of date: the watcher will be told, or missed it.
Excused == gap \/ ChangeQueued

ReadSync ==
    pc = "read" =>
        Excused \/ \A f \in SiteFiles : f \notin todo => loaded[f] = sites[f]

InstallSync ==
    pc = "install" => Excused \/ (loaded = sites /\ loadedRoot = root)

TableSync ==
    pc \in {"tcp", "tcpread", "watch", "wait"} =>
        Excused \/ root.needs # "nothing" \/ table = Routing(sites, root)

TcpReadSync ==
    pc = "tcpread" =>
        Excused \/ \A f \in TcpFiles : f \notin todo => loadedTcp[f] = tcp[f]

TcpSync == pc \in {"watch", "wait"} => Excused \/ services = tcp

\* A load reads the TCP files into a list of its own.
Listed ==
    /\ pc = "read" => todo \subseteq SiteFiles
    /\ pc = "tcpread" => todo \subseteq TcpFiles
    /\ pc = "tcpread" => loadedTcp \in [TcpFiles -> Tcps \cup {Absent}]

Sync == ReadSync /\ InstallSync /\ TableSync /\ TcpReadSync /\ TcpSync /\ Listed

IInv == TypeOK /\ Sync

Events == {"change", "access", "error"}

-----------------------------------------------------------------------------
(* The queue of events. *)

LEMMA EmptyQueue == <<>> \in Seq(Events)
  OBVIOUS

\* Queueing an event forgets no change, and queues a change if it is one.
LEMMA EmitKeeps ==
    ASSUME queue \in Seq(Events), NEW event \in Events, Emit(event),
           watching \in BOOLEAN, ~watching => queue = <<>>
    PROVE  /\ queue' \in Seq(Events)
           /\ ~watching => queue' = <<>>
           /\ ChangeQueued => ChangeQueued'
           /\ watching /\ event = "change" => ChangeQueued'
<1>1. CASE queue' = queue
  <2>1. ASSUME watching, event = "change" PROVE ChangeQueued'
    <3>1. queue # <<>> /\ queue[Len(queue)] = "change"
      BY <1>1, <2>1 DEF Emit
    <3>2. Len(queue) \in DOMAIN queue
      BY <3>1
    <3>3. QED
      BY <1>1, <3>1, <3>2 DEF ChangeQueued
  <2>2. QED
    BY <1>1, <2>1 DEF ChangeQueued
<1>2. CASE queue' = Append(queue, event) /\ watching
  <2>1. /\ queue' \in Seq(Events)
        /\ Len(queue') = Len(queue) + 1
        /\ queue'[Len(queue) + 1] = event
        /\ \A i \in DOMAIN queue : i \in DOMAIN queue' /\ queue'[i] = queue[i]
    BY <1>2
  <2>2. Len(queue) + 1 \in DOMAIN queue'
    BY <2>1
  <2>3. QED
    BY <1>2, <2>1, <2>2 DEF ChangeQueued
<1>3. QED
  BY <1>1, <1>2 DEF Emit

\* Passing over an event that is no change keeps the changes behind it.
LEMMA TailKeeps ==
    ASSUME queue \in Seq(Events), queue # <<>>, queue' = Tail(queue)
    PROVE  /\ queue' \in Seq(Events)
           /\ Head(queue) # "change" /\ ChangeQueued => ChangeQueued'
<1>1. queue' \in Seq(Events)
  BY DEF Events
<1>2. ASSUME Head(queue) # "change", ChangeQueued PROVE ChangeQueued'
  <2>1. PICK i \in DOMAIN queue : queue[i] = "change"
    BY <1>2 DEF ChangeQueued
  <2>2. i \in 1..Len(queue) /\ i # 1
    BY <1>2, <2>1
  <2>3. i - 1 \in DOMAIN Tail(queue) /\ Tail(queue)[i - 1] = queue[i]
    BY <2>2
  <2>4. QED
    BY <2>1, <2>3 DEF ChangeQueued
<1>3. QED
  BY <1>1, <1>2

-----------------------------------------------------------------------------
(* One lemma per group of actions. *)

LEMMA InitIInv == Init => IInv
<1> SUFFICES ASSUME Init PROVE IInv
  OBVIOUS
<1>1. TypeOK
  <2>1. queue \in Seq({"change", "access", "error"})
    BY EmptyQueue DEF Init, Events
  <2>2. saves \in 0..MaxSaves
    BY WatcherAssumption DEF Init
  <2>3. QED
    BY <2>1, <2>2 DEF Init, TypeOK
<1>2. Sync
  BY DEF Init, Sync, ReadSync, InstallSync, TableSync, TcpSync, TcpReadSync, Listed
<1>3. QED
  BY <1>1, <1>2 DEF IInv

\* Whatever is saved is queued, or missed because nobody watches.
LEMMA EditorStep ==
    ASSUME IInv, Editor PROVE IInv'
<1>1. Saved
  BY DEF Editor, SaveSite, SaveRoot, SaveTcp
<1>2. /\ queue' \in Seq(Events)
      /\ ~watching => queue' = <<>>
      /\ watching => ChangeQueued'
  BY <1>1, EmitKeeps DEF Saved, IInv, TypeOK, Events
<1>3. Excused'
  BY <1>1, <1>2 DEF Saved, Excused, IInv, TypeOK
<1>4. TypeOK'
  <2>1. /\ sites' \in [SiteFiles -> Contents \cup {Absent}]
        /\ root' \in Roots
        /\ tcp' \in [TcpFiles -> Tcps \cup {Absent}]
    BY DEF Editor, SaveSite, SaveRoot, SaveTcp, IInv, TypeOK
  <2>2. saves' \in 0..MaxSaves
    BY <1>1, WatcherAssumption DEF Saved, IInv, TypeOK
  <2>3. QED
    BY <1>1, <1>2, <2>1, <2>2
       DEF Saved, IInv, TypeOK, outside, load, inForce, Events
<1>5. Listed'
  BY <1>1 DEF Saved, load, IInv, Sync, Listed
<1>6. QED
  BY <1>3, <1>4, <1>5 DEF IInv, Sync, ReadSync, InstallSync, TableSync, TcpReadSync, TcpSync

LEMMA NoiseStep ==
    ASSUME IInv, NEW event \in {"access", "error"}, Noise(event) PROVE IInv'
<1>1. /\ queue' \in Seq(Events)
      /\ ~watching => queue' = <<>>
      /\ ChangeQueued => ChangeQueued'
  BY EmitKeeps DEF Noise, IInv, TypeOK, Events
<1>2. TypeOK'
  BY <1>1 DEF Noise, IInv, TypeOK, disk, outside, load, inForce, Events
<1>3. Excused => Excused'
  BY <1>1 DEF Excused, Noise, disk
<1>4. Sync'
  BY <1>3 DEF Noise, disk, load, inForce, IInv, Sync, ReadSync, InstallSync,
              TableSync, TcpSync, TcpReadSync, Listed, Routing, Served,
              Overlap, Valid
<1>5. QED
  BY <1>2, <1>4 DEF IInv

LEMMA ElsewhereStep ==
    ASSUME IInv, Elsewhere PROVE IInv'
<1>1. TypeOK'
  BY DEF Elsewhere, IInv, TypeOK, disk, load, inForce
<1>2. Sync'
  BY DEF Elsewhere, disk, load, inForce, IInv, Sync, ReadSync, InstallSync,
         TableSync, TcpSync, TcpReadSync, Listed, Excused, ChangeQueued, Routing, Served,
         Overlap, Valid
<1>3. QED
  BY <1>1, <1>2 DEF IInv

\* A file that is not listed does not exist.
LEMMA ListStep ==
    ASSUME IInv, List PROVE IInv'
<1>1. /\ queue' \in Seq(Events)
      /\ ~watching => queue' = <<>>
      /\ ChangeQueued => ChangeQueued'
  BY EmitKeeps DEF List, IInv, TypeOK, Events
<1>2. TypeOK'
  BY <1>1 DEF List, IInv, TypeOK, disk, outside, inForce, Events
<1>3. ASSUME NEW f \in SiteFiles, f \notin todo' PROVE loaded'[f] = sites'[f]
  BY <1>3 DEF List, disk
<1>4. Sync'
  BY <1>3 DEF List, Sync, ReadSync, InstallSync, TableSync, TcpSync, TcpReadSync, Listed
<1>5. QED
  BY <1>2, <1>4 DEF IInv

LEMMA ReadSiteStep ==
    ASSUME IInv, NEW f \in SiteFiles, ReadSite(f) PROVE IInv'
<1>1. /\ queue' \in Seq(Events)
      /\ ~watching => queue' = <<>>
      /\ ChangeQueued => ChangeQueued'
  BY EmitKeeps DEF ReadSite, IInv, TypeOK, Events
<1>2. TypeOK'
  BY <1>1 DEF ReadSite, IInv, TypeOK, disk, outside, inForce, Events
<1>3. Excused => Excused'
  BY <1>1 DEF Excused, ReadSite, disk
<1>4. ASSUME ~Excused, NEW g \in SiteFiles, g \notin todo' PROVE loaded'[g] = sites'[g]
  BY <1>4 DEF ReadSite, disk, IInv, TypeOK, Sync, ReadSync
<1>5. Sync'
  BY <1>3, <1>4 DEF ReadSite, IInv, Sync, ReadSync, InstallSync, TableSync, TcpSync,
                    TcpReadSync, Listed
<1>6. QED
  BY <1>2, <1>5 DEF IInv

\* Everything listed was read, and a root that is refused asked for something.
LEMMA ReadRootStep ==
    ASSUME IInv, ReadRoot PROVE IInv'
<1>1. /\ queue' \in Seq(Events)
      /\ ~watching => queue' = <<>>
      /\ ChangeQueued => ChangeQueued'
  BY EmitKeeps DEF ReadRoot, IInv, TypeOK, Events
<1>2. TypeOK'
  BY <1>1 DEF ReadRoot, IInv, TypeOK, disk, outside, inForce, Events
<1>3. Excused => Excused'
  BY <1>1 DEF Excused, ReadRoot, disk
<1>4. ~Excused => loaded = sites
  BY DEF ReadRoot, IInv, TypeOK, Sync, ReadSync
<1>5. CASE watching /\ Refused(root)
  <2>1. pc' = "tcp" /\ root'.needs # "nothing"
    BY <1>5 DEF ReadRoot, Refused, disk
  <2>2. QED
    BY <1>2, <2>1 DEF IInv, Sync, ReadSync, InstallSync, TableSync, TcpSync, TcpReadSync, Listed
<1>6. CASE ~ (watching /\ Refused(root))
  <2>1. pc' = "install" /\ loaded' = loaded /\ sites' = sites
        /\ loadedRoot' = root /\ root' = root
    BY <1>6 DEF ReadRoot, disk
  <2>2. QED
    BY <1>2, <1>3, <1>4, <2>1
       DEF IInv, Sync, ReadSync, InstallSync, TableSync, TcpSync, TcpReadSync, Listed
<1>7. QED
  BY <1>5, <1>6

LEMMA InstallStep ==
    ASSUME IInv, Install PROVE IInv'
<1>1. CASE pc' = "tcp" /\ table' = Routing(loaded, loadedRoot) /\ UNCHANGED <<watching, queue>>
  <2>1. TypeOK'
    BY <1>1 DEF Install, IInv, TypeOK, disk, outside, load
  <2>2. Excused => Excused'
    BY <1>1 DEF Install, Excused, ChangeQueued, disk
  <2>3. ~Excused => table' = Routing(sites, root)
    BY <1>1 DEF Install, IInv, Sync, InstallSync
  <2>4. Routing(sites, root)' = Routing(sites, root)
    BY DEF Install, disk, Routing, Served,
              Overlap, Valid
  <2>5. QED
    BY <1>1, <2>1, <2>2, <2>3, <2>4
       DEF IInv, Sync, ReadSync, InstallSync, TableSync, TcpSync, TcpReadSync, Listed
<1>2. CASE /\ pc' = "dead" /\ watching' = FALSE /\ queue' = <<>>
           /\ UNCHANGED table
  <2>1. TypeOK'
    BY <1>2, EmptyQueue DEF Install, IInv, TypeOK, Events, disk, outside, load
  <2>2. QED
    BY <1>2, <2>1
       DEF IInv, Sync, ReadSync, InstallSync, TableSync, TcpSync, TcpReadSync, Listed
<1>3. QED
  BY <1>1, <1>2 DEF Install

\* The TCP files do not touch the table.
LEMMA ListTcpStep ==
    ASSUME IInv, ListTcp PROVE IInv'
<1>1. /\ queue' \in Seq(Events)
      /\ ~watching => queue' = <<>>
      /\ ChangeQueued => ChangeQueued'
  BY EmitKeeps DEF ListTcp, IInv, TypeOK, Events
<1>2. loadedTcp' \in [TcpFiles -> Tcps \cup {Absent}] /\ todo' \subseteq TcpFiles
  BY DEF ListTcp
<1>3. TypeOK'
  BY <1>1, <1>2 DEF ListTcp, IInv, TypeOK, disk, outside, inForce, Events
<1>4. Excused => Excused'
  BY <1>1 DEF Excused, ListTcp, disk
<1>5. Routing(sites, root)' = Routing(sites, root)
  BY DEF ListTcp, disk, Routing, Served,
              Overlap, Valid
<1>6. TableSync'
  BY <1>4, <1>5 DEF ListTcp, disk, inForce, IInv, Sync, TableSync
<1>7. ASSUME NEW f \in TcpFiles, f \notin todo' PROVE loadedTcp'[f] = tcp'[f]
  BY <1>7 DEF ListTcp, disk
<1>8. QED
  BY <1>2, <1>3, <1>6, <1>7
     DEF ListTcp, IInv, Sync, ReadSync, InstallSync, TcpReadSync, TcpSync, Listed

LEMMA ReadTcpStep ==
    ASSUME IInv, NEW f \in TcpFiles, ReadTcp(f) PROVE IInv'
<1>1. /\ queue' \in Seq(Events)
      /\ ~watching => queue' = <<>>
      /\ ChangeQueued => ChangeQueued'
  BY EmitKeeps DEF ReadTcp, IInv, TypeOK, Events
<1>2. /\ loadedTcp \in [TcpFiles -> Tcps \cup {Absent}]
      /\ loadedTcp' \in [TcpFiles -> Tcps \cup {Absent}]
      /\ todo' \subseteq TcpFiles
  BY DEF ReadTcp, IInv, TypeOK, Sync, Listed
<1>3. TypeOK'
  BY <1>1, <1>2 DEF ReadTcp, IInv, TypeOK, disk, outside, inForce, Events
<1>4. Excused => Excused'
  BY <1>1 DEF Excused, ReadTcp, disk
<1>5. Routing(sites, root)' = Routing(sites, root)
  BY DEF ReadTcp, disk, Routing, Served,
              Overlap, Valid
<1>6. TableSync'
  BY <1>4, <1>5 DEF ReadTcp, disk, inForce, IInv, Sync, TableSync
<1>7. ASSUME ~Excused, NEW g \in TcpFiles, g \notin todo' PROVE loadedTcp'[g] = tcp'[g]
  BY <1>2, <1>7 DEF ReadTcp, disk, IInv, Sync, TcpReadSync
<1>8. QED
  BY <1>2, <1>3, <1>4, <1>6, <1>7
     DEF ReadTcp, IInv, Sync, ReadSync, InstallSync, TcpReadSync, TcpSync, Listed

LEMMA ApplyTcpStep ==
    ASSUME IInv, ApplyTcp PROVE IInv'
<1>1. loadedTcp \in [TcpFiles -> Tcps \cup {Absent}]
  BY DEF ApplyTcp, IInv, Sync, Listed
<1>2. TypeOK'
  BY <1>1 DEF ApplyTcp, IInv, TypeOK, disk, outside, load
<1>3. Excused => Excused'
  BY DEF Excused, ChangeQueued, ApplyTcp, disk
<1>4. Routing(sites, root)' = Routing(sites, root)
  BY DEF ApplyTcp, disk, Routing, Served,
              Overlap, Valid
<1>5. /\ pc = "tcpread" /\ pc' \in {"watch", "wait"} /\ root' = root /\ tcp' = tcp
      /\ services' = loadedTcp /\ table' = table
  BY DEF ApplyTcp, disk
<1>6. TableSync'
  BY <1>3, <1>4, <1>5 DEF IInv, Sync, TableSync
<1>7. ~Excused => loadedTcp = tcp
  BY <1>1 DEF ApplyTcp, IInv, TypeOK, Sync, TcpReadSync
<1>8. TcpSync'
  BY <1>3, <1>5, <1>7 DEF TcpSync
<1>9. QED
  BY <1>2, <1>5, <1>6, <1>8 DEF IInv, Sync, ReadSync, InstallSync, TcpReadSync, Listed

LEMMA WatcherStep ==
    ASSUME IInv, Watch \/ Receive \/ Drain PROVE IInv'
<1>1. CASE Watch
  <2>1. TypeOK'
    BY <1>1 DEF Watch, IInv, TypeOK, disk, outside, load, inForce
  <2>2. Routing(sites, root)' = Routing(sites, root) /\ (Excused <=> Excused')
        /\ pc = "watch" /\ pc' \in {"wait", "dead"}
    BY <1>1 DEF Watch, disk, Routing, Served, Overlap, Valid, Excused, ChangeQueued
  <2>3. Sync'
    BY <1>1, <2>2 DEF Watch, disk, inForce, IInv, Sync, ReadSync, InstallSync,
                      TableSync, TcpSync, TcpReadSync, Listed
  <2>4. QED
    BY <2>1, <2>3 DEF IInv
<1>2. CASE Receive
  <2>1. /\ queue' \in Seq(Events)
        /\ Head(queue) # "change" /\ ChangeQueued => ChangeQueued'
    BY <1>2, TailKeeps DEF Receive, IInv, TypeOK, Events
  <2>2. watching
    BY <1>2 DEF Receive, IInv, TypeOK
  <2>3. TypeOK'
    BY <1>2, <2>1, <2>2 DEF Receive, IInv, TypeOK, disk, outside, load, inForce, Events
  <2>4. CASE Head(queue) = "change"
    BY <1>2, <2>3, <2>4 DEF Receive, IInv, Sync, ReadSync, InstallSync, TableSync,
                            TcpSync, TcpReadSync, Listed
  <2>5. CASE Head(queue) # "change"
    <3>1. Excused => Excused'
      BY <1>2, <2>1, <2>5 DEF Receive, Excused, disk
    <3>2. Routing(sites, root)' = Routing(sites, root)
      BY <1>2 DEF Receive, disk, Routing, Served,
              Overlap, Valid
    <3>3. Sync'
      BY <1>2, <2>5, <3>1, <3>2
         DEF Receive, disk, inForce, IInv, Sync, ReadSync, InstallSync, TableSync,
             TcpSync, TcpReadSync, Listed
    <3>4. QED
      BY <2>3, <3>3 DEF IInv
  <2>6. QED
    BY <2>4, <2>5
<1>3. CASE Drain
  <2>1. TypeOK'
    BY <1>3, EmptyQueue DEF Drain, IInv, TypeOK, Events, outside, load, inForce
  <2>2. QED
    BY <1>3, <2>1 DEF Drain, IInv, Sync, ReadSync, InstallSync, TableSync,
                      TcpSync, TcpReadSync, Listed
<1>4. QED
  BY <1>1, <1>2, <1>3

LEMMA NextIInv == IInv /\ [Next]_vars => IInv'
<1> SUFFICES ASSUME IInv, [Next]_vars PROVE IInv'
  OBVIOUS
<1>1. CASE Editor
  BY <1>1, EditorStep
<1>2. CASE Loader
  BY <1>2, ListStep, ReadSiteStep, ReadRootStep, InstallStep, ListTcpStep,
     ReadTcpStep, ApplyTcpStep, WatcherStep DEF Loader
<1>3. ASSUME NEW event \in {"access", "error"}, Noise(event) PROVE IInv'
  BY <1>3, NoiseStep
<1>4. CASE Elsewhere
  BY <1>4, ElsewhereStep
<1>5. CASE UNCHANGED vars
  <2>1. TypeOK'
    BY <1>5 DEF vars, disk, outside, load, inForce, IInv, TypeOK
  <2>2. Sync'
    BY <1>5 DEF vars, disk, outside, load, inForce, IInv, Sync, ReadSync,
       InstallSync, TableSync, TcpSync, TcpReadSync, Listed, Excused, ChangeQueued, Routing,
       Served, Overlap, Valid
  <2>3. QED
    BY <2>1, <2>2 DEF IInv
<1>6. QED
  BY <1>1, <1>2, <1>3, <1>4, <1>5 DEF Next

\* What a load has read is what is on disk, or a change is queued behind it.
THEOREM Invariance == Spec => []IInv
<1>1. QED
  BY InitIInv, NextIInv, PTL DEF Spec

\* The files, the queue and the stages of a load keep their types, and nothing
\* is queued before the watch.
THEOREM TypeCorrect == Spec => []TypeOK
<1>1. IInv => TypeOK
  BY DEF IInv
<1>2. QED
  BY <1>1, Invariance, PTL

\* An idle watcher has the sites of the directory in force, however saves fell
\* between the reads of the loads before: it drains before it reads.
THEOREM IdleIsInSync == Spec => []SitesInSync
<1>1. IInv => SitesInSync
  BY DEF IInv, Sync, TableSync, Excused, SitesInSync, Settled
<1>2. QED
  BY <1>1, Invariance, PTL

\* The TCP files are reloaded behind every reload of the sites, refused or not.
THEOREM TcpIsInSync == Spec => []TcpInSync
<1>1. IInv => TcpInSync
  BY DEF IInv, Sync, TcpSync, Excused, TcpInSync, Settled
<1>2. QED
  BY <1>1, Invariance, PTL

-----------------------------------------------------------------------------
(* A root that asks for a certificate, while the certificate is in order. *)

\* Where nothing but the impossible is refused, only that keeps a table old.
RootSync ==
    pc \in {"tcp", "tcpread", "watch", "wait"} =>
        Excused \/ root.needs = "the impossible" \/ table = Routing(sites, root)

LEMMA NextRootSync == IInv /\ IInv' /\ certs /\ RootSync /\ [Next]_vars => RootSync'
<1> SUFFICES ASSUME IInv, IInv', certs, RootSync, [Next]_vars PROVE RootSync'
  OBVIOUS
<1>1. CASE Editor
  <2>1. Saved
    BY <1>1 DEF Editor, SaveSite, SaveRoot, SaveTcp
  <2>2. Excused'
    BY <2>1, EmitKeeps DEF Saved, IInv, TypeOK, Events, Excused
  <2>3. QED
    BY <2>2 DEF RootSync
<1>2. ASSUME UNCHANGED disk, table' = table, ChangeQueued => ChangeQueued',
             pc' \in {"tcp", "tcpread", "watch", "wait"} =>
                 pc \in {"tcp", "tcpread", "watch", "wait"}
      PROVE  RootSync'
  <2>1. Routing(sites, root)' = Routing(sites, root) /\ (Excused => Excused') /\ root' = root
    BY <1>2 DEF disk, Routing, Served, Overlap, Valid, Excused
  <2>2. QED
    BY <1>2, <2>1 DEF RootSync
<1>3. CASE List \/ (\E f \in SiteFiles : ReadSite(f)) \/ Drain
  BY <1>3 DEF List, ReadSite, Drain, RootSync
<1>4. CASE ReadRoot
  BY <1>4 DEF ReadRoot, Refused, RootSync, disk
<1>5. CASE Install
  <2>1. CASE pc' = "tcp" /\ table' = Routing(loaded, loadedRoot) /\ UNCHANGED <<watching, queue>>
    <3>1. Excused => Excused'
      BY <1>5, <2>1 DEF Install, Excused, ChangeQueued, disk
    <3>2. ~Excused => table' = Routing(sites, root)
      BY <1>5, <2>1 DEF Install, IInv, Sync, InstallSync
    <3>3. Routing(sites, root)' = Routing(sites, root)
      BY <1>5 DEF Install, disk, Routing, Served,
              Overlap, Valid
    <3>4. QED
      BY <3>1, <3>2, <3>3 DEF RootSync
  <2>2. CASE pc' = "dead"
    BY <2>2 DEF RootSync
  <2>3. QED
    BY <1>5, <2>1, <2>2 DEF Install
<1>6. CASE ListTcp \/ (\E f \in TcpFiles : ReadTcp(f))
  <2>1. ChangeQueued => ChangeQueued'
    BY <1>6, EmitKeeps DEF ListTcp, ReadTcp, IInv, TypeOK, Events
  <2>2. QED
    BY <1>2, <1>6, <2>1 DEF ListTcp, ReadTcp, inForce
<1>7. CASE ApplyTcp \/ Watch
  <2>1. ChangeQueued => ChangeQueued'
    BY <1>7 DEF ApplyTcp, Watch, ChangeQueued
  <2>2. QED
    BY <1>2, <1>7, <2>1 DEF ApplyTcp, Watch, inForce
<1>8. CASE Receive
  <2>1. Head(queue) # "change" /\ ChangeQueued => ChangeQueued'
    BY <1>8, TailKeeps DEF Receive, IInv, TypeOK, Events
  <2>2. CASE Head(queue) = "change"
    BY <1>8, <2>2 DEF Receive, RootSync
  <2>3. CASE Head(queue) # "change"
    BY <1>2, <1>8, <2>1, <2>3 DEF Receive, inForce
  <2>4. QED
    BY <2>2, <2>3
<1>9. ASSUME NEW event \in {"access", "error"}, Noise(event) PROVE RootSync'
  <2>1. ChangeQueued => ChangeQueued'
    BY <1>9, EmitKeeps DEF Noise, IInv, TypeOK, Events
  <2>2. QED
    BY <1>2, <1>9, <2>1 DEF Noise, inForce
<1>10. CASE Elsewhere \/ UNCHANGED vars
  <2>1. ChangeQueued => ChangeQueued'
    BY <1>10 DEF Elsewhere, vars, ChangeQueued
  <2>2. QED
    BY <1>2, <1>10, <2>1 DEF Elsewhere, vars, inForce
<1>11. QED
  BY <1>1, <1>3, <1>4, <1>5, <1>6, <1>7, <1>8, <1>9, <1>10 DEF Next, Loader

\* While the files of the certificate are in order, an idle watcher has the root of the
\* directory in force too unless no certificate makes it good, whatever was refused
\* before.
THEOREM RootIsInSync == Spec => RootInSync
<1>1. Init => RootSync
  BY DEF Init, RootSync
<1>2. IInv /\ RootSync => (Settled /\ root.needs # "the impossible" => table = Routing(sites, root))
  BY DEF RootSync, Settled, Excused
<1>3. QED
  BY <1>1, <1>2, NextRootSync, Invariance, PTL DEF Spec, RootInSync
=============================================================================
