-------------------------- MODULE ReleaseActivation --------------------------
(***************************************************************************)
(* Installing and updating konnector on Linux (src/cli.rs,                 *)
(* src/platform_ops.rs): releases are directories, a link names the one in *)
(* force, and the service manager starts whatever the link names.  An      *)
(* archive is activated, watched and rolled back; a package is only linked *)
(* and started.  Any step may fail, and the command may be killed.         *)
(*                                                                         *)
(* One command runs at a time.  The link /usr/bin/konnector and users,     *)
(* modes and capabilities of files are left out, and so is what debhelper  *)
(* adds to the package's scripts.                                          *)
(***************************************************************************)
EXTENDS Naturals, Sequences, FiniteSets, SequencesExt

CONSTANTS Archives, Packages,  \* releases by the form they come in
          Broken,              \* start, and do not answer
          Dated,               \* archives with an entry for their own directory: tar
                               \* gives it the time it was packed
          Files, Shipped,      \* site files, and those a package or archive has
          KeepReleases,        \* 5 in the code
          MaxCommands,         \* bound on installs and updates
          MaxTroubles,         \* bound on failing steps and kills
          MaxEdits             \* bound on the sites the operator writes or deletes

Releases == Archives \cup Packages
NoRelease == "no_release"

ASSUME ReleaseAssumption ==
    /\ NoRelease \notin Releases
    /\ Archives \cap Packages = {}
    /\ Broken \subseteq Releases /\ Dated \subseteq Archives
    /\ Shipped \subseteq Files /\ Shipped # {}
    /\ KeepReleases \in Nat \ {0}
    /\ {MaxCommands, MaxTroubles, MaxEdits} \subseteq Nat

VARIABLES dirs,      \* the directories of releases, the last modified first
          configs,   \* the site files in configs/ of each release
          current,   \* the release the link names
          unit,      \* is the service installed?
          service,   \* "stopped", "active", "down" (to be restarted), "failed"
          run,       \* the release the service was started from
          port80,    \* does konnector listen on port 80? (HTTP_LISTEN)
          pc,        \* the step of the command
          target,    \* the release it installs
          previous,  \* the release activate_release returns to
          result,    \* how the last command ended
          before,    \* history: the release the link led to when the command began
          carried,   \* history: its site files then
          edited,    \* history: the operator changed a site since then
          rerun,     \* history: since then, the package's scripts were run again
                     \* when the link no longer led to that release
          disturbed, \* history: a step failed or a command was killed, and no
                     \* command has succeeded since
          commands, troubles, edits

disk == <<dirs, configs, current, unit>>
manager == <<service, run>>
command == <<pc, target, previous, result>>
history == <<before, carried, edited, rerun, disturbed>>
bounds == <<commands, troubles, edits>>
vars == <<disk, manager, port80, command, history, bounds>>

Present == Range(dirs)
Resolved(r) == IF r \in Present THEN r ELSE NoRelease

\* What a site file holds; "empty" is what is left of one that was truncated.
Contents == {"none", "shipped", "edited", "empty"}
NoSites == [f \in Files |-> "none"]
ShippedSites == [f \in Files |-> IF f \in Shipped THEN "shipped" ELSE "none"]
Sites(r) == IF r \in Present THEN configs[r] ELSE NoSites

-----------------------------------------------------------------------------
(* The service manager: Type=simple, Restart=on-failure. *)

\* ExecStart names the binary by the link.
Launch ==
    IF current \in Present
    THEN service' = "active" /\ run' = current
    ELSE service' = "down" /\ run' = NoRelease

ServiceCrashes ==
    /\ service = "active" /\ run \in Broken
    /\ service' = "down" /\ run' = NoRelease
    /\ UNCHANGED <<disk, port80, command, history, bounds>>

\* It is started again, or given up when that happened too often.
ServiceRestarts ==
    /\ service = "down"
    /\ \/ Launch
       \/ ~(current \in Present \ Broken) /\ service' = "failed" /\ UNCHANGED run
    /\ UNCHANGED <<disk, port80, command, history, bounds>>

\* systemctl fails, before or after it stopped what ran.
Refuses ==
    \/ UNCHANGED manager
    \/ service' = "failed" /\ run' = NoRelease

\* health_check asks 127.0.0.1:80.
Answers == service = "active" /\ run \notin Broken /\ port80

-----------------------------------------------------------------------------
(* Beginning and end of a command. *)

Goto(step) ==
    /\ pc' = step
    /\ UNCHANGED <<target, result, history, bounds>>

Ends(how) ==
    /\ pc' = "idle"
    /\ result' = how
    /\ disturbed' = (disturbed /\ how # "ok")
    /\ UNCHANGED <<target, before, carried, edited, rerun, bounds>>

Trouble == troubles < MaxTroubles /\ troubles' = troubles + 1

\* A step fails, and `?` ends the command.
Fails ==
    /\ Trouble
    /\ pc' = "idle" /\ result' = "failed"
    /\ disturbed' = TRUE
    /\ UNCHANGED <<target, previous, before, carried, edited, rerun, commands,
                   edits>>

\* install_deb_package has apt-get and dpkg run the scripts of a package again.
FailsOrRunsAgain ==
    \/ Fails
    \/ /\ target \in Packages
       /\ Trouble
       /\ pc' = "stop"
       /\ rerun' = (rerun \/ Resolved(current) # before)
       /\ disturbed' = TRUE
       /\ UNCHANGED <<target, previous, result, before, carried, edited, commands, edits>>

Killed ==
    /\ pc # "idle"
    /\ Trouble
    /\ pc' = "idle" /\ result' = "killed"
    /\ disturbed' = TRUE
    /\ UNCHANGED <<disk, manager, port80, target, previous, before, carried, edited, rerun,
                   commands, edits>>

\* cmd_install, cmd_update; a version that is installed already may come again
\* as a package, an archive gets a directory of its own.
Begin(r) ==
    /\ pc = "idle"
    /\ commands < MaxCommands
    /\ commands' = commands + 1
    /\ r \in Packages \/ r \in Archives \ (Present \cup {current})
    /\ pc' = IF r \in Archives THEN "unpack" ELSE "stop"
    /\ target' = r
    /\ previous' = NoRelease
    /\ result' = "none"
    /\ before' = Resolved(current) /\ carried' = Sites(current)
    /\ edited' = FALSE /\ rerun' = FALSE
    /\ UNCHANGED <<disk, manager, port80, disturbed, troubles, edits>>

-----------------------------------------------------------------------------
(* install_archive up to activate_release. *)

\* A directory made now was modified last; that of a dated archive says when it was
\* packed, which is any time before.
Places == IF target \in Dated THEN 1..(Len(dirs) + 1) ELSE {1}

\* The download or its checksum may fail.  What fails once the directory is there
\* leaves it: tar, or a look that finds no binary or no configs/ in it.
Unpack ==
    /\ pc = "unpack"
    /\ \/ /\ Ends("failed")
          /\ UNCHANGED <<dirs, configs, previous>>
       \/ /\ \E place \in Places : dirs' = InsertAt(dirs, place, target)
          /\ \/ /\ configs' = [configs EXCEPT ![target] = ShippedSites]
                /\ previous' = Resolved(current)
                /\ Goto("unlink")
             \/ /\ configs' = [configs EXCEPT ![target] = NoSites]
                /\ Ends("failed")
                /\ UNCHANGED previous
    /\ UNCHANGED <<current, unit, manager, port80>>

-----------------------------------------------------------------------------
(* The package: prerm, then cmd_init from postinst. *)

\* prerm of the package before, if one is installed, stops a service that is active
\* and goes on when that fails; then dpkg unpacks, the unit among the rest.
Stop ==
    /\ pc = "stop"
    /\ \/ service = "active" /\ service' = "stopped" /\ run' = NoRelease
       \/ UNCHANGED manager
    /\ \/ unit' = TRUE /\ Goto("copy") /\ UNCHANGED previous
       \/ unit' \in {unit, TRUE} /\ FailsOrRunsAgain
    /\ UNCHANGED <<dirs, configs, current, port80>>

\* Mistake to catch: a directory is made for a version that has one.
WithTargetAnew == <<target>> \o dirs

\* The directory of a version that has one keeps its time: files in it are written,
\* none is made.
WithTarget == IF target \in Present THEN dirs ELSE <<target>> \o dirs

\* config_dir_has_sites of the release in force
HasSites == Sites(current) # NoSites

\* Mistake to catch: a site the directory has already is not overwritten.
CopiedWhereMissing(written) ==
    LET source == IF HasSites THEN Sites(current) ELSE ShippedSites
    IN  [f \in Files |->
            CASE f \notin written \/ configs[target][f] # "none" -> configs[target][f]
              [] OTHER                                           -> source[f]]

\* copy_configs_to and copy_tree: the files of the release in force, else those of
\* the package, are written over what the directory has, and nothing is removed
\* from it.  A file that is copied onto itself is truncated first.
Copied(written) ==
    LET source == IF HasSites THEN Sites(current) ELSE ShippedSites
    IN  [f \in Files |->
            CASE f \notin written \/ source[f] = "none" -> configs[target][f]
              [] f \in written /\ source[f] # "none"    ->
                     IF HasSites /\ current = target THEN "empty" ELSE source[f]]

Copy ==
    /\ pc = "copy"
    /\ dirs' = WithTarget
    /\ \/ /\ configs' = [configs EXCEPT ![target] = Copied(Files)]
          /\ Goto("unlink") /\ UNCHANGED previous
       \/ /\ \E written \in SUBSET Files :
                configs' = [configs EXCEPT ![target] = Copied(written)]
          /\ FailsOrRunsAgain
    /\ UNCHANGED <<current, unit, manager, port80>>

-----------------------------------------------------------------------------
(* link_current and what follows it in activate_release and cmd_init. *)

\* The old link is removed ...
Unlink ==
    /\ pc = "unlink"
    /\ current' = NoRelease
    /\ Goto("link")
    /\ UNCHANGED <<dirs, configs, unit, manager, port80, previous>>

\* Mistake to catch: the release to return to is read behind the new link.
LinkAndLookBack ==
    /\ pc = "link"
    /\ current' = target /\ previous' = target
    /\ Goto("unit")
    /\ UNCHANGED <<dirs, configs, unit, manager, port80>>

\* ... and the new one created.
Link ==
    /\ pc = "link"
    /\ \/ current' = target /\ Goto("unit") /\ UNCHANGED previous
       \/ UNCHANGED current /\ FailsOrRunsAgain
    /\ UNCHANGED <<dirs, configs, unit, manager, port80>>

\* install_service: writing the unit may fail, or what follows it.
InstallService ==
    /\ pc = "unit"
    /\ \/ unit' = TRUE /\ Goto("start") /\ UNCHANGED previous
       \/ unit' \in {unit, TRUE} /\ FailsOrRunsAgain
    /\ UNCHANGED <<dirs, configs, current, manager, port80>>

\* systemctl restart or start
Start ==
    /\ pc = "start"
    /\ \/ /\ Launch
          /\ Goto(IF target \in Archives THEN "wait" ELSE "finish")
          /\ UNCHANGED previous
       \/ Refuses /\ FailsOrRunsAgain
    /\ UNCHANGED <<disk, port80>>

\* The release before is put back, if there was one.
GiveUp ==
    /\ \/ previous = NoRelease /\ Ends("failed")
       \/ previous # NoRelease /\ Goto("back_unlink")
    /\ UNCHANGED previous

\* Fifteen looks whether the service is active.
Wait ==
    /\ pc = "wait"
    /\ \/ service = "active" /\ Goto("health") /\ UNCHANGED previous
       \/ service # "active" /\ GiveUp
    /\ UNCHANGED <<disk, manager, port80>>

\* Mistake to catch: one look that comes too early decides.
HealthAtOnce ==
    /\ pc = "health"
    /\ \/ Answers /\ Goto("prune") /\ UNCHANGED previous
       \/ GiveUp
    /\ UNCHANGED <<disk, manager, port80>>

\* wait_for_health: twenty questions.
Health ==
    /\ pc = "health"
    /\ \/ Answers /\ Goto("prune") /\ UNCHANGED previous
       \/ ~Answers /\ GiveUp
    /\ UNCHANGED <<disk, manager, port80>>

\* Mistake to catch: the oldest are kept.
KeptOldest == IF Len(dirs) > KeepReleases
              THEN SubSeq(dirs, Len(dirs) - KeepReleases + 1, Len(dirs)) ELSE dirs

Kept == SubSeq(dirs, 1, IF Len(dirs) < KeepReleases THEN Len(dirs) ELSE KeepReleases)

\* prune_releases sorts by the times of the directories and spares none, the linked
\* release included.
Prune ==
    /\ pc = "prune"
    /\ \/ /\ dirs' = Kept
          /\ configs' = [r \in Releases |-> IF r \in Range(Kept) THEN configs[r] ELSE NoSites]
          /\ Goto("finish") /\ UNCHANGED previous
       \/ Fails /\ UNCHANGED <<dirs, configs>>
    /\ UNCHANGED <<current, unit, manager, port80>>

\* The rollback; whatever fails in it is ignored.
BackUnlink ==
    /\ pc = "back_unlink"
    /\ current' = NoRelease
    /\ Goto("back_link")
    /\ UNCHANGED <<dirs, configs, unit, manager, port80, previous>>

BackLink ==
    /\ pc = "back_link"
    /\ pc' = "back_start"
    /\ \/ current' = previous /\ UNCHANGED <<disturbed, troubles>>
       \/ Trouble /\ disturbed' = TRUE /\ UNCHANGED current
    /\ UNCHANGED <<dirs, configs, unit, manager, port80, previous, target, result,
                   before, carried, edited, rerun, commands,
                   edits>>

\* Mistake to catch: the service goes on with the release that failed.
BackWithoutStart ==
    /\ pc = "back_start"
    /\ Ends("failed")
    /\ UNCHANGED <<disk, manager, port80, previous>>

BackStart ==
    /\ pc = "back_start"
    /\ \/ Launch /\ Ends("failed") /\ UNCHANGED previous
       \/ Refuses /\ Fails
    /\ UNCHANGED <<disk, port80>>

\* finish_service_after_package restarts once more, or starts when that fails, and
\* may fail at both.
Finish ==
    /\ pc = "finish"
    /\ \/ Launch /\ Ends("ok") /\ UNCHANGED previous
       \/ Refuses /\ Fails
    /\ UNCHANGED <<disk, port80>>

-----------------------------------------------------------------------------
(* The operator, between two commands or, with an editor, at any time. *)

\* A site is written or deleted in the release in force.
Edit ==
    /\ current \in Present
    /\ \E f \in Files, content \in {"edited", "none"} :
          /\ configs[current][f] # content
          /\ configs' = [configs EXCEPT ![current][f] = content]
    /\ edits < MaxEdits /\ edits' = edits + 1
    /\ edited' = TRUE
    /\ UNCHANGED <<dirs, current, unit, manager, port80, command, before, carried,
                   rerun, disturbed, commands, troubles>>

\* cmd_start, cmd_restart and cmd_reload, whose reload fails for want of an
\* ExecReload
CmdRestart ==
    /\ pc = "idle" /\ unit
    /\ Launch
    /\ UNCHANGED <<disk, port80, command, history, bounds>>

CmdStop ==
    /\ pc = "idle" /\ unit
    /\ service' = "stopped" /\ run' = NoRelease
    /\ UNCHANGED <<disk, port80, command, history, bounds>>

\* cmd_remove_service
CmdRemove ==
    /\ pc = "idle"
    /\ unit' = FALSE
    /\ service' = "stopped" /\ run' = NoRelease
    /\ UNCHANGED <<dirs, configs, current, port80, command, history, bounds>>

\* cmd_uninstall_all; where apt-get fails to purge the package, nothing is removed.
CmdUninstall ==
    /\ pc = "idle"
    /\ service' = "stopped" /\ run' = NoRelease
    /\ \/ /\ dirs' = <<>> /\ configs' = [r \in Releases |-> NoSites]
          /\ current' = NoRelease /\ unit' = FALSE
          /\ result' = "none" /\ before' = NoRelease /\ carried' = NoSites
          /\ UNCHANGED troubles
       \/ Trouble /\ UNCHANGED <<disk, result, before, carried>>
    /\ UNCHANGED <<port80, pc, target, previous, edited, rerun, disturbed, commands,
                   edits>>

-----------------------------------------------------------------------------
\* A bare machine, or one with a package whose service runs.
Init ==
    /\ \E r \in Packages \cup {NoRelease} :
          /\ dirs = IF r = NoRelease THEN <<>> ELSE <<r>>
          /\ configs = [x \in Releases |-> IF x = r THEN ShippedSites ELSE NoSites]
          /\ current = r /\ run = r
          /\ unit = (r # NoRelease)
          /\ service = IF r = NoRelease THEN "stopped" ELSE "active"
    /\ port80 \in BOOLEAN
    /\ pc = "idle" /\ target = NoRelease /\ previous = NoRelease /\ result = "none"
    /\ before = NoRelease /\ carried = NoSites
    /\ edited = FALSE /\ rerun = FALSE /\ disturbed = FALSE
    /\ commands = 0 /\ troubles = 0 /\ edits = 0

Step ==
    \/ Unpack \/ Stop \/ Copy \/ Unlink \/ Link \/ InstallService \/ Start \/ Wait
    \/ Health \/ Prune \/ BackUnlink \/ BackLink \/ BackStart \/ Finish

Operator == Edit \/ CmdRestart \/ CmdStop \/ CmdRemove \/ CmdUninstall

Next ==
    \/ \E r \in Releases : Begin(r)
    \/ Step \/ Killed \/ ServiceCrashes \/ ServiceRestarts \/ Operator

Spec == Init /\ [][Next]_vars

-----------------------------------------------------------------------------
(* Properties *)

Steps ==
    {"idle", "unpack", "stop", "copy", "unlink", "link", "unit", "start", "wait",
     "health", "prune", "back_unlink", "back_link", "back_start", "finish"}

\* Type invariant; a release has one directory.
TypeOK ==
    /\ dirs \in Seq(Releases)
    /\ \A i, j \in DOMAIN dirs : i # j => dirs[i] # dirs[j]
    /\ configs \in [Releases -> [Files -> Contents]]
    /\ {current, run, target, previous, before} \subseteq Releases \cup {NoRelease}
    /\ unit \in BOOLEAN /\ port80 \in BOOLEAN
    /\ service \in {"stopped", "active", "down", "failed"}
    /\ service = "active" <=> run # NoRelease
    /\ pc \in Steps
    /\ result \in {"none", "ok", "failed", "killed"}
    /\ carried \in [Files -> Contents]
    /\ edited \in BOOLEAN /\ rerun \in BOOLEAN /\ disturbed \in BOOLEAN
    /\ commands \in 0..MaxCommands /\ troubles \in 0..MaxTroubles /\ edits \in 0..MaxEdits

\* The service manager can start the service again: through pruning, failed
\* unpacking, rollbacks and kills the link names no release that is gone, but an
\* archive that brought its own time, which its own activation may prune.  A command
\* that ends well has the link name what it installed, whatever was left to it; and
\* while nothing fails there is no link only between its removal and its creation.
LinkResolves ==
    /\ current # NoRelease /\ current \notin Dated => current \in Present
    /\ result = "ok" => current = target
    /\ before # NoRelease /\ ~disturbed /\ pc \notin {"link", "back_link"} =>
          current # NoRelease

\* A release that does not come up leaves the machine as it was: when a command
\* fails although each of its own steps worked, the link names what it named before.
FailureRestores ==
    result = "failed" /\ ~disturbed /\ before # NoRelease => current = before

\* A sound release is never rolled back, provided konnector listens where
\* health_check asks, whatever happened to the commands before.
SoundStays ==
    pc \in {"back_unlink", "back_link", "back_start"} /\ port80 => target \in Broken

\* Between two commands the service runs what the link names, so that a crash and a
\* restart change nothing.
RunsWhatIsLinked ==
    pc = "idle" /\ ~disturbed /\ service = "active" => run = current

\* Another version of the package has every site of the release before it as it was,
\* also when it goes back to a version whose directory has old ones, and whatever
\* failed or was killed on the way; unless the operator was editing them meanwhile, or
\* the package's scripts were run again after the old link was gone.
UpgradeCarriesSites ==
    result = "ok" /\ target \in Packages /\ target # before /\ ~edited /\ ~rerun =>
        /\ current = target
        /\ \A f \in Files : carried[f] # "none" => configs[current][f] = carried[f]

\* "a same-version .deb is still applied": the sites of the release are not emptied
\* by it.
ReinstallKeepsSites == \A r \in Present, f \in Files : configs[r][f] # "empty"
=============================================================================
