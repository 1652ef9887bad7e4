---------------------------- MODULE CertLifecycle ----------------------------
(***************************************************************************)
(* The certificate and key files of konnector and the three threads that   *)
(* replace them: startup (src/ssl.rs, src/application.rs), the TLS watcher *)
(* (src/ssl_watcher.rs) and the ACME issuer (src/acme.rs), through crashes,*)
(* failing writes and the restarts the threads ask for.                    *)
(*                                                                         *)
(* A certificate is the key pair it was made for, what is left of its life *)
(* and whether it covers the domains of the sites.  A file that cannot be  *)
(* parsed is one that does not match.                                      *)
(***************************************************************************)
EXTENDS Naturals, FiniteSets

CONSTANTS Environments,  \* settings of the environment, see Settings
          Pairs,         \* key pairs; as many as can be in use at once
          Platforms,     \* does a read of a watched file raise an event? (inotify: yes)
          MaxTroubles    \* bound on crashes, failing writes, the ageing of the
                         \* certificate and the copies of an operator, together

Kinds == {"acme", "cloudflare", "command", "none"}
Settings == [off : BOOLEAN, provider : Kinds \cup {"unset", "unknown"},
             token : BOOLEAN, command : BOOLEAN]

Missing == [file |-> "missing"]

ASSUME CertAssumption ==
    /\ Environments \subseteq Settings
    /\ Platforms \subseteq BOOLEAN
    /\ Missing \notin Pairs
    \* the two files, the listener's two and one for each thread, and a new one
    /\ IsFiniteSet(Pairs) /\ Cardinality(Pairs) >= 8
    /\ MaxTroubles \in Nat

Lives == {"fresh", "due", "expired"}
Certificate == [pair : Pairs, life : Lives, covers : BOOLEAN]

-----------------------------------------------------------------------------
(* Which provider the settings select. *)

\* resolve_tls_config: an explicit choice, or one by the token; Cloudflare
\* without a token falls back to Let's Encrypt.
Configured(e) ==
    CASE e.provider = "cloudflare" /\ ~e.token -> "acme"
      [] e.provider \in Kinds -> e.provider
      [] OTHER -> IF e.token THEN "cloudflare" ELSE "acme"

\* TlsProviderConfig::resolve: "none" gives way to a token or a command.
Provider(e) ==
    CASE Configured(e) # "none" -> Configured(e)
      [] Configured(e) = "none" /\ e.token -> "cloudflare"
      [] Configured(e) = "none" /\ ~e.token /\ e.command -> "command"
      [] OTHER -> "none"

Main == "main"
Watcher == "watcher"
Issuer == "issuer"
Threads == {Main, Watcher, Issuer}

VARIABLES env,       \* the settings
          named,     \* do the sites have DNS names a certificate can be for?
          reads,     \* the platform, see Platforms
          cert, key, \* the two files
          backoff,   \* the file retry_after: "none", "active", "past"
          ca,        \* does the certificate authority (or the command) deliver?
          at,        \* where each thread is
          hand,      \* the certificate a thread has in hand to write
          aim,       \* what the main thread refreshes for
          ready,     \* https_ready of run()
          queued,    \* an event of the watched directory is waiting
          https,     \* the pair the HTTPS listener was given
          clean,     \* history: no write of the two files was torn or overlapped
          cooling,   \* history: a failure was written down and its pause is not over
          late,      \* history: orders begun in this pause
          faults, ages, installs

fixed == <<env, named, reads>>
files == <<cert, key>>
pause == <<cooling, late>>
history == <<clean, pause>>
bounds == <<faults, ages, installs>>
vars == <<fixed, files, backoff, ca, at, hand, aim, ready, queued, https, history, bounds>>

kind == Provider(env)
NoTls == [pair |-> Missing, key |-> Missing]

\* A key pair just generated.
NewPair ==
    CHOOSE p \in Pairs :
        /\ p # key /\ p # https.pair /\ p # https.key
        /\ cert # Missing => p # cert.pair
        /\ \A a \in Threads : hand[a] # Missing => p # hand[a].pair

Made(life, covers) == [pair |-> NewPair, life |-> life, covers |-> covers]

FilesExist == cert # Missing /\ key # Missing

\* validate_certificate_files
Valid ==
    /\ FilesExist
    /\ cert.pair = key
    /\ cert.life # "expired"
    /\ named => cert.covers

\* certificate_expires_within 30 days, or unreadable
Due == cert = Missing \/ cert.life # "fresh"

Sound == Valid /\ ~Due

Watching == at[Watcher] \notin {"off", "starting"}
\* A read or a write of the files is seen by the watch.
Noticed(b) == queued' = (queued \/ (Watching /\ b))
CertRead == reads /\ cert # Missing

\* Threads other than a that are between the two renames.
Midway(a) == {b \in Threads \ {a} : at[b] = "key"}

Stay(a, stage) == at' = [at EXCEPT ![a] = stage]

Init ==
    /\ env \in {e \in Environments : ~e.off}
    /\ named \in BOOLEAN /\ reads \in Platforms
    /\ cert \in {Missing} \cup [pair : {CHOOSE p \in Pairs : TRUE}, life : Lives, covers : BOOLEAN]
    /\ key \in {Missing, CHOOSE p \in Pairs : TRUE}
    /\ clean = (IF cert = Missing THEN key = Missing ELSE cert.pair = key)
    /\ backoff \in {"none", "active"}
    /\ ca = TRUE
    /\ at = [a \in Threads |-> IF a = Main THEN "down" ELSE "off"]
    /\ hand = [a \in Threads |-> Missing]
    /\ aim = "none" /\ ready = TRUE /\ queued = FALSE /\ https = NoTls
    /\ cooling = (backoff = "active") /\ late = 0
    /\ faults = 0 /\ ages = 0 /\ installs = 0

-----------------------------------------------------------------------------
(* Surroundings: the service manager, the authority, time, the operator. *)

\* The process is gone, and the service manager will start another.
Gone ==
    /\ at' = [a \in Threads |-> IF a = Main THEN "down" ELSE "off"]
    /\ hand' = [a \in Threads |-> Missing]
    /\ aim' = "none" /\ ready' = TRUE /\ queued' = FALSE /\ https' = NoTls
    /\ UNCHANGED <<fixed, files, ca, pause>>

Trouble == faults + ages + installs < MaxTroubles

\* A crash, or a stop from outside, at any moment.
Crash ==
    /\ at[Main] # "down"
    /\ Trouble
    /\ faults' = faults + 1
    /\ clean' = (clean /\ \A a \in Threads : at[a] # "key")
    /\ Gone
    /\ UNCHANGED <<backoff, ages, installs>>

\* exit(75): Restart=on-failure.
Exit(a) ==
    /\ clean' = (clean /\ Midway(a) = {})
    /\ Gone
    /\ UNCHANGED bounds

Restart ==
    /\ at[Main] = "down"
    /\ Stay(Main, "ensure")
    /\ UNCHANGED <<fixed, files, backoff, ca, hand, aim, ready, queued, https, history, bounds>>

CaTurns ==
    /\ ca' = ~ca
    /\ UNCHANGED <<fixed, files, backoff, at, hand, aim, ready, queued, https, history, bounds>>

Age ==
    /\ Trouble
    /\ cert # Missing /\ cert.life # "expired"
    /\ cert' = [cert EXCEPT !.life = IF @ = "fresh" THEN "due" ELSE "expired"]
    /\ ages' = ages + 1
    /\ UNCHANGED <<fixed, key, backoff, ca, at, hand, aim, ready, queued, https, history, faults, installs>>

\* 15 minutes or an hour have passed.
Lapse ==
    /\ cooling
    /\ cooling' = FALSE /\ late' = 0
    /\ backoff' = IF backoff = "active" THEN "past" ELSE backoff
    /\ UNCHANGED <<fixed, files, ca, at, hand, aim, ready, queued, https, clean, bounds>>

\* An operator copies a sound pair in.
Install ==
    /\ Trouble
    /\ installs' = installs + 1
    /\ LET c == Made("fresh", TRUE) IN cert' = c /\ key' = c.pair
    /\ clean' = \A a \in Threads : at[a] # "key"
    /\ Noticed(TRUE)
    /\ UNCHANGED <<fixed, backoff, ca, at, hand, aim, ready, https, pause, faults, ages>>

\* A configuration reload: validate_server reads the files.
ReloadReads ==
    /\ at[Main] = "serving" /\ CertRead
    /\ Noticed(TRUE)
    /\ UNCHANGED <<fixed, files, backoff, ca, at, hand, aim, ready, https, history, bounds>>

-----------------------------------------------------------------------------
(* refresh_certificate and issue_certificate, in whichever thread. *)

\* What refresh_certificate and issue_certificate ask for before they act.
MayOrder(a) ==
    CASE kind = "acme"       -> backoff # "active"
      [] kind = "cloudflare" -> env.token
      [] kind = "command"    -> env.command
      [] kind = "none"       -> FALSE

\* backoff_remaining removes a file whose time has passed.
BackoffRead == backoff' = IF backoff = "past" THEN "none" ELSE backoff

Check(a) ==
    /\ at[a] = "check"
    /\ Stay(a, IF named /\ MayOrder(a) THEN "order" ELSE "err")
    /\ IF named /\ kind = "acme" THEN BackoffRead ELSE UNCHANGED backoff
    /\ UNCHANGED <<fixed, files, ca, hand, aim, ready, queued, https, history, bounds>>

\* issue_certificate_async up to the challenge; the account or the order may be
\* refused.
NewOrder(a) ==
    /\ at[a] = "order" /\ kind = "acme"
    /\ \/ Stay(a, "proof")
       \/ ~ca /\ Stay(a, "failed")
    /\ late' = IF cooling THEN late + 1 ELSE late
    /\ UNCHANGED <<fixed, files, backoff, ca, hand, aim, ready, queued, https, clean, cooling, bounds>>

\* Mistake to catch: the end of the order is not looked at before it is finalised.
ProofUnseen(a) ==
    /\ at[a] = "proof"
    /\ IF ca THEN hand' = [hand EXCEPT ![a] = Made("fresh", TRUE)] ELSE UNCHANGED hand
    /\ Stay(a, "cert")
    /\ UNCHANGED <<fixed, files, backoff, ca, aim, ready, queued, https, history, bounds>>

\* The authority asks port 80, and delivers or refuses.
Proof(a) ==
    /\ at[a] = "proof"
    /\ \/ /\ ca /\ at[Main] = "serving"
          /\ hand' = [hand EXCEPT ![a] = Made("fresh", TRUE)]
          /\ Stay(a, "cert")
       \/ /\ ~ca \/ at[Main] # "serving"
          /\ Stay(a, "failed")
          /\ UNCHANGED hand
    /\ UNCHANGED <<fixed, files, backoff, ca, aim, ready, queued, https, history, bounds>>

\* fetch_cloudflare_origin_certificate
Fetch(a) ==
    /\ at[a] = "order" /\ kind = "cloudflare"
    /\ IF ca
       THEN hand' = [hand EXCEPT ![a] = Made("fresh", TRUE)] /\ Stay(a, "cert")
       ELSE UNCHANGED hand /\ Stay(a, "err")
    /\ UNCHANGED <<fixed, files, backoff, ca, aim, ready, queued, https, history, bounds>>

\* run_fetch_command: the command writes the files, perhaps for other domains.
RunCommand(a) ==
    /\ at[a] = "order" /\ kind = "command"
    /\ \/ /\ ca
          /\ \E covers \in BOOLEAN :
                LET c == Made("fresh", covers) IN cert' = c /\ key' = c.pair
          /\ clean' = (Midway(a) = {})
          /\ Noticed(TRUE)
          /\ Stay(a, "ok")
       \/ ~ca /\ Stay(a, "err") /\ UNCHANGED <<files, clean, queued>>
    /\ UNCHANGED <<fixed, backoff, ca, hand, aim, ready, https, pause, bounds>>

\* write_certificate_files: the first rename ...
WriteCert(a) ==
    /\ at[a] = "cert"
    /\ cert' = hand[a]
    /\ clean' = (clean /\ Midway(a) = {})
    /\ Noticed(TRUE)
    /\ Stay(a, "key")
    /\ UNCHANGED <<fixed, key, backoff, ca, hand, aim, ready, https, pause, bounds>>

Placeholder(a) == a = Main /\ aim = "placeholder"
AcmeOrder(a) == kind = "acme" /\ ~Placeholder(a)

\* Mistake to catch: a key that is there already is kept.
WriteKeyIfNone(a) ==
    /\ at[a] = "key"
    /\ key' = IF key = Missing THEN hand[a].pair ELSE key
    /\ clean' = (clean \/ Midway(a) = {})
    /\ Noticed(TRUE)
    /\ Stay(a, IF AcmeOrder(a) THEN "clear" ELSE "ok")
    /\ hand' = [hand EXCEPT ![a] = Missing]
    /\ UNCHANGED <<fixed, cert, backoff, ca, aim, ready, https, pause, bounds>>

\* ... and the second.  A write that nobody overlaps heals what was torn.
WriteKey(a) ==
    /\ at[a] = "key"
    /\ key' = hand[a].pair
    /\ clean' = (clean \/ (Midway(a) = {} /\ cert = hand[a]))
    /\ Noticed(TRUE)
    /\ Stay(a, IF AcmeOrder(a) THEN "clear" ELSE "ok")
    /\ hand' = [hand EXCEPT ![a] = Missing]
    /\ UNCHANGED <<fixed, cert, backoff, ca, aim, ready, https, pause, bounds>>

\* Either write may fail; the first file stays.
WriteFails(a) ==
    /\ at[a] \in {"cert", "key"}
    /\ Trouble
    /\ faults' = faults + 1
    /\ clean' = (clean /\ at[a] = "cert")
    /\ Stay(a, IF AcmeOrder(a) THEN "failed" ELSE "err")
    /\ hand' = [hand EXCEPT ![a] = Missing]
    /\ UNCHANGED <<fixed, files, backoff, ca, aim, ready, queued, https, pause, ages, installs>>

ClearBackoff(a) ==
    /\ at[a] = "clear"
    /\ backoff' = "none"
    /\ cooling' = FALSE /\ late' = 0
    /\ Stay(a, "ok")
    /\ UNCHANGED <<fixed, files, ca, hand, aim, ready, queued, https, clean, bounds>>

\* Mistake to catch: a failure is not written down.
ForgetFailure(a) ==
    /\ at[a] = "failed"
    /\ cooling' = TRUE
    /\ Stay(a, "err")
    /\ UNCHANGED <<fixed, files, backoff, ca, hand, aim, ready, queued, https, clean, late, bounds>>

\* set_backoff_from_error
SetBackoff(a) ==
    /\ at[a] = "failed"
    /\ backoff' = "active" /\ cooling' = TRUE
    /\ Stay(a, "err")
    /\ UNCHANGED <<fixed, files, ca, hand, aim, ready, queued, https, clean, late, bounds>>

\* Writing the pause down may fail, which is only logged: nothing is written, or
\* the file is emptied, and an empty file is no pause.
PauseUnwritten(a) ==
    /\ at[a] = "failed"
    /\ Trouble
    /\ faults' = faults + 1
    /\ \/ UNCHANGED <<backoff, pause>>
       \/ backoff' = "none" /\ cooling' = FALSE /\ late' = 0
    /\ Stay(a, "err")
    /\ UNCHANGED <<fixed, files, ca, hand, aim, ready, queued, https, clean, ages, installs>>

Refresh(a) ==
    \/ Check(a) \/ NewOrder(a) \/ Proof(a) \/ Fetch(a) \/ RunCommand(a)
    \/ WriteCert(a) \/ WriteKey(a) \/ ClearBackoff(a) \/ SetBackoff(a)

-----------------------------------------------------------------------------
(* The main thread: ensure_valid_certificate, then run(). *)

\* prepare_for_startup: a temporary certificate, only when a file is missing.
\* It covers the domains and lives for seven days.
InstallPlaceholder ==
    IF ~Sound /\ ~FilesExist
    THEN /\ hand' = [hand EXCEPT ![Main] = Made("due", TRUE)]
         /\ Stay(Main, "cert")
         /\ aim' = "placeholder"
    ELSE Stay(Main, "boot") /\ UNCHANGED <<hand, aim>>

\* ensure_valid_certificate
Ensure ==
    /\ at[Main] = "ensure"
    /\ \/ /\ ~named \/ kind = "acme"
          /\ InstallPlaceholder
       \/ /\ named /\ kind # "acme" /\ Sound
          /\ Stay(Main, "boot") /\ UNCHANGED <<hand, aim>>
       \/ /\ named /\ kind # "acme" /\ ~Sound
          /\ Stay(Main, "check")
          /\ aim' = IF Valid THEN "renewal" ELSE "replacement"
          /\ UNCHANGED hand
    /\ UNCHANGED <<fixed, files, backoff, ca, ready, queued, https, history, bounds>>

\* What ensure_valid_certificate makes of the refresh; https_ready is given up
\* when no certificate could be put there.
Ensured ==
    /\ at[Main] \in {"ok", "err"}
    /\ \/ /\ aim = "replacement" /\ at[Main] = "err"
          /\ InstallPlaceholder
          /\ UNCHANGED ready
       \/ /\ aim # "replacement" \/ at[Main] = "ok"
          /\ ready' = CASE aim = "renewal"     -> TRUE
                        [] aim = "replacement" -> Valid
                        [] OTHER               -> at[Main] = "ok"
          /\ Stay(Main, "boot")
          /\ UNCHANGED <<hand, aim>>
    /\ UNCHANGED <<fixed, files, backoff, ca, queued, https, history, bounds>>

\* run(): the watcher is started, and the issuer when Let's Encrypt is to be asked.
Boot ==
    LET unsound == ready /\ kind = "acme" /\ ~Sound
    IN  /\ at[Main] = "boot"
        /\ at' = [at EXCEPT
                    ![Main] = "load",
                    ![Watcher] = IF ready THEN "starting" ELSE "off",
                    ![Issuer] = IF unsound /\ backoff # "active" THEN "delayed" ELSE "off"]
        /\ IF unsound THEN BackoffRead ELSE UNCHANGED backoff
        /\ aim' = "none"
        /\ UNCHANGED <<fixed, files, ca, hand, ready, queued, https, history, bounds>>

\* TlsSettings::intermediate; on an error HTTP alone is served.
Load ==
    /\ at[Main] = "load"
    /\ Stay(Main, "serving")
    /\ https' = IF ready /\ FilesExist THEN [pair |-> cert.pair, key |-> key] ELSE NoTls
    /\ Noticed(ready /\ CertRead)
    /\ UNCHANGED <<fixed, files, backoff, ca, hand, aim, ready, history, bounds>>

-----------------------------------------------------------------------------
(* The TLS watcher. *)

Watch ==
    /\ at[Watcher] = "starting"
    /\ Stay(Watcher, "waiting")
    /\ UNCHANGED <<fixed, files, backoff, ca, hand, aim, ready, queued, https, history, bounds>>

\* An event, 750 ms for more, and all of them are taken.
Receive ==
    /\ at[Watcher] = "waiting" /\ queued
    /\ queued' = FALSE
    /\ Stay(Watcher, "change")
    /\ UNCHANGED <<fixed, files, backoff, ca, hand, aim, ready, https, history, bounds>>

\* recv_timeout: nothing came for check_interval, six hours unless the settings say
\* otherwise; the main thread has long been serving.
Timeout ==
    /\ at[Watcher] = "waiting" /\ ~queued /\ at[Main] = "serving"
    /\ Stay(Watcher, "scheduled")
    /\ UNCHANGED <<fixed, files, backoff, ca, hand, aim, ready, queued, https, history, bounds>>

Handling == at[Watcher] \in {"change", "scheduled"}
Changed == at[Watcher] = "change"
Paused == kind = "acme" /\ backoff = "active"

\* handle_tls_change in the cooldown: the files are not even read.
HandlePaused ==
    /\ Handling /\ Paused
    /\ Stay(Watcher, "waiting")
    /\ UNCHANGED <<fixed, files, backoff, ca, hand, aim, ready, queued, https, history, bounds>>

HandleBackoff == IF kind = "acme" THEN BackoffRead ELSE UNCHANGED backoff

RenewSoon == kind # "none" /\ Due

\* Mistake to catch: a changed file restarts the process before it is checked.
HandleNewUnchecked ==
    /\ Handling /\ ~Paused
    /\ Changed
    /\ HandleBackoff
    /\ Exit(Watcher)

\* A sound certificate was put there: restart to load it.
HandleNew ==
    /\ Handling /\ ~Paused
    /\ Valid /\ ~RenewSoon /\ Changed
    /\ HandleBackoff
    /\ Exit(Watcher)


NeedsRefresh == (Valid => RenewSoon) /\ ~(kind = "acme" /\ Changed)

\* Nothing to do, or a refresh; its outcome is in WatcherDone.
HandleOther ==
    /\ Handling /\ ~Paused
    /\ ~(Valid /\ ~RenewSoon /\ Changed)
    /\ Stay(Watcher, IF NeedsRefresh THEN "check" ELSE "waiting")
    /\ HandleBackoff
    /\ Noticed(CertRead)
    /\ UNCHANGED <<fixed, files, ca, hand, aim, ready, https, history, bounds>>

\* After the refresh: restart when the files are valid now.
WatcherDone ==
    /\ at[Watcher] \in {"ok", "err"}
    /\ IF at[Watcher] = "ok" /\ Valid
       THEN Exit(Watcher) /\ UNCHANGED backoff
       ELSE /\ Stay(Watcher, "waiting")
            /\ Noticed(at[Watcher] = "ok" /\ CertRead)
            /\ UNCHANGED <<fixed, files, backoff, ca, hand, aim, ready, https, history, bounds>>

-----------------------------------------------------------------------------
(* The ACME issuer. *)

\* start_background_issuer: the cooldown again, then three seconds of sleep.
IssuerStarts ==
    /\ at[Issuer] = "delayed"
    /\ Stay(Issuer, IF backoff = "active" THEN "off" ELSE "check")
    /\ BackoffRead
    /\ UNCHANGED <<fixed, files, ca, hand, aim, ready, queued, https, history, bounds>>

\* It restarts the process, or ends.
IssuerDone ==
    /\ at[Issuer] \in {"ok", "err"}
    /\ IF at[Issuer] = "ok"
       THEN Exit(Issuer) /\ UNCHANGED backoff
       ELSE /\ Stay(Issuer, "off")
            /\ UNCHANGED <<fixed, files, backoff, ca, hand, aim, ready, queued, https, history, bounds>>

-----------------------------------------------------------------------------
MainStep == Refresh(Main) \/ Ensure \/ Ensured \/ Boot \/ Load
WatcherStep ==
    \/ Refresh(Watcher) \/ Watch \/ Receive \/ Timeout
    \/ HandlePaused \/ HandleNew \/ HandleOther \/ WatcherDone
IssuerStep == Refresh(Issuer) \/ IssuerStarts \/ IssuerDone

Environment ==
    \/ Restart \/ Crash \/ CaTurns \/ Age \/ Lapse \/ Install \/ ReloadReads
    \/ \E a \in Threads : WriteFails(a) \/ PauseUnwritten(a)

Next == MainStep \/ WatcherStep \/ IssuerStep \/ Environment

\* The threads run, recv_timeout ends, time passes, and the service manager
\* starts what has ended.  Nothing is assumed of the authority or the operator.
Spec ==
    /\ Init /\ [][Next]_vars
    /\ WF_vars(MainStep) /\ WF_vars(WatcherStep) /\ WF_vars(IssuerStep)
    /\ WF_vars(Restart) /\ WF_vars(Lapse)

-----------------------------------------------------------------------------
(* Properties *)

Working == {"check", "order", "proof", "cert", "key", "clear", "failed", "ok", "err"}
MainStages == {"down", "ensure", "boot", "load", "serving"} \cup Working
WatcherStages == {"off", "starting", "waiting", "change", "scheduled"} \cup Working
IssuerStages == {"off", "delayed"} \cup Working

\* Type invariant; who writes has something in hand.
TypeOK ==
    /\ env \in Environments /\ named \in BOOLEAN /\ reads \in BOOLEAN
    /\ cert \in Certificate \cup {Missing}
    /\ key \in Pairs \cup {Missing}
    /\ backoff \in {"none", "active", "past"}
    /\ ca \in BOOLEAN
    /\ at \in [Threads -> MainStages \cup WatcherStages \cup IssuerStages]
    /\ at[Main] \in MainStages /\ at[Watcher] \in WatcherStages
    /\ at[Issuer] \in IssuerStages
    /\ hand \in [Threads -> Certificate \cup {Missing}]
    /\ \A a \in Threads :
          at[a] \in {"cert", "key"} <=> hand[a] # Missing
    /\ aim \in {"none", "renewal", "replacement", "placeholder"}
    /\ ready \in BOOLEAN /\ queued \in BOOLEAN /\ clean \in BOOLEAN
    /\ https \in [pair : Pairs \cup {Missing}, key : Pairs \cup {Missing}]
    /\ cooling \in BOOLEAN /\ late \in Nat
    /\ faults \in Nat /\ ages \in Nat /\ installs \in Nat
    /\ faults + ages + installs <= MaxTroubles

Intact == IF cert = Missing THEN key = Missing ELSE cert.pair = key

\* The files hold one matching pair, or nothing, except between the two renames
\* of a write; only a writer that died or failed there, or two that overlapped,
\* can leave anything else, and the next undisturbed write heals it.
PairIntact == clean => Intact \/ \E a \in Threads : at[a] = "key"

\* Let's Encrypt is left alone for the pause that a failure wrote down, across crashes
\* and restarts too: of the two threads that may order, at most the one that was
\* past its check when the other's failure was written down still does.
LeftAlone == late <= 1

\* exit(75) is for a certificate worth loading: the next process finds a valid
\* one, so that a restart never leads to the next order.  The issuer alone does not
\* look at what it wrote: that may have expired since.
RestartFindsValid ==
    [][at[Main] # "down" /\ at'[Main] = "down" /\ faults' = faults
        => \/ Valid
           \/ at[Issuer] = "ok" /\ cert.life = "expired"
           \/ ~clean']_vars

HttpsValid ==
    https # NoTls /\ https.pair = https.key /\ Valid /\ https.pair = cert.pair

\* Something a certificate can be had for, and somebody who can be asked.
Served == named /\ kind \in {"acme", "cloudflare"}
AuthorityComesBack == <>[]ca
LeftToItself == []ready /\ [](installs = 0)
\* The check interval is hours, an order takes seconds: now and then the two
\* threads do order at once, but not for ever.
OverlapsEnd == <>[](at[Watcher] \notin Working \/ at[Issuer] \notin Working)

\* "the watcher renews when needed": whatever crashed, failed or expired, and
\* however often the authority was away, HTTPS is served with a valid pair in the
\* end.
Recovers ==
    Served /\ LeftToItself /\ AuthorityComesBack /\ OverlapsEnd => []<>HttpsValid


=============================================================================
