------------------------- MODULE CertLifecycleProofs -------------------------
(***************************************************************************)
(* Proofs about CertLifecycle for any settings, any number of crashes,     *)
(* failing writes and copies, and any way the three threads interleave.    *)
(***************************************************************************)
EXTENDS CertLifecycle, FiniteSetTheorems, TLAPS

-----------------------------------------------------------------------------
(* Key pairs. *)

\* Eight pairs leave one that differs from any seven values.
LEMMA EighthPair ==
    \A u1, u2, u3, u4, u5, u6, u7 :
        \E p \in Pairs : /\ p # u1 /\ p # u2 /\ p # u3 /\ p # u4
                         /\ p # u5 /\ p # u6 /\ p # u7
<1> SUFFICES ASSUME NEW u1, NEW u2, NEW u3, NEW u4, NEW u5, NEW u6, NEW u7
             PROVE  \E p \in Pairs : /\ p # u1 /\ p # u2 /\ p # u3 /\ p # u4
                                     /\ p # u5 /\ p # u6 /\ p # u7
  OBVIOUS
<1> DEFINE S1 == {} \cup {u1}
           S2 == S1 \cup {u2}
           S3 == S2 \cup {u3}
           S4 == S3 \cup {u4}
           S5 == S4 \cup {u5}
           S6 == S5 \cup {u6}
           S7 == S6 \cup {u7}
<1>1. IsFiniteSet({}) /\ Cardinality({}) = 0
  BY FS_EmptySet
<1>2. IsFiniteSet(S1) /\ Cardinality(S1) \in 0..1
  BY <1>1, FS_AddElement
<1> HIDE DEF S1
<1>3. IsFiniteSet(S2) /\ Cardinality(S2) \in 0..2
  BY <1>2, FS_AddElement
<1> HIDE DEF S2
<1>4. IsFiniteSet(S3) /\ Cardinality(S3) \in 0..3
  BY <1>3, FS_AddElement
<1> HIDE DEF S3
<1>5. IsFiniteSet(S4) /\ Cardinality(S4) \in 0..4
  BY <1>4, FS_AddElement
<1> HIDE DEF S4
<1>6. IsFiniteSet(S5) /\ Cardinality(S5) \in 0..5
  BY <1>5, FS_AddElement
<1> HIDE DEF S5
<1>7. IsFiniteSet(S6) /\ Cardinality(S6) \in 0..6
  BY <1>6, FS_AddElement
<1> HIDE DEF S6
<1>8. IsFiniteSet(S7) /\ Cardinality(S7) \in 0..7
  BY <1>7, FS_AddElement
<1> HIDE DEF S7
<1>9. ~(Pairs \subseteq S7)
  <2> SUFFICES ASSUME Pairs \subseteq S7 PROVE FALSE
    OBVIOUS
  <2>1. Cardinality(Pairs) <= Cardinality(S7)
    BY <1>8, FS_Subset
  <2>2. IsFiniteSet(Pairs) /\ Cardinality(Pairs) >= 8 /\ Cardinality(Pairs) \in Nat
    BY CertAssumption, FS_CardinalityType
  <2>3. QED
    BY <2>1, <2>2, <1>8
<1>10. QED
  BY <1>9 DEF S1, S2, S3, S4, S5, S6, S7

\* A pair just generated is a pair, in every state.
LEMMA NewPairIsPair == NewPair \in Pairs
<1>1. \E p \in Pairs : /\ p # key /\ p # https.pair /\ p # https.key
                       /\ p # cert.pair /\ p # hand[Main].pair
                       /\ p # hand[Watcher].pair /\ p # hand[Issuer].pair
  <2> DEFINE Sought(u1, u2, u3, u4, u5, u6, u7) ==
        \E p \in Pairs : /\ p # u1 /\ p # u2 /\ p # u3 /\ p # u4
                         /\ p # u5 /\ p # u6 /\ p # u7
  <2>1. \A u1, u2, u3, u4, u5, u6, u7 : Sought(u1, u2, u3, u4, u5, u6, u7)
    BY EighthPair
  <2> HIDE DEF Sought
  <2>2. Sought(key, https.pair, https.key, cert.pair,
               hand[Main].pair, hand[Watcher].pair, hand[Issuer].pair)
    BY <2>1
  <2>3. QED
    BY <2>2 DEF Sought
<1>2. \E p \in Pairs :
          /\ p # key /\ p # https.pair /\ p # https.key
          /\ cert # Missing => p # cert.pair
          /\ \A a \in Threads : hand[a] # Missing => p # hand[a].pair
  BY <1>1 DEF Threads
<1>3. QED
  BY <1>2 DEF NewPair

\* A certificate is not a missing file.
LEMMA CertificateIsThere == \A c \in Certificate : c # Missing
BY DEF Certificate, Missing

\* What is made with a new pair is a certificate.
LEMMA MadeIsCertificate ==
    \A life \in Lives, covers \in BOOLEAN :
        Made(life, covers) \in Certificate /\ Made(life, covers) # Missing
BY NewPairIsPair, CertificateIsThere DEF Made, Certificate

-----------------------------------------------------------------------------
(* Types. *)

SettingOK == env \in Environments /\ named \in BOOLEAN /\ reads \in BOOLEAN
FilesOK ==
    /\ cert \in Certificate \cup {Missing}
    /\ key \in Pairs \cup {Missing}
    /\ https \in [pair : Pairs \cup {Missing}, key : Pairs \cup {Missing}]
StagesOK ==
    /\ at \in [Threads -> MainStages \cup WatcherStages \cup IssuerStages]
    /\ at[Main] \in MainStages /\ at[Watcher] \in WatcherStages
    /\ at[Issuer] \in IssuerStages
HandsOK ==
    /\ hand \in [Threads -> Certificate \cup {Missing}]
    /\ \A a \in Threads : at[a] \in {"cert", "key"} <=> hand[a] # Missing
FlagsOK ==
    /\ backoff \in {"none", "active", "past"}
    /\ aim \in {"none", "renewal", "replacement", "placeholder"}
    /\ ca \in BOOLEAN /\ ready \in BOOLEAN /\ queued \in BOOLEAN
    /\ clean \in BOOLEAN /\ cooling \in BOOLEAN
CountsOK ==
    /\ late \in Nat /\ faults \in Nat /\ ages \in Nat /\ installs \in Nat
    /\ faults + ages + installs <= MaxTroubles

\* The other threads are started last.
Alone ==
    at[Main] \notin {"load", "serving"} => at[Watcher] = "off" /\ at[Issuer] = "off"

\* The type invariant in parts, and what makes it inductive.
Types ==
    SettingOK /\ FilesOK /\ StagesOK /\ HandsOK /\ FlagsOK /\ CountsOK /\ Alone

LEMMA TypesAreTypeOK == Types => TypeOK
BY DEF TypeOK, Types, SettingOK, FilesOK, StagesOK, HandsOK, FlagsOK, CountsOK

\* A thread that moves on in its work, or the main thread to a stage of its own.
LEMMA Moves ==
    /\ StagesOK => \A a \in Threads, s \in Working : Stay(a, s) => StagesOK'
    /\ StagesOK => \A s \in MainStages : Stay(Main, s) => StagesOK'
BY DEF StagesOK, Stay, Main, Watcher, Issuer, Threads,
       MainStages, WatcherStages, IssuerStages, Working

\* A move with nothing in hand, and one that takes a new certificate.
LEMMA Hands ==
    /\ HandsOK /\ StagesOK =>
          \A a \in Threads, s \in MainStages \cup WatcherStages \cup IssuerStages :
              /\ at[a] \notin {"cert", "key"} /\ s \notin {"cert", "key"}
              /\ Stay(a, s) /\ UNCHANGED hand
              => HandsOK'
    /\ HandsOK /\ StagesOK =>
          \A a \in Threads, c \in Certificate :
              Stay(a, "cert") /\ hand' = [hand EXCEPT ![a] = c] => HandsOK'
BY CertificateIsThere DEF HandsOK, StagesOK, Stay

LEMMA CheckType == ASSUME Types, NEW a \in Threads, Check(a) PROVE Types'
<1> USE DEF Check, MayOrder, BackoffRead, fixed, files, pause, history, bounds
<1>0. SettingOK /\ FilesOK /\ StagesOK /\ HandsOK /\ FlagsOK /\ CountsOK /\ Alone
  BY DEF Types
<1>1. SettingOK' /\ FilesOK' /\ FlagsOK' /\ CountsOK'
  BY <1>0, CertAssumption
     DEF SettingOK, FilesOK, FlagsOK, CountsOK, Noticed
<1>2. StagesOK' /\ HandsOK' /\ Alone'
  BY <1>0, MadeIsCertificate, CertificateIsThere, NewPairIsPair
     DEF StagesOK, HandsOK, Alone, Lives,
         Stay, Main, Watcher, Issuer,
         Threads, MainStages, WatcherStages, IssuerStages, Working
<1>3. QED
  BY <1>1, <1>2 DEF Types

LEMMA NewOrderType == ASSUME Types, NEW a \in Threads, NewOrder(a) PROVE Types'
<1> USE DEF NewOrder, fixed, files, pause, history, bounds
<1>0. SettingOK /\ FilesOK /\ StagesOK /\ HandsOK /\ FlagsOK /\ CountsOK /\ Alone
  BY DEF Types
<1>1. SettingOK' /\ FilesOK' /\ FlagsOK' /\ CountsOK'
  BY <1>0, CertAssumption
     DEF SettingOK, FilesOK, FlagsOK, CountsOK, Noticed
<1>2. StagesOK' /\ HandsOK' /\ Alone'
  BY <1>0, MadeIsCertificate, CertificateIsThere, NewPairIsPair
     DEF StagesOK, HandsOK, Alone, Lives,
         Stay, Main, Watcher, Issuer,
         Threads, MainStages, WatcherStages, IssuerStages, Working
<1>3. QED
  BY <1>1, <1>2 DEF Types

LEMMA ProofType == ASSUME Types, NEW a \in Threads, Proof(a) PROVE Types'
<1> USE DEF Proof, fixed, files, pause, history, bounds
<1>0. SettingOK /\ FilesOK /\ StagesOK /\ HandsOK /\ FlagsOK /\ CountsOK /\ Alone
  BY DEF Types
<1>1. SettingOK' /\ FilesOK' /\ FlagsOK' /\ CountsOK'
  BY <1>0, CertAssumption
     DEF SettingOK, FilesOK, FlagsOK, CountsOK, Noticed
<1>2. Alone'
  BY <1>0 DEF StagesOK, Alone,
         Stay, Main, Watcher, Issuer,
         Threads, MainStages, WatcherStages, IssuerStages, Working
<1>3. StagesOK'
  <2>1. Stay(a, "cert") \/ Stay(a, "failed")
    OBVIOUS
  <2> HIDE DEF Proof
  <2>2. QED
    BY <1>0, <2>1, Moves DEF Working, MainStages, Main
<1>4. HandsOK'
  <2>1. /\ at[a] \notin {"cert", "key"}
        /\ \/ Stay(a, "failed") /\ UNCHANGED hand
           \/ \E life \in Lives : /\ Stay(a, "cert")
                                  /\ hand' = [hand EXCEPT ![a] = Made(life, TRUE)]
    BY DEF Lives
  <2> HIDE DEF Proof
  <2>2. a \in Threads
    BY DEF Threads
  <2>3. QED
    BY <1>0, <2>1, <2>2, Hands, MadeIsCertificate DEF MainStages, Working
<1>5. QED
  BY <1>1, <1>2, <1>3, <1>4 DEF Types

LEMMA FetchType == ASSUME Types, NEW a \in Threads, Fetch(a) PROVE Types'
<1> USE DEF Fetch, fixed, files, pause, history, bounds
<1>0. SettingOK /\ FilesOK /\ StagesOK /\ HandsOK /\ FlagsOK /\ CountsOK /\ Alone
  BY DEF Types
<1>1. SettingOK' /\ FilesOK' /\ FlagsOK' /\ CountsOK'
  BY <1>0, CertAssumption
     DEF SettingOK, FilesOK, FlagsOK, CountsOK, Noticed
<1>2. StagesOK' /\ Alone'
  BY <1>0 DEF StagesOK, Alone,
         Stay, Main, Watcher, Issuer,
         Threads, MainStages, WatcherStages, IssuerStages, Working
<1>3. HandsOK'
  <2>1. /\ at[a] \notin {"cert", "key"}
        /\ \/ Stay(a, "err") /\ UNCHANGED hand
           \/ \E life \in Lives : /\ Stay(a, "cert")
                                  /\ hand' = [hand EXCEPT ![a] = Made(life, TRUE)]
    BY DEF Lives
  <2> HIDE DEF Fetch
  <2>2. a \in Threads
    BY DEF Threads
  <2>3. QED
    BY <1>0, <2>1, <2>2, Hands, MadeIsCertificate DEF MainStages, Working
<1>4. QED
  BY <1>1, <1>2, <1>3 DEF Types

LEMMA RunCommandType == ASSUME Types, NEW a \in Threads, RunCommand(a) PROVE Types'
<1> USE DEF RunCommand, fixed, files, pause, history, bounds
<1>0. SettingOK /\ FilesOK /\ StagesOK /\ HandsOK /\ FlagsOK /\ CountsOK /\ Alone
  BY DEF Types
<1>1. SettingOK' /\ FlagsOK' /\ CountsOK'
  BY <1>0, CertAssumption
     DEF SettingOK, FlagsOK, CountsOK, Noticed
<1>2. HandsOK' /\ Alone'
  BY <1>0, MadeIsCertificate, CertificateIsThere, NewPairIsPair
     DEF StagesOK, HandsOK, Alone, Lives,
         Stay, Main, Watcher, Issuer,
         Threads, MainStages, WatcherStages, IssuerStages, Working
<1>3. FilesOK'
  BY <1>0, MadeIsCertificate, CertificateIsThere, NewPairIsPair DEF FilesOK, Made, Certificate, Lives
<1>4. StagesOK'
  <2>1. Stay(a, "ok") \/ Stay(a, "err")
    OBVIOUS
  <2> HIDE DEF RunCommand
  <2>2. QED
    BY <1>0, <2>1, Moves DEF Working, MainStages, Main
<1>5. QED
  BY <1>1, <1>2, <1>3, <1>4 DEF Types

LEMMA WriteCertType == ASSUME Types, NEW a \in Threads, WriteCert(a) PROVE Types'
<1> USE DEF WriteCert, fixed, files, pause, history, bounds
<1>0. SettingOK /\ FilesOK /\ StagesOK /\ HandsOK /\ FlagsOK /\ CountsOK /\ Alone
  BY DEF Types
<1>1. SettingOK' /\ FilesOK' /\ FlagsOK' /\ CountsOK'
  BY <1>0, MadeIsCertificate, CertificateIsThere, NewPairIsPair, CertAssumption
     DEF SettingOK, FilesOK, FlagsOK, CountsOK, Noticed, HandsOK, Lives
<1>2. StagesOK' /\ HandsOK' /\ Alone'
  BY <1>0, MadeIsCertificate, CertificateIsThere, NewPairIsPair
     DEF StagesOK, HandsOK, Alone, Lives,
         Stay, Main, Watcher, Issuer,
         Threads, MainStages, WatcherStages, IssuerStages, Working
<1>3. QED
  BY <1>1, <1>2 DEF Types

LEMMA WriteKeyType == ASSUME Types, NEW a \in Threads, WriteKey(a) PROVE Types'
<1> USE DEF WriteKey, AcmeOrder, Placeholder, fixed, files, pause, history, bounds
<1>0. SettingOK /\ FilesOK /\ StagesOK /\ HandsOK /\ FlagsOK /\ CountsOK /\ Alone
  BY DEF Types
<1>1. SettingOK' /\ FlagsOK' /\ CountsOK'
  BY <1>0, CertAssumption
     DEF SettingOK, FlagsOK, CountsOK, Noticed
<1>2. StagesOK' /\ HandsOK' /\ Alone'
  BY <1>0, MadeIsCertificate, CertificateIsThere, NewPairIsPair
     DEF StagesOK, HandsOK, Alone, Lives,
         Stay, Main, Watcher, Issuer,
         Threads, MainStages, WatcherStages, IssuerStages, Working
<1>3. FilesOK'
  BY <1>0 DEF FilesOK, HandsOK, Certificate
<1>4. QED
  BY <1>1, <1>2, <1>3 DEF Types

LEMMA WriteFailsType == ASSUME Types, NEW a \in Threads, WriteFails(a) PROVE Types'
<1> USE DEF WriteFails, Trouble, AcmeOrder, Placeholder, fixed, files, pause, history, bounds
<1>0. SettingOK /\ FilesOK /\ StagesOK /\ HandsOK /\ FlagsOK /\ CountsOK /\ Alone
  BY DEF Types
<1>1. SettingOK' /\ FilesOK' /\ FlagsOK' /\ CountsOK'
  BY <1>0, CertAssumption
     DEF SettingOK, FilesOK, FlagsOK, CountsOK, Noticed
<1>2. StagesOK' /\ HandsOK' /\ Alone'
  BY <1>0, MadeIsCertificate, CertificateIsThere, NewPairIsPair
     DEF StagesOK, HandsOK, Alone, Lives,
         Stay, Main, Watcher, Issuer,
         Threads, MainStages, WatcherStages, IssuerStages, Working
<1>3. QED
  BY <1>1, <1>2 DEF Types

LEMMA ClearBackoffType == ASSUME Types, NEW a \in Threads, ClearBackoff(a) PROVE Types'
<1> USE DEF ClearBackoff, fixed, files, pause, history, bounds
<1>0. SettingOK /\ FilesOK /\ StagesOK /\ HandsOK /\ FlagsOK /\ CountsOK /\ Alone
  BY DEF Types
<1>1. SettingOK' /\ FilesOK' /\ FlagsOK' /\ CountsOK'
  BY <1>0, CertAssumption
     DEF SettingOK, FilesOK, FlagsOK, CountsOK, Noticed
<1>2. StagesOK' /\ HandsOK' /\ Alone'
  BY <1>0, MadeIsCertificate, CertificateIsThere, NewPairIsPair
     DEF StagesOK, HandsOK, Alone, Lives,
         Stay, Main, Watcher, Issuer,
         Threads, MainStages, WatcherStages, IssuerStages, Working
<1>3. QED
  BY <1>1, <1>2 DEF Types

LEMMA SetBackoffType == ASSUME Types, NEW a \in Threads, SetBackoff(a) PROVE Types'
<1> USE DEF SetBackoff, fixed, files, pause, history, bounds
<1>0. SettingOK /\ FilesOK /\ StagesOK /\ HandsOK /\ FlagsOK /\ CountsOK /\ Alone
  BY DEF Types
<1>1. SettingOK' /\ FilesOK' /\ FlagsOK' /\ CountsOK'
  BY <1>0, CertAssumption
     DEF SettingOK, FilesOK, FlagsOK, CountsOK, Noticed
<1>2. StagesOK' /\ HandsOK' /\ Alone'
  BY <1>0, MadeIsCertificate, CertificateIsThere, NewPairIsPair
     DEF StagesOK, HandsOK, Alone, Lives,
         Stay, Main, Watcher, Issuer,
         Threads, MainStages, WatcherStages, IssuerStages, Working
<1>3. QED
  BY <1>1, <1>2 DEF Types

LEMMA PauseUnwrittenType == ASSUME Types, NEW a \in Threads, PauseUnwritten(a) PROVE Types'
<1> USE DEF PauseUnwritten, Trouble, fixed, files, pause, history, bounds
<1>0. SettingOK /\ FilesOK /\ StagesOK /\ HandsOK /\ FlagsOK /\ CountsOK /\ Alone
  BY DEF Types
<1>1. SettingOK' /\ FilesOK' /\ FlagsOK' /\ CountsOK'
  <2>1. CASE UNCHANGED <<backoff, pause>>
    BY <1>0, <2>1, CertAssumption DEF SettingOK, FilesOK, FlagsOK, CountsOK
  <2>2. CASE backoff' = "none" /\ cooling' = FALSE /\ late' = 0
    <3>1. SettingOK' /\ FilesOK'
      BY <1>0 DEF SettingOK, FilesOK
    <3>2. FlagsOK'
      <4>1. UNCHANGED <<aim, ca, ready, queued, clean>>
        OBVIOUS
      <4>2. backoff' \in {"none", "active", "past"} /\ cooling' \in BOOLEAN
        BY <2>2, Zenon
      <4>3. QED
        BY <1>0, <4>1, <4>2, Zenon DEF FlagsOK
    <3>3. CountsOK'
      BY <1>0, <2>2, CertAssumption DEF CountsOK
    <3>4. QED
      BY <3>1, <3>2, <3>3
  <2>3. QED
    BY <2>1, <2>2
<1>2. StagesOK' /\ HandsOK' /\ Alone'
  BY <1>0, MadeIsCertificate, CertificateIsThere, NewPairIsPair
     DEF StagesOK, HandsOK, Alone, Lives,
         Stay, Main, Watcher, Issuer,
         Threads, MainStages, WatcherStages, IssuerStages, Working
<1>3. QED
  BY <1>1, <1>2 DEF Types

LEMMA EnsureType == ASSUME Types, Ensure PROVE Types'
<1> USE DEF Ensure, InstallPlaceholder, fixed, files, pause, history, bounds
<1>0. SettingOK /\ FilesOK /\ StagesOK /\ HandsOK /\ FlagsOK /\ CountsOK /\ Alone
  BY DEF Types
<1>1. FlagsOK'
  BY <1>0 DEF FlagsOK
<1>2. SettingOK' /\ FilesOK' /\ CountsOK'
  BY <1>0, CertAssumption
     DEF SettingOK, FilesOK, CountsOK
<1>3. Alone'
  BY <1>0 DEF StagesOK, Alone,
         Stay, Main, Watcher, Issuer,
         Threads, MainStages, WatcherStages, IssuerStages, Working
<1>4. StagesOK'
  <2>1. \E s \in {"boot", "cert", "check"} : Stay(Main, s)
    OBVIOUS
  <2> HIDE DEF Ensure, InstallPlaceholder
  <2>2. QED
    BY <1>0, <2>1, Moves DEF Working, MainStages, Main
<1>5. HandsOK'
  <2>1. /\ at[Main] \notin {"cert", "key"}
        /\ \/ \E s \in {"boot", "check"} : Stay(Main, s) /\ UNCHANGED hand
           \/ \E life \in Lives : /\ Stay(Main, "cert")
                                  /\ hand' = [hand EXCEPT ![Main] = Made(life, TRUE)]
    BY DEF Lives
  <2> HIDE DEF Ensure, InstallPlaceholder
  <2>2. Main \in Threads
    BY DEF Threads
  <2>3. QED
    BY <1>0, <2>1, <2>2, Hands, MadeIsCertificate DEF MainStages, Working
<1>6. QED
  BY <1>1, <1>2, <1>3, <1>4, <1>5 DEF Types

LEMMA EnsuredType == ASSUME Types, Ensured PROVE Types'
<1> USE DEF Ensured, InstallPlaceholder, fixed, files, pause, history, bounds
<1>0. SettingOK /\ FilesOK /\ StagesOK /\ HandsOK /\ FlagsOK /\ CountsOK /\ Alone
  BY DEF Types
<1>1. SettingOK' /\ FilesOK' /\ CountsOK'
  BY <1>0, CertAssumption
     DEF SettingOK, FilesOK, CountsOK
<1>2. HandsOK' /\ Alone'
  BY <1>0, MadeIsCertificate, CertificateIsThere, NewPairIsPair
     DEF StagesOK, HandsOK, Alone, Lives,
         Stay, Main, Watcher, Issuer,
         Threads, MainStages, WatcherStages, IssuerStages, Working
<1>3. StagesOK'
  <2>1. \E s \in {"boot", "cert"} : Stay(Main, s)
    OBVIOUS
  <2> HIDE DEF Ensured, InstallPlaceholder
  <2>2. QED
    BY <1>0, <2>1, Moves DEF Working, MainStages, Main
<1>4. FlagsOK'
  BY <1>0 DEF FlagsOK, Valid
<1>5. QED
  BY <1>1, <1>2, <1>3, <1>4 DEF Types

LEMMA BootType == ASSUME Types, Boot PROVE Types'
<1> USE DEF Boot, BackoffRead, fixed, files, pause, history, bounds
<1>0. SettingOK /\ FilesOK /\ StagesOK /\ HandsOK /\ FlagsOK /\ CountsOK /\ Alone
  BY DEF Types
<1>1. SettingOK' /\ FilesOK' /\ FlagsOK' /\ CountsOK'
  BY <1>0, CertAssumption
     DEF SettingOK, FilesOK, FlagsOK, CountsOK, Noticed
<1>2. StagesOK' /\ Alone'
  BY <1>0 DEF StagesOK, Alone,
         Stay, Main, Watcher, Issuer,
         Threads, MainStages, WatcherStages, IssuerStages, Working
<1>3. HandsOK'
  BY <1>0 DEF HandsOK, StagesOK, Alone, Main, Watcher, Issuer, Threads
<1>4. QED
  BY <1>1, <1>2, <1>3 DEF Types

LEMMA LoadType == ASSUME Types, Load PROVE Types'
<1> USE DEF Load, FilesExist, NoTls, fixed, files, pause, history, bounds
<1>0. SettingOK /\ FilesOK /\ StagesOK /\ HandsOK /\ FlagsOK /\ CountsOK /\ Alone
  BY DEF Types
<1>1. SettingOK' /\ FlagsOK' /\ CountsOK'
  BY <1>0, CertAssumption
     DEF SettingOK, FlagsOK, CountsOK, Noticed
<1>2. StagesOK' /\ HandsOK' /\ Alone'
  BY <1>0, MadeIsCertificate, CertificateIsThere, NewPairIsPair
     DEF StagesOK, HandsOK, Alone, Lives,
         Stay, Main, Watcher, Issuer,
         Threads, MainStages, WatcherStages, IssuerStages, Working
<1>3. FilesOK'
  BY <1>0 DEF FilesOK, Certificate
<1>4. QED
  BY <1>1, <1>2, <1>3 DEF Types

LEMMA WatchType == ASSUME Types, Watch PROVE Types'
<1> USE DEF Watch, fixed, files, pause, history, bounds
<1>0. SettingOK /\ FilesOK /\ StagesOK /\ HandsOK /\ FlagsOK /\ CountsOK /\ Alone
  BY DEF Types
<1>1. SettingOK' /\ FilesOK' /\ FlagsOK' /\ CountsOK'
  BY <1>0, CertAssumption
     DEF SettingOK, FilesOK, FlagsOK, CountsOK, Noticed
<1>2. StagesOK' /\ HandsOK' /\ Alone'
  BY <1>0, MadeIsCertificate, CertificateIsThere, NewPairIsPair
     DEF StagesOK, HandsOK, Alone, Lives,
         Stay, Main, Watcher, Issuer,
         Threads, MainStages, WatcherStages, IssuerStages, Working
<1>3. QED
  BY <1>1, <1>2 DEF Types

LEMMA ReceiveType == ASSUME Types, Receive PROVE Types'
<1> USE DEF Receive, fixed, files, pause, history, bounds
<1>0. SettingOK /\ FilesOK /\ StagesOK /\ HandsOK /\ FlagsOK /\ CountsOK /\ Alone
  BY DEF Types
<1>1. FlagsOK'
  BY <1>0 DEF FlagsOK
<1>2. SettingOK' /\ FilesOK' /\ CountsOK'
  BY <1>0, CertAssumption
     DEF SettingOK, FilesOK, CountsOK
<1>3. StagesOK' /\ HandsOK' /\ Alone'
  BY <1>0, MadeIsCertificate, CertificateIsThere, NewPairIsPair
     DEF StagesOK, HandsOK, Alone, Lives,
         Stay, Main, Watcher, Issuer,
         Threads, MainStages, WatcherStages, IssuerStages, Working
<1>4. QED
  BY <1>1, <1>2, <1>3 DEF Types

LEMMA TimeoutType == ASSUME Types, Timeout PROVE Types'
<1> USE DEF Timeout, fixed, files, pause, history, bounds
<1>0. SettingOK /\ FilesOK /\ StagesOK /\ HandsOK /\ FlagsOK /\ CountsOK /\ Alone
  BY DEF Types
<1>1. SettingOK' /\ FilesOK' /\ FlagsOK' /\ CountsOK'
  BY <1>0, CertAssumption
     DEF SettingOK, FilesOK, FlagsOK, CountsOK, Noticed
<1>2. StagesOK' /\ HandsOK' /\ Alone'
  BY <1>0, MadeIsCertificate, CertificateIsThere, NewPairIsPair
     DEF StagesOK, HandsOK, Alone, Lives,
         Stay, Main, Watcher, Issuer,
         Threads, MainStages, WatcherStages, IssuerStages, Working
<1>3. QED
  BY <1>1, <1>2 DEF Types

LEMMA HandlePausedType == ASSUME Types, HandlePaused PROVE Types'
<1> USE DEF HandlePaused, Handling, fixed, files, pause, history, bounds
<1>0. SettingOK /\ FilesOK /\ StagesOK /\ HandsOK /\ FlagsOK /\ CountsOK /\ Alone
  BY DEF Types
<1>1. SettingOK' /\ FilesOK' /\ FlagsOK' /\ CountsOK'
  BY <1>0, CertAssumption
     DEF SettingOK, FilesOK, FlagsOK, CountsOK, Noticed
<1>2. StagesOK' /\ HandsOK' /\ Alone'
  BY <1>0, MadeIsCertificate, CertificateIsThere, NewPairIsPair
     DEF StagesOK, HandsOK, Alone, Lives,
         Stay, Main, Watcher, Issuer,
         Threads, MainStages, WatcherStages, IssuerStages, Working
<1>3. QED
  BY <1>1, <1>2 DEF Types

LEMMA HandleNewType == ASSUME Types, HandleNew PROVE Types'
<1> USE DEF HandleNew, Handling, Exit, Gone, HandleBackoff, BackoffRead, NoTls, fixed, files, pause, history, bounds
<1>0. SettingOK /\ FilesOK /\ StagesOK /\ HandsOK /\ FlagsOK /\ CountsOK /\ Alone
  BY DEF Types
<1>1. SettingOK' /\ FilesOK' /\ FlagsOK' /\ CountsOK'
  BY <1>0, CertAssumption
     DEF SettingOK, FilesOK, FlagsOK, CountsOK, Noticed
<1>2. StagesOK' /\ HandsOK' /\ Alone'
  BY <1>0, MadeIsCertificate, CertificateIsThere, NewPairIsPair
     DEF StagesOK, HandsOK, Alone, Lives,
         Stay, Main, Watcher, Issuer,
         Threads, MainStages, WatcherStages, IssuerStages, Working
<1>3. QED
  BY <1>1, <1>2 DEF Types

LEMMA HandleOtherType == ASSUME Types, HandleOther PROVE Types'
<1> USE DEF HandleOther, Handling, HandleBackoff, BackoffRead, fixed, files, pause, history, bounds
<1>0. SettingOK /\ FilesOK /\ StagesOK /\ HandsOK /\ FlagsOK /\ CountsOK /\ Alone
  BY DEF Types
<1>1. SettingOK' /\ FilesOK' /\ FlagsOK' /\ CountsOK'
  BY <1>0, CertAssumption
     DEF SettingOK, FilesOK, FlagsOK, CountsOK, Noticed
<1>2. StagesOK' /\ HandsOK' /\ Alone'
  BY <1>0, MadeIsCertificate, CertificateIsThere, NewPairIsPair
     DEF StagesOK, HandsOK, Alone, Lives,
         Stay, Main, Watcher, Issuer,
         Threads, MainStages, WatcherStages, IssuerStages, Working
<1>3. QED
  BY <1>1, <1>2 DEF Types

LEMMA WatcherDoneType == ASSUME Types, WatcherDone PROVE Types'
<1> USE DEF WatcherDone, Exit, Gone, NoTls, fixed, files, pause, history, bounds
<1>0. SettingOK /\ FilesOK /\ StagesOK /\ HandsOK /\ FlagsOK /\ CountsOK /\ Alone
  BY DEF Types
<1>1. FlagsOK'
  BY <1>0 DEF FlagsOK, Noticed
<1>2. SettingOK' /\ FilesOK' /\ CountsOK'
  BY <1>0, CertAssumption
     DEF SettingOK, FilesOK, CountsOK
<1>3. StagesOK' /\ HandsOK' /\ Alone'
  BY <1>0, MadeIsCertificate, CertificateIsThere, NewPairIsPair
     DEF StagesOK, HandsOK, Alone, Lives,
         Stay, Main, Watcher, Issuer,
         Threads, MainStages, WatcherStages, IssuerStages, Working
<1>4. QED
  BY <1>1, <1>2, <1>3 DEF Types

LEMMA IssuerStartsType == ASSUME Types, IssuerStarts PROVE Types'
<1> USE DEF IssuerStarts, BackoffRead, fixed, files, pause, history, bounds
<1>0. SettingOK /\ FilesOK /\ StagesOK /\ HandsOK /\ FlagsOK /\ CountsOK /\ Alone
  BY DEF Types
<1>1. SettingOK' /\ FilesOK' /\ FlagsOK' /\ CountsOK'
  BY <1>0, CertAssumption
     DEF SettingOK, FilesOK, FlagsOK, CountsOK, Noticed
<1>2. StagesOK' /\ HandsOK' /\ Alone'
  BY <1>0, MadeIsCertificate, CertificateIsThere, NewPairIsPair
     DEF StagesOK, HandsOK, Alone, Lives,
         Stay, Main, Watcher, Issuer,
         Threads, MainStages, WatcherStages, IssuerStages, Working
<1>3. QED
  BY <1>1, <1>2 DEF Types

LEMMA IssuerDoneType == ASSUME Types, IssuerDone PROVE Types'
<1> USE DEF IssuerDone, Exit, Gone, NoTls, fixed, files, pause, history, bounds
<1>0. SettingOK /\ FilesOK /\ StagesOK /\ HandsOK /\ FlagsOK /\ CountsOK /\ Alone
  BY DEF Types
<1>1. FlagsOK'
  BY <1>0 DEF FlagsOK
<1>2. SettingOK' /\ FilesOK' /\ CountsOK'
  BY <1>0, CertAssumption
     DEF SettingOK, FilesOK, CountsOK
<1>3. StagesOK' /\ HandsOK' /\ Alone'
  BY <1>0, MadeIsCertificate, CertificateIsThere, NewPairIsPair
     DEF StagesOK, HandsOK, Alone, Lives,
         Stay, Main, Watcher, Issuer,
         Threads, MainStages, WatcherStages, IssuerStages, Working
<1>4. QED
  BY <1>1, <1>2, <1>3 DEF Types

LEMMA CrashType == ASSUME Types, Crash PROVE Types'
<1> USE DEF Crash, Trouble, Gone, NoTls, fixed, files, pause, history, bounds
<1>0. SettingOK /\ FilesOK /\ StagesOK /\ HandsOK /\ FlagsOK /\ CountsOK /\ Alone
  BY DEF Types
<1>1. FlagsOK'
  BY <1>0 DEF FlagsOK
<1>2. SettingOK' /\ FilesOK' /\ CountsOK'
  BY <1>0, CertAssumption
     DEF SettingOK, FilesOK, CountsOK
<1>3. StagesOK' /\ HandsOK' /\ Alone'
  BY <1>0, MadeIsCertificate, CertificateIsThere, NewPairIsPair
     DEF StagesOK, HandsOK, Alone, Lives,
         Stay, Main, Watcher, Issuer,
         Threads, MainStages, WatcherStages, IssuerStages, Working
<1>4. QED
  BY <1>1, <1>2, <1>3 DEF Types

LEMMA RestartType == ASSUME Types, Restart PROVE Types'
<1> USE DEF Restart, fixed, files, pause, history, bounds
<1>0. SettingOK /\ FilesOK /\ StagesOK /\ HandsOK /\ FlagsOK /\ CountsOK /\ Alone
  BY DEF Types
<1>1. SettingOK' /\ FilesOK' /\ FlagsOK' /\ CountsOK'
  BY <1>0, CertAssumption
     DEF SettingOK, FilesOK, FlagsOK, CountsOK, Noticed
<1>2. StagesOK' /\ HandsOK' /\ Alone'
  BY <1>0, MadeIsCertificate, CertificateIsThere, NewPairIsPair
     DEF StagesOK, HandsOK, Alone, Lives,
         Stay, Main, Watcher, Issuer,
         Threads, MainStages, WatcherStages, IssuerStages, Working
<1>3. QED
  BY <1>1, <1>2 DEF Types

LEMMA CaTurnsType == ASSUME Types, CaTurns PROVE Types'
<1> USE DEF CaTurns, fixed, files, pause, history, bounds
<1>0. SettingOK /\ FilesOK /\ StagesOK /\ HandsOK /\ FlagsOK /\ CountsOK /\ Alone
  BY DEF Types
<1>1. SettingOK' /\ FilesOK' /\ FlagsOK' /\ CountsOK'
  BY <1>0, CertAssumption
     DEF SettingOK, FilesOK, FlagsOK, CountsOK, Noticed
<1>2. StagesOK' /\ HandsOK' /\ Alone'
  BY <1>0, MadeIsCertificate, CertificateIsThere, NewPairIsPair
     DEF StagesOK, HandsOK, Alone, Lives,
         Stay, Main, Watcher, Issuer,
         Threads, MainStages, WatcherStages, IssuerStages, Working
<1>3. QED
  BY <1>1, <1>2 DEF Types

LEMMA AgeType == ASSUME Types, Age PROVE Types'
<1> USE DEF Age, Trouble, Certificate, Lives, fixed, files, pause, history, bounds
<1>0. SettingOK /\ FilesOK /\ StagesOK /\ HandsOK /\ FlagsOK /\ CountsOK /\ Alone
  BY DEF Types
<1>1. SettingOK' /\ FilesOK' /\ FlagsOK' /\ CountsOK'
  BY <1>0, CertAssumption
     DEF SettingOK, FilesOK, FlagsOK, CountsOK, Noticed
<1>2. StagesOK' /\ HandsOK' /\ Alone'
  BY <1>0, MadeIsCertificate, CertificateIsThere, NewPairIsPair
     DEF StagesOK, HandsOK, Alone, Lives,
         Stay, Main, Watcher, Issuer,
         Threads, MainStages, WatcherStages, IssuerStages, Working
<1>3. QED
  BY <1>1, <1>2 DEF Types

LEMMA LapseType == ASSUME Types, Lapse PROVE Types'
<1> USE DEF Lapse, fixed, files, pause, history, bounds
<1>0. SettingOK /\ FilesOK /\ StagesOK /\ HandsOK /\ FlagsOK /\ CountsOK /\ Alone
  BY DEF Types
<1>1. FlagsOK'
  BY <1>0 DEF FlagsOK
<1>2. SettingOK' /\ FilesOK' /\ CountsOK'
  BY <1>0, CertAssumption
     DEF SettingOK, FilesOK, CountsOK
<1>3. StagesOK' /\ HandsOK' /\ Alone'
  BY <1>0, MadeIsCertificate, CertificateIsThere, NewPairIsPair
     DEF StagesOK, HandsOK, Alone, Lives,
         Stay, Main, Watcher, Issuer,
         Threads, MainStages, WatcherStages, IssuerStages, Working
<1>4. QED
  BY <1>1, <1>2, <1>3 DEF Types

LEMMA InstallType == ASSUME Types, Install PROVE Types'
<1> USE DEF Install, Trouble, fixed, files, pause, history, bounds
<1>0. SettingOK /\ FilesOK /\ StagesOK /\ HandsOK /\ FlagsOK /\ CountsOK /\ Alone
  BY DEF Types
<1>1. SettingOK' /\ FlagsOK' /\ CountsOK'
  BY <1>0, CertAssumption
     DEF SettingOK, FlagsOK, CountsOK, Noticed
<1>2. StagesOK' /\ HandsOK' /\ Alone'
  BY <1>0, MadeIsCertificate, CertificateIsThere, NewPairIsPair
     DEF StagesOK, HandsOK, Alone, Lives,
         Stay, Main, Watcher, Issuer,
         Threads, MainStages, WatcherStages, IssuerStages, Working
<1>3. FilesOK'
  BY <1>0, MadeIsCertificate, CertificateIsThere, NewPairIsPair DEF FilesOK, Made, Certificate, Lives
<1>4. QED
  BY <1>1, <1>2, <1>3 DEF Types

LEMMA ReloadReadsType == ASSUME Types, ReloadReads PROVE Types'
<1> USE DEF ReloadReads, fixed, files, pause, history, bounds
<1>0. SettingOK /\ FilesOK /\ StagesOK /\ HandsOK /\ FlagsOK /\ CountsOK /\ Alone
  BY DEF Types
<1>1. SettingOK' /\ FilesOK' /\ FlagsOK' /\ CountsOK'
  BY <1>0, CertAssumption
     DEF SettingOK, FilesOK, FlagsOK, CountsOK, Noticed
<1>2. StagesOK' /\ HandsOK' /\ Alone'
  BY <1>0, MadeIsCertificate, CertificateIsThere, NewPairIsPair
     DEF StagesOK, HandsOK, Alone, Lives,
         Stay, Main, Watcher, Issuer,
         Threads, MainStages, WatcherStages, IssuerStages, Working
<1>3. QED
  BY <1>1, <1>2 DEF Types

LEMMA InitTypes == Init => Types
<1> SUFFICES ASSUME Init PROVE Types
  OBVIOUS
<1>1. (CHOOSE p \in Pairs : TRUE) \in Pairs
  BY NewPairIsPair
<1>2. SettingOK /\ FilesOK
  BY <1>1, CertAssumption DEF Init, SettingOK, FilesOK, Certificate, NoTls
<1>3. FlagsOK
  <2>1. clean \in BOOLEAN /\ cooling \in BOOLEAN
    BY DEF Init
  <2>2. QED
    BY <2>1 DEF Init, FlagsOK
<1>4. StagesOK /\ HandsOK /\ Alone
  BY DEF Init, StagesOK, HandsOK, Alone, Main, Watcher, Issuer, Threads,
         MainStages, WatcherStages, IssuerStages
<1>5. CountsOK
  BY CertAssumption DEF Init, CountsOK
<1>6. QED
  BY <1>2, <1>3, <1>4, <1>5 DEF Types

LEMMA RefreshTypes == ASSUME Types, NEW a \in Threads, Refresh(a) PROVE Types'
BY CheckType, NewOrderType, ProofType, FetchType,
   RunCommandType, WriteCertType, WriteKeyType, ClearBackoffType,
   SetBackoffType
   DEF Refresh

LEMMA NextTypes == Types /\ [Next]_vars => Types'
<1> SUFFICES ASSUME Types, [Next]_vars PROVE Types'
  OBVIOUS
<1>1. Main \in Threads /\ Watcher \in Threads /\ Issuer \in Threads
  BY DEF Threads
<1>2. CASE MainStep
  BY <1>1, <1>2, RefreshTypes, EnsureType, EnsuredType, BootType, LoadType DEF MainStep
<1>3. CASE WatcherStep
  BY <1>1, <1>3, RefreshTypes, WatchType, ReceiveType, TimeoutType, HandlePausedType,
     HandleNewType, HandleOtherType, WatcherDoneType DEF WatcherStep
<1>4. CASE IssuerStep
  BY <1>1, <1>4, RefreshTypes, IssuerStartsType, IssuerDoneType DEF IssuerStep
<1>5. CASE Environment
  BY <1>5, RestartType, CrashType, CaTurnsType, AgeType, LapseType, InstallType,
     ReloadReadsType, WriteFailsType,
     PauseUnwrittenType DEF Environment
<1>6. CASE UNCHANGED vars
  BY <1>6 DEF Types, SettingOK, FilesOK, StagesOK, HandsOK, FlagsOK, CountsOK, Alone,
              vars, fixed, files, pause, history, bounds
<1>7. QED
  BY <1>2, <1>3, <1>4, <1>5, <1>6 DEF Next

LEMMA AlwaysTypes == Spec => []Types
BY InitTypes, NextTypes, PTL DEF Spec

\* Whatever the providers, the crashes and the order of the threads' steps, every
\* variable stays within its type: above all, a thread is between the two renames of
\* write_certificate_files exactly when it has a certificate to write, and the
\* watcher and the issuer do nothing before run() has started them.
THEOREM TypeCorrect == Spec => []TypeOK
BY AlwaysTypes, TypesAreTypeOK, PTL

-----------------------------------------------------------------------------
(* Let's Encrypt is left alone after a failure. *)

AcmeMainStages == {"down", "ensure", "boot", "load", "serving", "cert", "key", "ok", "err"}

\* With Let's Encrypt the main thread writes a temporary certificate or nothing:
\* it does not order.
MainOrdersNot ==
    kind = "acme" =>
        at[Main] \in AcmeMainStages /\ (at[Main] \in {"cert", "key"} => aim = "placeholder")

\* A failure written down is a pause that has not ended.
PauseKnown == (cooling => backoff = "active") /\ (~cooling => late = 0)

Ordering(a) == at[a] = "order"

\* In the pause no thread comes to an order any more, and of the two that may have
\* been past the check one was the thread that failed.
PauseSpent ==
    /\ kind # "acme" => late = 0
    /\ cooling /\ kind = "acme" =>
          \/ late = 0 /\ ~(Ordering(Watcher) /\ Ordering(Issuer))
          \/ late = 1 /\ ~Ordering(Watcher) /\ ~Ordering(Issuer)

PauseInv == MainOrdersNot /\ PauseKnown /\ PauseSpent

\* A step that begins no order and ends no pause.
LEMMA Quiet ==
    ASSUME PauseInv, UNCHANGED <<env, cooling, late>>, cooling => backoff' = "active",
           cooling /\ kind = "acme" =>
               \A b \in Threads : at'[b] = "order" => at[b] = "order",
           kind = "acme" => /\ at'[Main] \in AcmeMainStages
                            /\ at'[Main] \in {"cert", "key"} => aim' = "placeholder"
    PROVE  PauseInv'
<1>1. /\ kind' = kind
      /\ cooling /\ kind = "acme" => /\ Ordering(Watcher)' => Ordering(Watcher)
                                     /\ Ordering(Issuer)' => Ordering(Issuer)
  BY DEF kind, Ordering, Threads
<1>2. QED
  BY <1>1 DEF PauseInv, MainOrdersNot, PauseKnown, PauseSpent

\* What Stay does to the threads.
LEMMA StayFacts ==
    StagesOK => \A a \in Threads : \A s :
        Stay(a, s) => at'[a] = s /\ \A b \in Threads \ {a} : at'[b] = at[b]
BY DEF StagesOK, Stay

LEMMA CheckPause == ASSUME Types, PauseInv, NEW a \in Threads, Check(a) PROVE PauseInv'
<1> USE DEF Check, MayOrder, BackoffRead, fixed, files, pause, history, bounds, kind
<1>0. StagesOK /\ CountsOK /\ FlagsOK /\ Alone /\ MainOrdersNot /\ PauseKnown /\ PauseSpent
  BY DEF Types, PauseInv
<1>1. /\ at[a] = "check" /\ aim' = aim
      /\ \E s \in {"order", "err"} : Stay(a, s) /\ (cooling /\ kind = "acme" => s = "err")
  BY <1>0 DEF PauseKnown, StagesOK, Threads, Main, Watcher, Issuer
<1>2. UNCHANGED <<env, cooling, late>> /\ (cooling => backoff' = "active")
  BY <1>0 DEF PauseKnown
<1> HIDE DEF Check, MayOrder, kind
<1>3. Main \in Threads /\ (kind = "acme" => at[Main] \in AcmeMainStages)
  BY <1>0 DEF MainOrdersNot, Threads
<1>4. cooling /\ kind = "acme" => \A b \in Threads : at'[b] = "order" => at[b] = "order"
  BY <1>0, <1>1, <1>3, StayFacts DEF Threads
<1>5. kind = "acme" => /\ at'[Main] \in AcmeMainStages
                       /\ at'[Main] \in {"cert", "key"} => aim' = "placeholder"
  BY <1>0, <1>1, <1>3, StayFacts DEF MainOrdersNot, AcmeMainStages, Threads
<1>6. QED
  BY <1>0, <1>2, <1>4, <1>5, Quiet DEF PauseInv

LEMMA NewOrderPause == ASSUME Types, PauseInv, NEW a \in Threads, NewOrder(a) PROVE PauseInv'
<1> USE DEF NewOrder, fixed, files, pause, history, bounds, kind
<1>0. StagesOK /\ CountsOK /\ FlagsOK /\ Alone /\ MainOrdersNot /\ PauseKnown /\ PauseSpent
  BY DEF Types, PauseInv
<1>1. /\ kind = "acme" /\ kind' = kind /\ at[a] = "order" /\ aim' = aim
      /\ \E s \in {"proof", "failed"} : Stay(a, s)
      /\ cooling' = cooling /\ backoff' = backoff
      /\ late' = IF cooling THEN late + 1 ELSE late
  OBVIOUS
<1> HIDE DEF NewOrder, kind
<1>2. a # Main /\ (a = Watcher \/ a = Issuer)
  BY <1>0, <1>1 DEF MainOrdersNot, AcmeMainStages, Threads
<1>3. at'[Main] = at[Main] /\ at'[a] # "order"
      /\ \A b \in Threads \ {a} : at'[b] = at[b]
  BY <1>0, <1>1, <1>2, StayFacts DEF Threads
<1>4. MainOrdersNot'
  BY <1>0, <1>1, <1>3 DEF MainOrdersNot
<1>5. PauseKnown'
  BY <1>0, <1>1 DEF PauseKnown
<1>6. PauseSpent'
  <2>1. ~Ordering(a)' /\ Ordering(a) /\ \A b \in Threads \ {a} : Ordering(b)' = Ordering(b)
    BY <1>1, <1>3 DEF Ordering
  <2>2. Watcher # Issuer
    BY DEF Watcher, Issuer
  <2>3. CASE a = Watcher
    BY <1>0, <1>1, <2>1, <2>2, <2>3 DEF PauseSpent, PauseKnown, Threads, CountsOK
  <2>4. CASE a = Issuer
    BY <1>0, <1>1, <2>1, <2>2, <2>4 DEF PauseSpent, PauseKnown, Threads, CountsOK
  <2>5. QED
    BY <1>2, <2>3, <2>4
<1>7. QED
  BY <1>4, <1>5, <1>6 DEF PauseInv

LEMMA ProofPause == ASSUME Types, PauseInv, NEW a \in Threads, Proof(a) PROVE PauseInv'
<1> USE DEF Proof, fixed, files, pause, history, bounds, kind
<1>0. StagesOK /\ CountsOK /\ FlagsOK /\ Alone /\ MainOrdersNot /\ PauseKnown /\ PauseSpent
  BY DEF Types, PauseInv
<1>1. /\ at[a] = "proof" /\ aim' = aim
      /\ \E s \in {"cert", "failed"} : Stay(a, s)
  BY <1>0 DEF PauseKnown, StagesOK, Threads, Main, Watcher, Issuer
<1>2. UNCHANGED <<env, cooling, late>> /\ (cooling => backoff' = "active")
  BY <1>0 DEF PauseKnown
<1> HIDE DEF Proof, kind
<1>3. Main \in Threads /\ (kind = "acme" => at[Main] \in AcmeMainStages)
  BY <1>0 DEF MainOrdersNot, Threads
<1>4. cooling /\ kind = "acme" => \A b \in Threads : at'[b] = "order" => at[b] = "order"
  BY <1>0, <1>1, <1>3, StayFacts DEF Threads
<1>5. kind = "acme" => /\ at'[Main] \in AcmeMainStages
                       /\ at'[Main] \in {"cert", "key"} => aim' = "placeholder"
  BY <1>0, <1>1, <1>3, StayFacts DEF MainOrdersNot, AcmeMainStages, Threads
<1>6. QED
  BY <1>0, <1>2, <1>4, <1>5, Quiet DEF PauseInv

LEMMA FetchPause == ASSUME Types, PauseInv, NEW a \in Threads, Fetch(a) PROVE PauseInv'
<1> USE DEF Fetch, fixed, files, pause, history, bounds, kind
<1>0. StagesOK /\ CountsOK /\ FlagsOK /\ Alone /\ MainOrdersNot /\ PauseKnown /\ PauseSpent
  BY DEF Types, PauseInv
<1>1. MainOrdersNot'
  BY <1>0 DEF MainOrdersNot, AcmeMainStages, Stay, Main, Watcher, Issuer, Threads, Working
<1>2. PauseKnown' /\ PauseSpent'
  BY <1>0 DEF PauseKnown, PauseSpent, MainOrdersNot, AcmeMainStages, Ordering, CountsOK, Stay, Main, Watcher,
              Issuer, Threads
<1>3. QED
  BY <1>1, <1>2 DEF PauseInv

LEMMA RunCommandPause == ASSUME Types, PauseInv, NEW a \in Threads, RunCommand(a) PROVE PauseInv'
<1> USE DEF RunCommand, fixed, files, pause, history, bounds, kind
<1>0. StagesOK /\ CountsOK /\ FlagsOK /\ Alone /\ MainOrdersNot /\ PauseKnown /\ PauseSpent
  BY DEF Types, PauseInv
<1>1. MainOrdersNot'
  BY <1>0 DEF MainOrdersNot, AcmeMainStages, Stay, Main, Watcher, Issuer, Threads, Working
<1>2. PauseKnown' /\ PauseSpent'
  BY <1>0 DEF PauseKnown, PauseSpent, MainOrdersNot, AcmeMainStages, Ordering, CountsOK, Stay, Main, Watcher,
              Issuer, Threads
<1>3. QED
  BY <1>1, <1>2 DEF PauseInv

LEMMA WriteCertPause == ASSUME Types, PauseInv, NEW a \in Threads, WriteCert(a) PROVE PauseInv'
<1> USE DEF WriteCert, fixed, files, pause, history, bounds, kind
<1>0. StagesOK /\ CountsOK /\ FlagsOK /\ Alone /\ MainOrdersNot /\ PauseKnown /\ PauseSpent
  BY DEF Types, PauseInv
<1>1. MainOrdersNot'
  BY <1>0 DEF MainOrdersNot, AcmeMainStages, Stay, Main, Watcher, Issuer, Threads, Working
<1>2. PauseKnown' /\ PauseSpent'
  BY <1>0 DEF PauseKnown, PauseSpent, MainOrdersNot, AcmeMainStages, Ordering, CountsOK, Stay, Main, Watcher,
              Issuer, Threads
<1>3. QED
  BY <1>1, <1>2 DEF PauseInv

LEMMA WriteKeyPause == ASSUME Types, PauseInv, NEW a \in Threads, WriteKey(a) PROVE PauseInv'
<1> USE DEF WriteKey, AcmeOrder, Placeholder, fixed, files, pause, history, bounds, kind
<1>0. StagesOK /\ CountsOK /\ FlagsOK /\ Alone /\ MainOrdersNot /\ PauseKnown /\ PauseSpent
  BY DEF Types, PauseInv
<1>1. MainOrdersNot'
  BY <1>0 DEF MainOrdersNot, AcmeMainStages, Stay, Main, Watcher, Issuer, Threads, Working
<1>2. PauseKnown' /\ PauseSpent'
  BY <1>0 DEF PauseKnown, PauseSpent, MainOrdersNot, AcmeMainStages, Ordering, CountsOK, Stay, Main, Watcher,
              Issuer, Threads
<1>3. QED
  BY <1>1, <1>2 DEF PauseInv

LEMMA WriteFailsPause == ASSUME Types, PauseInv, NEW a \in Threads, WriteFails(a) PROVE PauseInv'
<1> USE DEF WriteFails, Trouble, AcmeOrder, Placeholder, fixed, files, pause, history, bounds, kind
<1>0. StagesOK /\ CountsOK /\ FlagsOK /\ Alone /\ MainOrdersNot /\ PauseKnown /\ PauseSpent
  BY DEF Types, PauseInv
<1>1. MainOrdersNot'
  BY <1>0 DEF MainOrdersNot, AcmeMainStages, Stay, Main, Watcher, Issuer, Threads, Working
<1>2. PauseKnown' /\ PauseSpent'
  BY <1>0 DEF PauseKnown, PauseSpent, MainOrdersNot, AcmeMainStages, Ordering, CountsOK, Stay, Main, Watcher,
              Issuer, Threads
<1>3. QED
  BY <1>1, <1>2 DEF PauseInv

LEMMA ClearBackoffPause == ASSUME Types, PauseInv, NEW a \in Threads, ClearBackoff(a) PROVE PauseInv'
<1> USE DEF ClearBackoff, fixed, files, pause, history, bounds, kind
<1>0. StagesOK /\ CountsOK /\ FlagsOK /\ Alone /\ MainOrdersNot /\ PauseKnown /\ PauseSpent
  BY DEF Types, PauseInv
<1>1. MainOrdersNot'
  BY <1>0 DEF MainOrdersNot, AcmeMainStages, Stay, Main, Watcher, Issuer, Threads, Working
<1>2. PauseKnown' /\ PauseSpent'
  BY <1>0 DEF PauseKnown, PauseSpent, MainOrdersNot, AcmeMainStages, Ordering, CountsOK, Stay, Main, Watcher,
              Issuer, Threads
<1>3. QED
  BY <1>1, <1>2 DEF PauseInv

LEMMA SetBackoffPause == ASSUME Types, PauseInv, NEW a \in Threads, SetBackoff(a) PROVE PauseInv'
<1> USE DEF SetBackoff, fixed, files, pause, history, bounds, kind
<1>0. StagesOK /\ CountsOK /\ FlagsOK /\ Alone /\ MainOrdersNot /\ PauseKnown /\ PauseSpent
  BY DEF Types, PauseInv
<1>1. MainOrdersNot'
  BY <1>0 DEF MainOrdersNot, AcmeMainStages, Stay, Main, Watcher, Issuer, Threads, Working
<1>2. PauseKnown' /\ PauseSpent'
  BY <1>0 DEF PauseKnown, PauseSpent, MainOrdersNot, AcmeMainStages, Ordering, CountsOK, Stay, Main, Watcher,
              Issuer, Threads
<1>3. QED
  BY <1>1, <1>2 DEF PauseInv

LEMMA PauseUnwrittenPause == ASSUME Types, PauseInv, NEW a \in Threads, PauseUnwritten(a) PROVE PauseInv'
<1> USE DEF PauseUnwritten, Trouble, fixed, files, pause, history, bounds, kind
<1>0. StagesOK /\ CountsOK /\ FlagsOK /\ Alone /\ MainOrdersNot /\ PauseKnown /\ PauseSpent
  BY DEF Types, PauseInv
<1>1. MainOrdersNot'
  BY <1>0 DEF MainOrdersNot, AcmeMainStages, Stay, Main, Watcher, Issuer, Threads, Working
<1>2. PauseKnown' /\ PauseSpent'
  BY <1>0 DEF PauseKnown, PauseSpent, MainOrdersNot, AcmeMainStages, Ordering, CountsOK, Stay, Main, Watcher,
              Issuer, Threads
<1>3. QED
  BY <1>1, <1>2 DEF PauseInv

LEMMA EnsurePause == ASSUME Types, PauseInv, Ensure PROVE PauseInv'
<1> USE DEF Ensure, InstallPlaceholder, fixed, files, pause, history, bounds, kind
<1>0. StagesOK /\ CountsOK /\ FlagsOK /\ Alone /\ MainOrdersNot /\ PauseKnown /\ PauseSpent
  BY DEF Types, PauseInv
<1>1. \E s \in {"boot", "cert", "check"} :
          Stay(Main, s) /\ (kind = "acme" => s # "check") /\ (s = "cert" => aim' = "placeholder")
  BY <1>0 DEF PauseKnown, StagesOK, Threads, Main, Watcher, Issuer
<1>2. UNCHANGED <<env, cooling, late>> /\ (cooling => backoff' = "active")
  BY <1>0 DEF PauseKnown
<1> HIDE DEF Ensure, InstallPlaceholder, kind
<1>3. Main \in Threads /\ (kind = "acme" => at[Main] \in AcmeMainStages)
  BY <1>0 DEF MainOrdersNot, Threads
<1>4. cooling /\ kind = "acme" => \A b \in Threads : at'[b] = "order" => at[b] = "order"
  BY <1>0, <1>1, <1>3, StayFacts DEF Threads
<1>5. kind = "acme" => /\ at'[Main] \in AcmeMainStages
                       /\ at'[Main] \in {"cert", "key"} => aim' = "placeholder"
  BY <1>0, <1>1, <1>3, StayFacts DEF MainOrdersNot, AcmeMainStages, Threads
<1>6. QED
  BY <1>0, <1>2, <1>4, <1>5, Quiet DEF PauseInv

LEMMA EnsuredPause == ASSUME Types, PauseInv, Ensured PROVE PauseInv'
<1> USE DEF Ensured, InstallPlaceholder, fixed, files, pause, history, bounds, kind
<1>0. StagesOK /\ CountsOK /\ FlagsOK /\ Alone /\ MainOrdersNot /\ PauseKnown /\ PauseSpent
  BY DEF Types, PauseInv
<1>1. \E s \in {"boot", "cert"} : Stay(Main, s) /\ (s = "cert" => aim' = "placeholder")
  BY <1>0 DEF PauseKnown, StagesOK, Threads, Main, Watcher, Issuer
<1>2. UNCHANGED <<env, cooling, late>> /\ (cooling => backoff' = "active")
  BY <1>0 DEF PauseKnown
<1> HIDE DEF Ensured, InstallPlaceholder, kind
<1>3. Main \in Threads /\ (kind = "acme" => at[Main] \in AcmeMainStages)
  BY <1>0 DEF MainOrdersNot, Threads
<1>4. cooling /\ kind = "acme" => \A b \in Threads : at'[b] = "order" => at[b] = "order"
  BY <1>0, <1>1, <1>3, StayFacts DEF Threads
<1>5. kind = "acme" => /\ at'[Main] \in AcmeMainStages
                       /\ at'[Main] \in {"cert", "key"} => aim' = "placeholder"
  BY <1>0, <1>1, <1>3, StayFacts DEF MainOrdersNot, AcmeMainStages, Threads
<1>6. QED
  BY <1>0, <1>2, <1>4, <1>5, Quiet DEF PauseInv

LEMMA BootPause == ASSUME Types, PauseInv, Boot PROVE PauseInv'
<1> USE DEF Boot, BackoffRead, fixed, files, pause, history, bounds, kind
<1>0. StagesOK /\ CountsOK /\ FlagsOK /\ Alone /\ MainOrdersNot /\ PauseKnown /\ PauseSpent
  BY DEF Types, PauseInv
<1>1. /\ at'[Main] = "load" /\ at'[Watcher] \in {"starting", "off"}
      /\ at'[Issuer] \in {"delayed", "off"}
  BY <1>0 DEF PauseKnown, StagesOK, Threads, Main, Watcher, Issuer
<1>2. UNCHANGED <<env, cooling, late>> /\ (cooling => backoff' = "active")
  BY <1>0 DEF PauseKnown
<1> HIDE DEF Boot, kind
<1>3. Main \in Threads /\ (kind = "acme" => at[Main] \in AcmeMainStages)
  BY <1>0 DEF MainOrdersNot, Threads
<1>4. cooling /\ kind = "acme" => \A b \in Threads : at'[b] = "order" => at[b] = "order"
  BY <1>0, <1>1, <1>3, StayFacts DEF Threads
<1>5. kind = "acme" => /\ at'[Main] \in AcmeMainStages
                       /\ at'[Main] \in {"cert", "key"} => aim' = "placeholder"
  BY <1>0, <1>1, <1>3, StayFacts DEF MainOrdersNot, AcmeMainStages, Threads
<1>6. QED
  BY <1>0, <1>2, <1>4, <1>5, Quiet DEF PauseInv

LEMMA LoadPause == ASSUME Types, PauseInv, Load PROVE PauseInv'
<1> USE DEF Load, FilesExist, fixed, files, pause, history, bounds, kind
<1>0. StagesOK /\ CountsOK /\ FlagsOK /\ Alone /\ MainOrdersNot /\ PauseKnown /\ PauseSpent
  BY DEF Types, PauseInv
<1>1. MainOrdersNot'
  BY <1>0 DEF MainOrdersNot, AcmeMainStages, Stay, Main, Watcher, Issuer, Threads, Working
<1>2. PauseKnown' /\ PauseSpent'
  BY <1>0 DEF PauseKnown, PauseSpent, MainOrdersNot, AcmeMainStages, Ordering, CountsOK, Stay, Main, Watcher,
              Issuer, Threads
<1>3. QED
  BY <1>1, <1>2 DEF PauseInv

LEMMA WatchPause == ASSUME Types, PauseInv, Watch PROVE PauseInv'
<1> USE DEF Watch, fixed, files, pause, history, bounds, kind
<1>0. StagesOK /\ CountsOK /\ FlagsOK /\ Alone /\ MainOrdersNot /\ PauseKnown /\ PauseSpent
  BY DEF Types, PauseInv
<1>1. MainOrdersNot'
  BY <1>0 DEF MainOrdersNot, AcmeMainStages, Stay, Main, Watcher, Issuer, Threads, Working
<1>2. PauseKnown' /\ PauseSpent'
  BY <1>0 DEF PauseKnown, PauseSpent, MainOrdersNot, AcmeMainStages, Ordering, CountsOK, Stay, Main, Watcher,
              Issuer, Threads
<1>3. QED
  BY <1>1, <1>2 DEF PauseInv

LEMMA ReceivePause == ASSUME Types, PauseInv, Receive PROVE PauseInv'
<1> USE DEF Receive, fixed, files, pause, history, bounds, kind
<1>0. StagesOK /\ CountsOK /\ FlagsOK /\ Alone /\ MainOrdersNot /\ PauseKnown /\ PauseSpent
  BY DEF Types, PauseInv
<1>1. MainOrdersNot'
  BY <1>0 DEF MainOrdersNot, AcmeMainStages, Stay, Main, Watcher, Issuer, Threads, Working
<1>2. PauseKnown' /\ PauseSpent'
  BY <1>0 DEF PauseKnown, PauseSpent, MainOrdersNot, AcmeMainStages, Ordering, CountsOK, Stay, Main, Watcher,
              Issuer, Threads
<1>3. QED
  BY <1>1, <1>2 DEF PauseInv

LEMMA TimeoutPause == ASSUME Types, PauseInv, Timeout PROVE PauseInv'
<1> USE DEF Timeout, fixed, files, pause, history, bounds, kind
<1>0. StagesOK /\ CountsOK /\ FlagsOK /\ Alone /\ MainOrdersNot /\ PauseKnown /\ PauseSpent
  BY DEF Types, PauseInv
<1>1. MainOrdersNot'
  BY <1>0 DEF MainOrdersNot, AcmeMainStages, Stay, Main, Watcher, Issuer, Threads, Working
<1>2. PauseKnown' /\ PauseSpent'
  BY <1>0 DEF PauseKnown, PauseSpent, MainOrdersNot, AcmeMainStages, Ordering, CountsOK, Stay, Main, Watcher,
              Issuer, Threads
<1>3. QED
  BY <1>1, <1>2 DEF PauseInv

LEMMA HandlePausedPause == ASSUME Types, PauseInv, HandlePaused PROVE PauseInv'
<1> USE DEF HandlePaused, Handling, fixed, files, pause, history, bounds, kind
<1>0. StagesOK /\ CountsOK /\ FlagsOK /\ Alone /\ MainOrdersNot /\ PauseKnown /\ PauseSpent
  BY DEF Types, PauseInv
<1>1. MainOrdersNot'
  BY <1>0 DEF MainOrdersNot, AcmeMainStages, Stay, Main, Watcher, Issuer, Threads, Working
<1>2. PauseKnown' /\ PauseSpent'
  BY <1>0 DEF PauseKnown, PauseSpent, MainOrdersNot, AcmeMainStages, Ordering, CountsOK, Stay, Main, Watcher,
              Issuer, Threads
<1>3. QED
  BY <1>1, <1>2 DEF PauseInv

LEMMA HandleNewPause == ASSUME Types, PauseInv, HandleNew PROVE PauseInv'
<1> USE DEF HandleNew, Handling, Exit, Gone, HandleBackoff, BackoffRead, fixed, files, pause, history, bounds, kind
<1>0. StagesOK /\ CountsOK /\ FlagsOK /\ Alone /\ MainOrdersNot /\ PauseKnown /\ PauseSpent
  BY DEF Types, PauseInv
<1>1. MainOrdersNot'
  BY <1>0 DEF MainOrdersNot, AcmeMainStages, Stay, Main, Watcher, Issuer, Threads, Working
<1>2. PauseKnown' /\ PauseSpent'
  BY <1>0 DEF PauseKnown, PauseSpent, MainOrdersNot, AcmeMainStages, Ordering, CountsOK, Stay, Main, Watcher,
              Issuer, Threads
<1>3. QED
  BY <1>1, <1>2 DEF PauseInv

LEMMA HandleOtherPause == ASSUME Types, PauseInv, HandleOther PROVE PauseInv'
<1> USE DEF HandleOther, Handling, HandleBackoff, BackoffRead, fixed, files, pause, history, bounds, kind
<1>0. StagesOK /\ CountsOK /\ FlagsOK /\ Alone /\ MainOrdersNot /\ PauseKnown /\ PauseSpent
  BY DEF Types, PauseInv
<1>1. MainOrdersNot'
  BY <1>0 DEF MainOrdersNot, AcmeMainStages, Stay, Main, Watcher, Issuer, Threads, Working
<1>2. PauseKnown' /\ PauseSpent'
  BY <1>0 DEF PauseKnown, PauseSpent, MainOrdersNot, AcmeMainStages, Ordering, CountsOK, Stay, Main, Watcher,
              Issuer, Threads
<1>3. QED
  BY <1>1, <1>2 DEF PauseInv

LEMMA WatcherDonePause == ASSUME Types, PauseInv, WatcherDone PROVE PauseInv'
<1> USE DEF WatcherDone, Exit, Gone, fixed, files, pause, history, bounds, kind
<1>0. StagesOK /\ CountsOK /\ FlagsOK /\ Alone /\ MainOrdersNot /\ PauseKnown /\ PauseSpent
  BY DEF Types, PauseInv
<1>1. /\ at'[Main] = "down" \/ (at'[Main] = at[Main] /\ aim' = aim)
      /\ at'[Watcher] \in {"off", "waiting"}
      /\ at'[Issuer] = "off" \/ at'[Issuer] = at[Issuer]
  <2>1. CASE at[Watcher] = "ok" /\ Valid
    <3>1. at' = [b \in Threads |-> IF b = Main THEN "down" ELSE "off"]
      BY <2>1
    <3>2. QED
      BY <3>1 DEF Threads, Main, Watcher, Issuer
  <2>2. CASE ~(at[Watcher] = "ok" /\ Valid)
    <3>1. Stay(Watcher, "waiting") /\ aim' = aim
      BY <2>2
    <3>2. QED
      BY <1>0, <3>1, StayFacts DEF Threads, Main, Watcher, Issuer
  <2>3. QED
    BY <2>1, <2>2
<1>2. UNCHANGED <<env, cooling, late>> /\ (cooling => backoff' = "active")
  BY <1>0 DEF PauseKnown
<1> HIDE DEF WatcherDone, Exit, Gone, kind
<1>3. Main \in Threads /\ (kind = "acme" => at[Main] \in AcmeMainStages)
  BY <1>0 DEF MainOrdersNot, Threads
<1>4. cooling /\ kind = "acme" => \A b \in Threads : at'[b] = "order" => at[b] = "order"
  BY <1>0, <1>1, <1>3, StayFacts DEF Threads
<1>5. kind = "acme" => /\ at'[Main] \in AcmeMainStages
                       /\ at'[Main] \in {"cert", "key"} => aim' = "placeholder"
  BY <1>0, <1>1, <1>3, StayFacts DEF MainOrdersNot, AcmeMainStages, Threads
<1>6. QED
  BY <1>0, <1>2, <1>4, <1>5, Quiet DEF PauseInv

LEMMA IssuerStartsPause == ASSUME Types, PauseInv, IssuerStarts PROVE PauseInv'
<1> USE DEF IssuerStarts, BackoffRead, fixed, files, pause, history, bounds, kind
<1>0. StagesOK /\ CountsOK /\ FlagsOK /\ Alone /\ MainOrdersNot /\ PauseKnown /\ PauseSpent
  BY DEF Types, PauseInv
<1>1. MainOrdersNot'
  BY <1>0 DEF MainOrdersNot, AcmeMainStages, Stay, Main, Watcher, Issuer, Threads, Working
<1>2. PauseKnown' /\ PauseSpent'
  BY <1>0 DEF PauseKnown, PauseSpent, MainOrdersNot, AcmeMainStages, Ordering, CountsOK, Stay, Main, Watcher,
              Issuer, Threads
<1>3. QED
  BY <1>1, <1>2 DEF PauseInv

LEMMA IssuerDonePause == ASSUME Types, PauseInv, IssuerDone PROVE PauseInv'
<1> USE DEF IssuerDone, Exit, Gone, fixed, files, pause, history, bounds, kind
<1>0. StagesOK /\ CountsOK /\ FlagsOK /\ Alone /\ MainOrdersNot /\ PauseKnown /\ PauseSpent
  BY DEF Types, PauseInv
<1>1. /\ at'[Main] = "down" \/ (at'[Main] = at[Main] /\ aim' = aim)
      /\ at'[Issuer] \in {"off", "waiting"}
      /\ at'[Watcher] = "off" \/ at'[Watcher] = at[Watcher]
  <2>1. CASE at[Issuer] = "ok"
    <3>1. at' = [b \in Threads |-> IF b = Main THEN "down" ELSE "off"]
      BY <2>1
    <3>2. QED
      BY <3>1 DEF Threads, Main, Watcher, Issuer
  <2>2. CASE ~(at[Issuer] = "ok")
    <3>1. Stay(Issuer, "off") /\ aim' = aim
      BY <2>2
    <3>2. QED
      BY <1>0, <3>1, StayFacts DEF Threads, Main, Watcher, Issuer
  <2>3. QED
    BY <2>1, <2>2
<1>2. UNCHANGED <<env, cooling, late>> /\ (cooling => backoff' = "active")
  BY <1>0 DEF PauseKnown
<1> HIDE DEF IssuerDone, Exit, Gone, kind
<1>3. Main \in Threads /\ (kind = "acme" => at[Main] \in AcmeMainStages)
  BY <1>0 DEF MainOrdersNot, Threads
<1>4. cooling /\ kind = "acme" => \A b \in Threads : at'[b] = "order" => at[b] = "order"
  BY <1>0, <1>1, <1>3, StayFacts DEF Threads
<1>5. kind = "acme" => /\ at'[Main] \in AcmeMainStages
                       /\ at'[Main] \in {"cert", "key"} => aim' = "placeholder"
  BY <1>0, <1>1, <1>3, StayFacts DEF MainOrdersNot, AcmeMainStages, Threads
<1>6. QED
  BY <1>0, <1>2, <1>4, <1>5, Quiet DEF PauseInv

LEMMA CrashPause == ASSUME Types, PauseInv, Crash PROVE PauseInv'
<1> USE DEF Crash, Trouble, Gone, fixed, files, pause, history, bounds, kind
<1>0. StagesOK /\ CountsOK /\ FlagsOK /\ Alone /\ MainOrdersNot /\ PauseKnown /\ PauseSpent
  BY DEF Types, PauseInv
<1>1. MainOrdersNot'
  BY <1>0 DEF MainOrdersNot, AcmeMainStages, Stay, Main, Watcher, Issuer, Threads, Working
<1>2. PauseKnown' /\ PauseSpent'
  BY <1>0 DEF PauseKnown, PauseSpent, MainOrdersNot, AcmeMainStages, Ordering, CountsOK, Stay, Main, Watcher,
              Issuer, Threads
<1>3. QED
  BY <1>1, <1>2 DEF PauseInv

LEMMA RestartPause == ASSUME Types, PauseInv, Restart PROVE PauseInv'
<1> USE DEF Restart, fixed, files, pause, history, bounds, kind
<1>0. StagesOK /\ CountsOK /\ FlagsOK /\ Alone /\ MainOrdersNot /\ PauseKnown /\ PauseSpent
  BY DEF Types, PauseInv
<1>1. MainOrdersNot'
  BY <1>0 DEF MainOrdersNot, AcmeMainStages, Stay, Main, Watcher, Issuer, Threads, Working
<1>2. PauseKnown' /\ PauseSpent'
  BY <1>0 DEF PauseKnown, PauseSpent, MainOrdersNot, AcmeMainStages, Ordering, CountsOK, Stay, Main, Watcher,
              Issuer, Threads
<1>3. QED
  BY <1>1, <1>2 DEF PauseInv

LEMMA CaTurnsPause == ASSUME Types, PauseInv, CaTurns PROVE PauseInv'
<1> USE DEF CaTurns, fixed, files, pause, history, bounds, kind
<1>0. StagesOK /\ CountsOK /\ FlagsOK /\ Alone /\ MainOrdersNot /\ PauseKnown /\ PauseSpent
  BY DEF Types, PauseInv
<1>1. MainOrdersNot'
  BY <1>0 DEF MainOrdersNot, AcmeMainStages, Stay, Main, Watcher, Issuer, Threads, Working
<1>2. PauseKnown' /\ PauseSpent'
  BY <1>0 DEF PauseKnown, PauseSpent, MainOrdersNot, AcmeMainStages, Ordering, CountsOK, Stay, Main, Watcher,
              Issuer, Threads
<1>3. QED
  BY <1>1, <1>2 DEF PauseInv

LEMMA AgePause == ASSUME Types, PauseInv, Age PROVE PauseInv'
<1> USE DEF Age, Trouble, fixed, files, pause, history, bounds, kind
<1>0. StagesOK /\ CountsOK /\ FlagsOK /\ Alone /\ MainOrdersNot /\ PauseKnown /\ PauseSpent
  BY DEF Types, PauseInv
<1>1. MainOrdersNot'
  BY <1>0 DEF MainOrdersNot, AcmeMainStages, Stay, Main, Watcher, Issuer, Threads, Working
<1>2. PauseKnown' /\ PauseSpent'
  BY <1>0 DEF PauseKnown, PauseSpent, MainOrdersNot, AcmeMainStages, Ordering, CountsOK, Stay, Main, Watcher,
              Issuer, Threads
<1>3. QED
  BY <1>1, <1>2 DEF PauseInv

LEMMA LapsePause == ASSUME Types, PauseInv, Lapse PROVE PauseInv'
<1> USE DEF Lapse, fixed, files, pause, history, bounds, kind
<1>0. StagesOK /\ CountsOK /\ FlagsOK /\ Alone /\ MainOrdersNot /\ PauseKnown /\ PauseSpent
  BY DEF Types, PauseInv
<1>1. MainOrdersNot'
  BY <1>0 DEF MainOrdersNot, AcmeMainStages, Stay, Main, Watcher, Issuer, Threads, Working
<1>2. PauseKnown' /\ PauseSpent'
  BY <1>0 DEF PauseKnown, PauseSpent, MainOrdersNot, AcmeMainStages, Ordering, CountsOK, Stay, Main, Watcher,
              Issuer, Threads
<1>3. QED
  BY <1>1, <1>2 DEF PauseInv

LEMMA InstallPause == ASSUME Types, PauseInv, Install PROVE PauseInv'
<1> USE DEF Install, Trouble, fixed, files, pause, history, bounds, kind
<1>0. StagesOK /\ CountsOK /\ FlagsOK /\ Alone /\ MainOrdersNot /\ PauseKnown /\ PauseSpent
  BY DEF Types, PauseInv
<1>1. MainOrdersNot'
  BY <1>0 DEF MainOrdersNot, AcmeMainStages, Stay, Main, Watcher, Issuer, Threads, Working
<1>2. PauseKnown' /\ PauseSpent'
  BY <1>0 DEF PauseKnown, PauseSpent, MainOrdersNot, AcmeMainStages, Ordering, CountsOK, Stay, Main, Watcher,
              Issuer, Threads
<1>3. QED
  BY <1>1, <1>2 DEF PauseInv

LEMMA ReloadReadsPause == ASSUME Types, PauseInv, ReloadReads PROVE PauseInv'
<1> USE DEF ReloadReads, fixed, files, pause, history, bounds, kind
<1>0. StagesOK /\ CountsOK /\ FlagsOK /\ Alone /\ MainOrdersNot /\ PauseKnown /\ PauseSpent
  BY DEF Types, PauseInv
<1>1. MainOrdersNot'
  BY <1>0 DEF MainOrdersNot, AcmeMainStages, Stay, Main, Watcher, Issuer, Threads, Working
<1>2. PauseKnown' /\ PauseSpent'
  BY <1>0 DEF PauseKnown, PauseSpent, MainOrdersNot, AcmeMainStages, Ordering, CountsOK, Stay, Main, Watcher,
              Issuer, Threads
<1>3. QED
  BY <1>1, <1>2 DEF PauseInv

LEMMA InitPause == Init => PauseInv
BY DEF Init, PauseInv, MainOrdersNot, PauseKnown, PauseSpent, AcmeMainStages, Ordering,
       Main, Watcher, Issuer, Threads

LEMMA RefreshPause == ASSUME Types, PauseInv, NEW a \in Threads, Refresh(a) PROVE PauseInv'
BY CheckPause, NewOrderPause, ProofPause, FetchPause,
   RunCommandPause, WriteCertPause, WriteKeyPause, ClearBackoffPause,
   SetBackoffPause
   DEF Refresh

LEMMA NextPause == Types /\ PauseInv /\ [Next]_vars => PauseInv'
<1> SUFFICES ASSUME Types, PauseInv, [Next]_vars PROVE PauseInv'
  OBVIOUS
<1>1. Main \in Threads /\ Watcher \in Threads /\ Issuer \in Threads
  BY DEF Threads
<1>2. CASE MainStep
  BY <1>1, <1>2, RefreshPause, EnsurePause, EnsuredPause, BootPause, LoadPause DEF MainStep
<1>3. CASE WatcherStep
  BY <1>1, <1>3, RefreshPause, WatchPause, ReceivePause, TimeoutPause, HandlePausedPause,
     HandleNewPause, HandleOtherPause, WatcherDonePause DEF WatcherStep
<1>4. CASE IssuerStep
  BY <1>1, <1>4, RefreshPause, IssuerStartsPause, IssuerDonePause DEF IssuerStep
<1>5. CASE Environment
  BY <1>5, RestartPause, CrashPause, CaTurnsPause, AgePause, LapsePause, InstallPause,
     ReloadReadsPause, WriteFailsPause,
     PauseUnwrittenPause DEF Environment
<1>6. CASE UNCHANGED vars
  BY <1>6 DEF PauseInv, MainOrdersNot, PauseKnown, PauseSpent, Ordering, kind,
              vars, fixed, files, pause, history, bounds
<1>7. QED
  BY <1>2, <1>3, <1>4, <1>5, <1>6 DEF Next

\* Let's Encrypt is left alone in the pause that follows a failure, whatever crashes
\* and however often the process is started again: at most one order that had passed
\* its check before is still begun.  The inductive invariant is PauseInv: the file
\* retry_after is there as long as the pause lasts, and with Let's Encrypt the main
\* thread never orders.
THEOREM LeftAloneAlways == Spec => []LeftAlone
<1>1. Types /\ PauseInv => LeftAlone
  BY DEF LeftAlone, Types, CountsOK, PauseInv, PauseKnown, PauseSpent
<1>2. QED
  BY <1>1, InitTypes, InitPause, NextTypes, NextPause, PTL DEF Spec

-----------------------------------------------------------------------------
(* The two files are one pair. *)

AtKey(a) == at[a] = "key"

\* While no write was torn or overlapped, one thread at most is between the two
\* renames, and the file it has put there is the one it has in hand.
OneWriter ==
    clean => \/ Intact /\ \A a \in Threads : ~AtKey(a)
             \/ \E a \in Threads :
                    /\ AtKey(a) /\ \A b \in Threads \ {a} : ~AtKey(b)
                    /\ cert # Missing /\ cert.pair = hand[a].pair

\* A step that writes no file, and by which no thread comes or goes between the
\* renames.
LEMMA SameWriters ==
    ASSUME OneWriter, UNCHANGED files, clean' => clean,
           \A a \in Threads : (AtKey(a)' <=> AtKey(a)) /\ (AtKey(a) => hand'[a] = hand[a])
    PROVE  OneWriter'
<1>1. cert' = cert /\ key' = key /\ Intact' = Intact
  BY DEF files, Intact
<1>2. CASE Intact /\ \A a \in Threads : ~AtKey(a)
  BY <1>1, <1>2 DEF OneWriter
<1>3. ASSUME NEW a \in Threads, AtKey(a), \A b \in Threads \ {a} : ~AtKey(b),
             cert # Missing, cert.pair = hand[a].pair
      PROVE  OneWriter'
  BY <1>1, <1>3 DEF OneWriter
<1>4. QED
  BY <1>2, <1>3 DEF OneWriter

LEMMA CheckPair == ASSUME Types, OneWriter, NEW a \in Threads, Check(a) PROVE OneWriter'
<1> USE DEF Check, BackoffRead, fixed, files, pause, history, bounds
<1>1. StagesOK /\ HandsOK /\ Alone
  BY DEF Types
<1>2. files' = files /\ clean' = clean
  OBVIOUS
<1>3. \A b \in Threads : (AtKey(b)' <=> AtKey(b)) /\ (AtKey(b) => hand'[b] = hand[b])
  BY <1>1 DEF StagesOK, HandsOK, Alone, AtKey, Stay, Main, Watcher, Issuer, Threads
<1>4. QED
  BY <1>2, <1>3, SameWriters

LEMMA NewOrderPair == ASSUME Types, OneWriter, NEW a \in Threads, NewOrder(a) PROVE OneWriter'
<1> USE DEF NewOrder, fixed, files, pause, history, bounds
<1>1. StagesOK /\ HandsOK /\ Alone
  BY DEF Types
<1>2. files' = files /\ clean' = clean
  OBVIOUS
<1>3. \A b \in Threads : (AtKey(b)' <=> AtKey(b)) /\ (AtKey(b) => hand'[b] = hand[b])
  BY <1>1 DEF StagesOK, HandsOK, Alone, AtKey, Stay, Main, Watcher, Issuer, Threads
<1>4. QED
  BY <1>2, <1>3, SameWriters

LEMMA ProofPair == ASSUME Types, OneWriter, NEW a \in Threads, Proof(a) PROVE OneWriter'
<1> USE DEF Proof, fixed, files, pause, history, bounds
<1>1. StagesOK /\ HandsOK /\ Alone
  BY DEF Types
<1>2. files' = files /\ clean' = clean
  OBVIOUS
<1>3. \A b \in Threads : (AtKey(b)' <=> AtKey(b)) /\ (AtKey(b) => hand'[b] = hand[b])
  BY <1>1 DEF StagesOK, HandsOK, Alone, AtKey, Stay, Main, Watcher, Issuer, Threads
<1>4. QED
  BY <1>2, <1>3, SameWriters

LEMMA FetchPair == ASSUME Types, OneWriter, NEW a \in Threads, Fetch(a) PROVE OneWriter'
<1> USE DEF Fetch, fixed, files, pause, history, bounds
<1>1. StagesOK /\ HandsOK /\ Alone
  BY DEF Types
<1>2. files' = files /\ clean' = clean
  OBVIOUS
<1>3. \A b \in Threads : (AtKey(b)' <=> AtKey(b)) /\ (AtKey(b) => hand'[b] = hand[b])
  BY <1>1 DEF StagesOK, HandsOK, Alone, AtKey, Stay, Main, Watcher, Issuer, Threads
<1>4. QED
  BY <1>2, <1>3, SameWriters

LEMMA ClearBackoffPair == ASSUME Types, OneWriter, NEW a \in Threads, ClearBackoff(a) PROVE OneWriter'
<1> USE DEF ClearBackoff, fixed, files, pause, history, bounds
<1>1. StagesOK /\ HandsOK /\ Alone
  BY DEF Types
<1>2. files' = files /\ clean' = clean
  OBVIOUS
<1>3. \A b \in Threads : (AtKey(b)' <=> AtKey(b)) /\ (AtKey(b) => hand'[b] = hand[b])
  BY <1>1 DEF StagesOK, HandsOK, Alone, AtKey, Stay, Main, Watcher, Issuer, Threads
<1>4. QED
  BY <1>2, <1>3, SameWriters

LEMMA SetBackoffPair == ASSUME Types, OneWriter, NEW a \in Threads, SetBackoff(a) PROVE OneWriter'
<1> USE DEF SetBackoff, fixed, files, pause, history, bounds
<1>1. StagesOK /\ HandsOK /\ Alone
  BY DEF Types
<1>2. files' = files /\ clean' = clean
  OBVIOUS
<1>3. \A b \in Threads : (AtKey(b)' <=> AtKey(b)) /\ (AtKey(b) => hand'[b] = hand[b])
  BY <1>1 DEF StagesOK, HandsOK, Alone, AtKey, Stay, Main, Watcher, Issuer, Threads
<1>4. QED
  BY <1>2, <1>3, SameWriters

LEMMA PauseUnwrittenPair == ASSUME Types, OneWriter, NEW a \in Threads, PauseUnwritten(a) PROVE OneWriter'
<1> USE DEF PauseUnwritten, Trouble, fixed, files, pause, history, bounds
<1>1. StagesOK /\ HandsOK /\ Alone
  BY DEF Types
<1>2. files' = files /\ clean' = clean
  OBVIOUS
<1>3. \A b \in Threads : (AtKey(b)' <=> AtKey(b)) /\ (AtKey(b) => hand'[b] = hand[b])
  BY <1>1 DEF StagesOK, HandsOK, Alone, AtKey, Stay, Main, Watcher, Issuer, Threads
<1>4. QED
  BY <1>2, <1>3, SameWriters

LEMMA EnsurePair == ASSUME Types, OneWriter, Ensure PROVE OneWriter'
<1> USE DEF Ensure, InstallPlaceholder, fixed, files, pause, history, bounds
<1>1. StagesOK /\ HandsOK /\ Alone
  BY DEF Types
<1>2. files' = files /\ clean' = clean
  OBVIOUS
<1>3. \A b \in Threads : (AtKey(b)' <=> AtKey(b)) /\ (AtKey(b) => hand'[b] = hand[b])
  BY <1>1 DEF StagesOK, HandsOK, Alone, AtKey, Stay, Main, Watcher, Issuer, Threads
<1>4. QED
  BY <1>2, <1>3, SameWriters

LEMMA EnsuredPair == ASSUME Types, OneWriter, Ensured PROVE OneWriter'
<1> USE DEF Ensured, InstallPlaceholder, fixed, files, pause, history, bounds
<1>1. StagesOK /\ HandsOK /\ Alone
  BY DEF Types
<1>2. files' = files /\ clean' = clean
  OBVIOUS
<1>3. \A b \in Threads : (AtKey(b)' <=> AtKey(b)) /\ (AtKey(b) => hand'[b] = hand[b])
  BY <1>1 DEF StagesOK, HandsOK, Alone, AtKey, Stay, Main, Watcher, Issuer, Threads
<1>4. QED
  BY <1>2, <1>3, SameWriters

LEMMA BootPair == ASSUME Types, OneWriter, Boot PROVE OneWriter'
<1> USE DEF Boot, BackoffRead, fixed, files, pause, history, bounds
<1>1. StagesOK /\ HandsOK /\ Alone
  BY DEF Types
<1>2. files' = files /\ clean' = clean
  OBVIOUS
<1>3. \A b \in Threads : (AtKey(b)' <=> AtKey(b)) /\ (AtKey(b) => hand'[b] = hand[b])
  BY <1>1 DEF StagesOK, HandsOK, Alone, AtKey, Stay, Main, Watcher, Issuer, Threads
<1>4. QED
  BY <1>2, <1>3, SameWriters

LEMMA LoadPair == ASSUME Types, OneWriter, Load PROVE OneWriter'
<1> USE DEF Load, fixed, files, pause, history, bounds
<1>1. StagesOK /\ HandsOK /\ Alone
  BY DEF Types
<1>2. files' = files /\ clean' = clean
  OBVIOUS
<1>3. \A b \in Threads : (AtKey(b)' <=> AtKey(b)) /\ (AtKey(b) => hand'[b] = hand[b])
  BY <1>1 DEF StagesOK, HandsOK, Alone, AtKey, Stay, Main, Watcher, Issuer, Threads
<1>4. QED
  BY <1>2, <1>3, SameWriters

LEMMA WatchPair == ASSUME Types, OneWriter, Watch PROVE OneWriter'
<1> USE DEF Watch, fixed, files, pause, history, bounds
<1>1. StagesOK /\ HandsOK /\ Alone
  BY DEF Types
<1>2. files' = files /\ clean' = clean
  OBVIOUS
<1>3. \A b \in Threads : (AtKey(b)' <=> AtKey(b)) /\ (AtKey(b) => hand'[b] = hand[b])
  BY <1>1 DEF StagesOK, HandsOK, Alone, AtKey, Stay, Main, Watcher, Issuer, Threads
<1>4. QED
  BY <1>2, <1>3, SameWriters

LEMMA ReceivePair == ASSUME Types, OneWriter, Receive PROVE OneWriter'
<1> USE DEF Receive, fixed, files, pause, history, bounds
<1>1. StagesOK /\ HandsOK /\ Alone
  BY DEF Types
<1>2. files' = files /\ clean' = clean
  OBVIOUS
<1>3. \A b \in Threads : (AtKey(b)' <=> AtKey(b)) /\ (AtKey(b) => hand'[b] = hand[b])
  BY <1>1 DEF StagesOK, HandsOK, Alone, AtKey, Stay, Main, Watcher, Issuer, Threads
<1>4. QED
  BY <1>2, <1>3, SameWriters

LEMMA TimeoutPair == ASSUME Types, OneWriter, Timeout PROVE OneWriter'
<1> USE DEF Timeout, fixed, files, pause, history, bounds
<1>1. StagesOK /\ HandsOK /\ Alone
  BY DEF Types
<1>2. files' = files /\ clean' = clean
  OBVIOUS
<1>3. \A b \in Threads : (AtKey(b)' <=> AtKey(b)) /\ (AtKey(b) => hand'[b] = hand[b])
  BY <1>1 DEF StagesOK, HandsOK, Alone, AtKey, Stay, Main, Watcher, Issuer, Threads
<1>4. QED
  BY <1>2, <1>3, SameWriters

LEMMA HandlePausedPair == ASSUME Types, OneWriter, HandlePaused PROVE OneWriter'
<1> USE DEF HandlePaused, Handling, fixed, files, pause, history, bounds
<1>1. StagesOK /\ HandsOK /\ Alone
  BY DEF Types
<1>2. files' = files /\ clean' = clean
  OBVIOUS
<1>3. \A b \in Threads : (AtKey(b)' <=> AtKey(b)) /\ (AtKey(b) => hand'[b] = hand[b])
  BY <1>1 DEF StagesOK, HandsOK, Alone, AtKey, Stay, Main, Watcher, Issuer, Threads
<1>4. QED
  BY <1>2, <1>3, SameWriters

LEMMA HandleOtherPair == ASSUME Types, OneWriter, HandleOther PROVE OneWriter'
<1> USE DEF HandleOther, Handling, HandleBackoff, BackoffRead, fixed, files, pause, history, bounds
<1>1. StagesOK /\ HandsOK /\ Alone
  BY DEF Types
<1>2. files' = files /\ clean' = clean
  OBVIOUS
<1>3. \A b \in Threads : (AtKey(b)' <=> AtKey(b)) /\ (AtKey(b) => hand'[b] = hand[b])
  BY <1>1 DEF StagesOK, HandsOK, Alone, AtKey, Stay, Main, Watcher, Issuer, Threads
<1>4. QED
  BY <1>2, <1>3, SameWriters

LEMMA IssuerStartsPair == ASSUME Types, OneWriter, IssuerStarts PROVE OneWriter'
<1> USE DEF IssuerStarts, BackoffRead, fixed, files, pause, history, bounds
<1>1. StagesOK /\ HandsOK /\ Alone
  BY DEF Types
<1>2. files' = files /\ clean' = clean
  OBVIOUS
<1>3. \A b \in Threads : (AtKey(b)' <=> AtKey(b)) /\ (AtKey(b) => hand'[b] = hand[b])
  BY <1>1 DEF StagesOK, HandsOK, Alone, AtKey, Stay, Main, Watcher, Issuer, Threads
<1>4. QED
  BY <1>2, <1>3, SameWriters

LEMMA RestartPair == ASSUME Types, OneWriter, Restart PROVE OneWriter'
<1> USE DEF Restart, fixed, files, pause, history, bounds
<1>1. StagesOK /\ HandsOK /\ Alone
  BY DEF Types
<1>2. files' = files /\ clean' = clean
  OBVIOUS
<1>3. \A b \in Threads : (AtKey(b)' <=> AtKey(b)) /\ (AtKey(b) => hand'[b] = hand[b])
  BY <1>1 DEF StagesOK, HandsOK, Alone, AtKey, Stay, Main, Watcher, Issuer, Threads
<1>4. QED
  BY <1>2, <1>3, SameWriters

LEMMA CaTurnsPair == ASSUME Types, OneWriter, CaTurns PROVE OneWriter'
<1> USE DEF CaTurns, fixed, files, pause, history, bounds
<1>1. StagesOK /\ HandsOK /\ Alone
  BY DEF Types
<1>2. files' = files /\ clean' = clean
  OBVIOUS
<1>3. \A b \in Threads : (AtKey(b)' <=> AtKey(b)) /\ (AtKey(b) => hand'[b] = hand[b])
  BY <1>1 DEF StagesOK, HandsOK, Alone, AtKey, Stay, Main, Watcher, Issuer, Threads
<1>4. QED
  BY <1>2, <1>3, SameWriters

LEMMA LapsePair == ASSUME Types, OneWriter, Lapse PROVE OneWriter'
<1> USE DEF Lapse, fixed, files, pause, history, bounds
<1>1. StagesOK /\ HandsOK /\ Alone
  BY DEF Types
<1>2. files' = files /\ clean' = clean
  OBVIOUS
<1>3. \A b \in Threads : (AtKey(b)' <=> AtKey(b)) /\ (AtKey(b) => hand'[b] = hand[b])
  BY <1>1 DEF StagesOK, HandsOK, Alone, AtKey, Stay, Main, Watcher, Issuer, Threads
<1>4. QED
  BY <1>2, <1>3, SameWriters

LEMMA ReloadReadsPair == ASSUME Types, OneWriter, ReloadReads PROVE OneWriter'
<1> USE DEF ReloadReads, fixed, files, pause, history, bounds
<1>1. StagesOK /\ HandsOK /\ Alone
  BY DEF Types
<1>2. files' = files /\ clean' = clean
  OBVIOUS
<1>3. \A b \in Threads : (AtKey(b)' <=> AtKey(b)) /\ (AtKey(b) => hand'[b] = hand[b])
  BY <1>1 DEF StagesOK, HandsOK, Alone, AtKey, Stay, Main, Watcher, Issuer, Threads
<1>4. QED
  BY <1>2, <1>3, SameWriters

\* Nobody is between the renames any more, and the files are as they were.
LEMMA AllStopped ==
    ASSUME OneWriter, UNCHANGED files, clean' => clean /\ \A a \in Threads : ~AtKey(a),
           \A a \in Threads : ~AtKey(a)'
    PROVE  OneWriter'
<1>1. Intact' = Intact
  BY DEF files, Intact
<1>2. QED
  BY <1>1 DEF OneWriter

LEMMA GoneStops == Gone => \A a \in Threads : ~AtKey(a)'
BY DEF Gone, AtKey, Threads

LEMMA ExitPair == ASSUME OneWriter, NEW a \in Threads, ~AtKey(a), Exit(a) PROVE OneWriter'
<1>1. clean' => clean /\ \A b \in Threads : ~AtKey(b)
  BY DEF Exit, Midway, AtKey
<1>2. QED
  BY <1>1, GoneStops, AllStopped DEF Exit, Gone, files

LEMMA CrashPair == ASSUME OneWriter, Crash PROVE OneWriter'
<1>1. clean' => clean /\ \A b \in Threads : ~AtKey(b)
  BY DEF Crash, AtKey
<1>2. QED
  BY <1>1, GoneStops, AllStopped DEF Crash, Gone, files

LEMMA HandleNewPair == ASSUME Types, OneWriter, HandleNew PROVE OneWriter'
<1>1. Watcher \in Threads /\ ~AtKey(Watcher)
  BY DEF HandleNew, Handling, AtKey, Threads
<1>2. QED
  BY <1>1, ExitPair DEF HandleNew

LEMMA WatcherDonePair == ASSUME Types, OneWriter, WatcherDone PROVE OneWriter'
<1>1. /\ Watcher \in Threads /\ ~AtKey(Watcher) /\ StagesOK
      /\ at[Watcher] \in {"ok", "err"}
  BY DEF WatcherDone, AtKey, Threads, Types
<1>2. CASE at[Watcher] = "ok" /\ Valid
  BY <1>1, <1>2, ExitPair DEF WatcherDone
<1>3. CASE ~(at[Watcher] = "ok" /\ Valid)
  <2>1. files' = files /\ clean' = clean /\ hand' = hand /\ \E s \in {"waiting", "off"} : Stay(Watcher, s)
    BY <1>3 DEF WatcherDone, files, history, pause
  <2>2. \A b \in Threads : (AtKey(b)' <=> AtKey(b)) /\ (AtKey(b) => hand'[b] = hand[b])
    BY <1>1, <2>1, StayFacts DEF AtKey
  <2>3. QED
    BY <2>1, <2>2, SameWriters
<1>4. QED
  BY <1>2, <1>3

LEMMA IssuerDonePair == ASSUME Types, OneWriter, IssuerDone PROVE OneWriter'
<1>1. /\ Issuer \in Threads /\ ~AtKey(Issuer) /\ StagesOK
      /\ at[Issuer] \in {"ok", "err"}
  BY DEF IssuerDone, AtKey, Threads, Types
<1>2. CASE at[Issuer] = "ok"
  BY <1>1, <1>2, ExitPair DEF IssuerDone
<1>3. CASE ~(at[Issuer] = "ok")
  <2>1. files' = files /\ clean' = clean /\ hand' = hand /\ \E s \in {"waiting", "off"} : Stay(Issuer, s)
    BY <1>3 DEF IssuerDone, files, history, pause
  <2>2. \A b \in Threads : (AtKey(b)' <=> AtKey(b)) /\ (AtKey(b) => hand'[b] = hand[b])
    BY <1>1, <2>1, StayFacts DEF AtKey
  <2>3. QED
    BY <2>1, <2>2, SameWriters
<1>4. QED
  BY <1>2, <1>3

\* Ageing changes no key pair.
LEMMA AgePair == ASSUME Types, OneWriter, Age PROVE OneWriter'
<1>1. /\ cert # Missing /\ cert' # Missing /\ cert'.pair = cert.pair /\ key' = key
      /\ at' = at /\ hand' = hand /\ clean' = clean
  BY CertificateIsThere DEF Age, Types, FilesOK, Certificate, Lives, history, pause
<1>2. Intact' = Intact /\ \A a \in Threads : AtKey(a)' = AtKey(a)
  BY <1>1 DEF Intact, AtKey
<1>3. QED
  BY <1>1, <1>2 DEF OneWriter

\* A pair that is put there while nobody is between the renames is whole.
LEMMA InstallPair == ASSUME Types, OneWriter, Install PROVE OneWriter'
<1>1. /\ cert' = Made("fresh", TRUE) /\ key' = Made("fresh", TRUE).pair /\ at' = at
      /\ clean' => \A a \in Threads : ~AtKey(a)
  BY DEF Install, AtKey
<1>2. Intact'
  BY <1>1, MadeIsCertificate DEF Intact, Lives
<1>3. QED
  BY <1>1, <1>2 DEF OneWriter, AtKey

LEMMA RunCommandPair ==
    ASSUME Types, OneWriter, NEW a \in Threads, RunCommand(a) PROVE OneWriter'
<1>1. StagesOK /\ at[a] = "order"
  BY DEF Types, RunCommand
<1>2. CASE ca
  <2>1. PICK covers \in BOOLEAN : cert' = Made("fresh", covers) /\ key' = Made("fresh", covers).pair
    BY <1>2 DEF RunCommand
  <2>2. Stay(a, "ok") /\ clean' = (Midway(a) = {})
    BY <1>2 DEF RunCommand
  <2>3. Intact'
    BY <2>1, MadeIsCertificate DEF Intact, Lives
  <2>4. clean' => \A b \in Threads : ~AtKey(b)'
    BY <1>1, <2>2, StayFacts DEF Midway, AtKey
  <2>5. QED
    BY <2>3, <2>4 DEF OneWriter
<1>3. CASE ~ca
  <2>1. files' = files /\ clean' = clean /\ hand' = hand /\ Stay(a, "err")
    BY <1>3 DEF RunCommand, files
  <2>2. \A b \in Threads : (AtKey(b)' <=> AtKey(b)) /\ (AtKey(b) => hand'[b] = hand[b])
    BY <1>1, <2>1, StayFacts DEF AtKey
  <2>3. QED
    BY <2>1, <2>2, SameWriters
<1>4. QED
  BY <1>2, <1>3

\* The first rename: the writer is alone, or the write is one that overlaps.
LEMMA WriteCertPair ==
    ASSUME Types, OneWriter, NEW a \in Threads, WriteCert(a) PROVE OneWriter'
<1>1. /\ StagesOK /\ at[a] = "cert" /\ hand[a] # Missing /\ cert' = hand[a] /\ hand' = hand
      /\ Stay(a, "key") /\ clean' = (clean /\ Midway(a) = {})
  BY DEF Types, HandsOK, WriteCert
<1>2. AtKey(a)' /\ (clean' => \A b \in Threads \ {a} : ~AtKey(b)')
  BY <1>1, StayFacts DEF Midway, AtKey
<1>3. cert' # Missing /\ cert'.pair = hand'[a].pair
  BY <1>1
<1>4. Missing' = Missing
  BY DEF Missing
<1>5. QED
  BY <1>2, <1>3, <1>4 DEF OneWriter

\* The second rename completes what the first began.
LEMMA WriteKeyPair ==
    ASSUME Types, OneWriter, NEW a \in Threads, WriteKey(a) PROVE OneWriter'
<1>1. /\ StagesOK /\ at[a] = "key" /\ hand[a] # Missing /\ cert' = cert
      /\ key' = hand[a].pair /\ clean' = (clean \/ (Midway(a) = {} /\ cert = hand[a]))
      /\ \E s \in {"clear", "ok"} : Stay(a, s)
  BY DEF Types, HandsOK, WriteKey
<1>2. clean' => cert # Missing /\ cert.pair = hand[a].pair /\ \A b \in Threads \ {a} : ~AtKey(b)
  BY <1>1 DEF OneWriter, AtKey, Midway
<1>3. clean' => Intact'
  BY <1>1, <1>2 DEF Intact
<1>4. clean' => \A b \in Threads : ~AtKey(b)'
  BY <1>1, <1>2, StayFacts DEF AtKey
<1>5. QED
  BY <1>3, <1>4 DEF OneWriter

LEMMA WriteFailsPair ==
    ASSUME Types, OneWriter, NEW a \in Threads, WriteFails(a) PROVE OneWriter'
<1>1. /\ StagesOK /\ HandsOK /\ files' = files /\ clean' = (clean /\ at[a] = "cert")
      /\ hand' = [hand EXCEPT ![a] = Missing] /\ \E s \in {"failed", "err"} : Stay(a, s)
  BY DEF Types, WriteFails
<1>2. CASE at[a] = "cert"
  <2>1. \A b \in Threads : (AtKey(b)' <=> AtKey(b)) /\ (AtKey(b) => hand'[b] = hand[b])
    BY <1>1, <1>2, StayFacts DEF AtKey, HandsOK
  <2>2. QED
    BY <1>1, <2>1, SameWriters
<1>3. CASE at[a] # "cert"
  BY <1>1, <1>3 DEF OneWriter
<1>4. QED
  BY <1>2, <1>3

LEMMA InitPair == Init => OneWriter
BY DEF Init, OneWriter, Intact, AtKey, Threads

LEMMA RefreshPair == ASSUME Types, OneWriter, NEW a \in Threads, Refresh(a) PROVE OneWriter'
BY CheckPair, NewOrderPair, ProofPair, FetchPair,
   RunCommandPair, WriteCertPair, WriteKeyPair, ClearBackoffPair,
   SetBackoffPair
   DEF Refresh

LEMMA NextPair == Types /\ OneWriter /\ [Next]_vars => OneWriter'
<1> SUFFICES ASSUME Types, OneWriter, [Next]_vars PROVE OneWriter'
  OBVIOUS
<1>1. Main \in Threads /\ Watcher \in Threads /\ Issuer \in Threads
  BY DEF Threads
<1>2. CASE MainStep
  BY <1>1, <1>2, RefreshPair, EnsurePair, EnsuredPair, BootPair, LoadPair DEF MainStep
<1>3. CASE WatcherStep
  BY <1>1, <1>3, RefreshPair, WatchPair, ReceivePair, TimeoutPair, HandlePausedPair,
     HandleNewPair, HandleOtherPair, WatcherDonePair DEF WatcherStep
<1>4. CASE IssuerStep
  BY <1>1, <1>4, RefreshPair, IssuerStartsPair, IssuerDonePair DEF IssuerStep
<1>5. CASE Environment
  BY <1>5, RestartPair, CrashPair, CaTurnsPair, AgePair, LapsePair, InstallPair,
     ReloadReadsPair, WriteFailsPair,
     PauseUnwrittenPair DEF Environment
<1>6. CASE UNCHANGED vars
  BY <1>6 DEF OneWriter, Intact, AtKey,
              vars, fixed, files, pause, history, bounds
<1>7. QED
  BY <1>2, <1>3, <1>4, <1>5, <1>6 DEF Next

\* The certificate and the key are renamed into place one after the other, by three
\* threads that know nothing of each other, and a crash may come between: unless a
\* write was torn so, or two overlapped, the files hold one pair whenever no thread is
\* between the renames.  The inductive invariant is OneWriter: while that is so, at
\* most one thread is there, and what it has put in place is what it has in hand.
THEOREM PairIntactAlways == Spec => []PairIntact
<1>1. OneWriter => PairIntact
  BY DEF OneWriter, PairIntact, AtKey
<1>2. QED
  BY <1>1, InitTypes, InitPair, NextTypes, NextPair, PTL DEF Spec

-----------------------------------------------------------------------------
(* What a restart finds. *)

\* Only a certificate for all the domains is ever in a thread's hand, the issuer runs
\* with Let's Encrypt alone, and what it has written is still there, or a later one.
HandCovers == \A a \in Threads : hand[a] # Missing => hand[a].covers
IssuerAcme == at[Issuer] # "off" => kind = "acme"
IssuerWrote == at[Issuer] \in {"key", "clear", "ok"} => cert # Missing /\ cert.covers
Wrote == HandCovers /\ IssuerAcme /\ IssuerWrote

\* A step that leaves the file of the certificate alone, and brings the issuer neither
\* to life nor past its first rename.
LEMMA SameIssuer ==
    ASSUME Wrote, env' = env, cert' = cert,
           \A a \in Threads : hand'[a] \in {hand[a], Missing} \/ hand'[a].covers,
           \/ at'[Issuer] = at[Issuer]
           \/ at'[Issuer] = "off"
           \/ at[Issuer] # "off" /\ at'[Issuer] \notin {"key", "clear", "ok"}
           \/ at[Issuer] \in {"key", "clear"}
    PROVE  Wrote'
<1>1. kind' = kind /\ Missing' = Missing
  BY DEF kind, Missing
<1>2. HandCovers'
  BY <1>1 DEF Wrote, HandCovers
<1>3. IssuerAcme' /\ IssuerWrote'
  BY <1>1 DEF Wrote, IssuerAcme, IssuerWrote
<1>4. QED
  BY <1>2, <1>3 DEF Wrote

\* What is made in a refresh covers the domains.
LEMMA MadeCovers == \A life : Made(life, TRUE).covers
BY DEF Made

LEMMA CheckWrote == ASSUME Types, Wrote, NEW a \in Threads, Check(a) PROVE Wrote'
<1> USE DEF Check, BackoffRead, fixed, files, pause, history, bounds
<1>1. StagesOK /\ HandsOK /\ Alone
  BY DEF Types
<1>2. env' = env /\ cert' = cert
  OBVIOUS
<1>3. \A b \in Threads : hand'[b] \in {hand[b], Missing} \/ hand'[b].covers
  BY <1>1, MadeCovers DEF HandsOK
<1>4. \/ at'[Issuer] = at[Issuer]
      \/ at'[Issuer] = "off"
      \/ at[Issuer] # "off" /\ at'[Issuer] \notin {"key", "clear", "ok"}
      \/ at[Issuer] \in {"key", "clear"}
  BY <1>1 DEF StagesOK, Alone, Stay, Main, Watcher, Issuer, Threads
<1>5. QED
  BY <1>2, <1>3, <1>4, SameIssuer

LEMMA NewOrderWrote == ASSUME Types, Wrote, NEW a \in Threads, NewOrder(a) PROVE Wrote'
<1> USE DEF NewOrder, fixed, files, pause, history, bounds
<1>1. StagesOK /\ HandsOK /\ Alone
  BY DEF Types
<1>2. env' = env /\ cert' = cert
  OBVIOUS
<1>3. \A b \in Threads : hand'[b] \in {hand[b], Missing} \/ hand'[b].covers
  BY <1>1, MadeCovers DEF HandsOK
<1>4. \/ at'[Issuer] = at[Issuer]
      \/ at'[Issuer] = "off"
      \/ at[Issuer] # "off" /\ at'[Issuer] \notin {"key", "clear", "ok"}
      \/ at[Issuer] \in {"key", "clear"}
  BY <1>1 DEF StagesOK, Alone, Stay, Main, Watcher, Issuer, Threads
<1>5. QED
  BY <1>2, <1>3, <1>4, SameIssuer

LEMMA ProofWrote == ASSUME Types, Wrote, NEW a \in Threads, Proof(a) PROVE Wrote'
<1> USE DEF Proof, fixed, files, pause, history, bounds
<1>1. StagesOK /\ HandsOK /\ Alone
  BY DEF Types
<1>2. env' = env /\ cert' = cert
  OBVIOUS
<1>3. \A b \in Threads : hand'[b] \in {hand[b], Missing} \/ hand'[b].covers
  BY <1>1, MadeCovers DEF HandsOK
<1>4. \/ at'[Issuer] = at[Issuer]
      \/ at'[Issuer] = "off"
      \/ at[Issuer] # "off" /\ at'[Issuer] \notin {"key", "clear", "ok"}
      \/ at[Issuer] \in {"key", "clear"}
  BY <1>1 DEF StagesOK, Alone, Stay, Main, Watcher, Issuer, Threads
<1>5. QED
  BY <1>2, <1>3, <1>4, SameIssuer

LEMMA FetchWrote == ASSUME Types, Wrote, NEW a \in Threads, Fetch(a) PROVE Wrote'
<1> USE DEF Fetch, fixed, files, pause, history, bounds
<1>1. StagesOK /\ HandsOK /\ Alone
  BY DEF Types
<1>2. env' = env /\ cert' = cert
  OBVIOUS
<1>3. \A b \in Threads : hand'[b] \in {hand[b], Missing} \/ hand'[b].covers
  BY <1>1, MadeCovers DEF HandsOK
<1>4. \/ at'[Issuer] = at[Issuer]
      \/ at'[Issuer] = "off"
      \/ at[Issuer] # "off" /\ at'[Issuer] \notin {"key", "clear", "ok"}
      \/ at[Issuer] \in {"key", "clear"}
  BY <1>1 DEF StagesOK, Alone, Stay, Main, Watcher, Issuer, Threads
<1>5. QED
  BY <1>2, <1>3, <1>4, SameIssuer

LEMMA WriteKeyWrote == ASSUME Types, Wrote, NEW a \in Threads, WriteKey(a) PROVE Wrote'
<1> USE DEF WriteKey, AcmeOrder, Placeholder, fixed, files, pause, history, bounds
<1>1. StagesOK /\ HandsOK /\ Alone
  BY DEF Types
<1>2. env' = env /\ cert' = cert
  OBVIOUS
<1>3. \A b \in Threads : hand'[b] \in {hand[b], Missing} \/ hand'[b].covers
  BY <1>1, MadeCovers DEF HandsOK
<1>4. \/ at'[Issuer] = at[Issuer]
      \/ at'[Issuer] = "off"
      \/ at[Issuer] # "off" /\ at'[Issuer] \notin {"key", "clear", "ok"}
      \/ at[Issuer] \in {"key", "clear"}
  BY <1>1 DEF StagesOK, Alone, Stay, Main, Watcher, Issuer, Threads
<1>5. QED
  BY <1>2, <1>3, <1>4, SameIssuer

LEMMA WriteFailsWrote == ASSUME Types, Wrote, NEW a \in Threads, WriteFails(a) PROVE Wrote'
<1> USE DEF WriteFails, Trouble, AcmeOrder, Placeholder, fixed, files, pause, history, bounds
<1>1. StagesOK /\ HandsOK /\ Alone
  BY DEF Types
<1>2. env' = env /\ cert' = cert
  OBVIOUS
<1>3. \A b \in Threads : hand'[b] \in {hand[b], Missing} \/ hand'[b].covers
  BY <1>1, MadeCovers DEF HandsOK
<1>4. \/ at'[Issuer] = at[Issuer]
      \/ at'[Issuer] = "off"
      \/ at[Issuer] # "off" /\ at'[Issuer] \notin {"key", "clear", "ok"}
      \/ at[Issuer] \in {"key", "clear"}
  BY <1>1 DEF StagesOK, Alone, Stay, Main, Watcher, Issuer, Threads
<1>5. QED
  BY <1>2, <1>3, <1>4, SameIssuer

LEMMA ClearBackoffWrote == ASSUME Types, Wrote, NEW a \in Threads, ClearBackoff(a) PROVE Wrote'
<1> USE DEF ClearBackoff, fixed, files, pause, history, bounds
<1>1. StagesOK /\ HandsOK /\ Alone
  BY DEF Types
<1>2. env' = env /\ cert' = cert
  OBVIOUS
<1>3. \A b \in Threads : hand'[b] \in {hand[b], Missing} \/ hand'[b].covers
  BY <1>1, MadeCovers DEF HandsOK
<1>4. \/ at'[Issuer] = at[Issuer]
      \/ at'[Issuer] = "off"
      \/ at[Issuer] # "off" /\ at'[Issuer] \notin {"key", "clear", "ok"}
      \/ at[Issuer] \in {"key", "clear"}
  BY <1>1 DEF StagesOK, Alone, Stay, Main, Watcher, Issuer, Threads
<1>5. QED
  BY <1>2, <1>3, <1>4, SameIssuer

LEMMA SetBackoffWrote == ASSUME Types, Wrote, NEW a \in Threads, SetBackoff(a) PROVE Wrote'
<1> USE DEF SetBackoff, fixed, files, pause, history, bounds
<1>1. StagesOK /\ HandsOK /\ Alone
  BY DEF Types
<1>2. env' = env /\ cert' = cert
  OBVIOUS
<1>3. \A b \in Threads : hand'[b] \in {hand[b], Missing} \/ hand'[b].covers
  BY <1>1, MadeCovers DEF HandsOK
<1>4. \/ at'[Issuer] = at[Issuer]
      \/ at'[Issuer] = "off"
      \/ at[Issuer] # "off" /\ at'[Issuer] \notin {"key", "clear", "ok"}
      \/ at[Issuer] \in {"key", "clear"}
  BY <1>1 DEF StagesOK, Alone, Stay, Main, Watcher, Issuer, Threads
<1>5. QED
  BY <1>2, <1>3, <1>4, SameIssuer

LEMMA PauseUnwrittenWrote == ASSUME Types, Wrote, NEW a \in Threads, PauseUnwritten(a) PROVE Wrote'
<1> USE DEF PauseUnwritten, Trouble, fixed, files, pause, history, bounds
<1>1. StagesOK /\ HandsOK /\ Alone
  BY DEF Types
<1>2. env' = env /\ cert' = cert
  OBVIOUS
<1>3. \A b \in Threads : hand'[b] \in {hand[b], Missing} \/ hand'[b].covers
  BY <1>1, MadeCovers DEF HandsOK
<1>4. \/ at'[Issuer] = at[Issuer]
      \/ at'[Issuer] = "off"
      \/ at[Issuer] # "off" /\ at'[Issuer] \notin {"key", "clear", "ok"}
      \/ at[Issuer] \in {"key", "clear"}
  BY <1>1 DEF StagesOK, Alone, Stay, Main, Watcher, Issuer, Threads
<1>5. QED
  BY <1>2, <1>3, <1>4, SameIssuer

LEMMA EnsureWrote == ASSUME Types, Wrote, Ensure PROVE Wrote'
<1> USE DEF Ensure, InstallPlaceholder, fixed, files, pause, history, bounds
<1>1. StagesOK /\ HandsOK /\ Alone
  BY DEF Types
<1>2. env' = env /\ cert' = cert
  OBVIOUS
<1>3. \A b \in Threads : hand'[b] \in {hand[b], Missing} \/ hand'[b].covers
  BY <1>1, MadeCovers DEF HandsOK
<1>4. \/ at'[Issuer] = at[Issuer]
      \/ at'[Issuer] = "off"
      \/ at[Issuer] # "off" /\ at'[Issuer] \notin {"key", "clear", "ok"}
      \/ at[Issuer] \in {"key", "clear"}
  BY <1>1 DEF StagesOK, Alone, Stay, Main, Watcher, Issuer, Threads
<1>5. QED
  BY <1>2, <1>3, <1>4, SameIssuer

LEMMA EnsuredWrote == ASSUME Types, Wrote, Ensured PROVE Wrote'
<1> USE DEF Ensured, InstallPlaceholder, fixed, files, pause, history, bounds
<1>1. StagesOK /\ HandsOK /\ Alone
  BY DEF Types
<1>2. env' = env /\ cert' = cert
  OBVIOUS
<1>3. \A b \in Threads : hand'[b] \in {hand[b], Missing} \/ hand'[b].covers
  BY <1>1, MadeCovers DEF HandsOK
<1>4. \/ at'[Issuer] = at[Issuer]
      \/ at'[Issuer] = "off"
      \/ at[Issuer] # "off" /\ at'[Issuer] \notin {"key", "clear", "ok"}
      \/ at[Issuer] \in {"key", "clear"}
  BY <1>1 DEF StagesOK, Alone, Stay, Main, Watcher, Issuer, Threads
<1>5. QED
  BY <1>2, <1>3, <1>4, SameIssuer

LEMMA LoadWrote == ASSUME Types, Wrote, Load PROVE Wrote'
<1> USE DEF Load, fixed, files, pause, history, bounds
<1>1. StagesOK /\ HandsOK /\ Alone
  BY DEF Types
<1>2. env' = env /\ cert' = cert
  OBVIOUS
<1>3. \A b \in Threads : hand'[b] \in {hand[b], Missing} \/ hand'[b].covers
  BY <1>1, MadeCovers DEF HandsOK
<1>4. \/ at'[Issuer] = at[Issuer]
      \/ at'[Issuer] = "off"
      \/ at[Issuer] # "off" /\ at'[Issuer] \notin {"key", "clear", "ok"}
      \/ at[Issuer] \in {"key", "clear"}
  BY <1>1 DEF StagesOK, Alone, Stay, Main, Watcher, Issuer, Threads
<1>5. QED
  BY <1>2, <1>3, <1>4, SameIssuer

LEMMA WatchWrote == ASSUME Types, Wrote, Watch PROVE Wrote'
<1> USE DEF Watch, fixed, files, pause, history, bounds
<1>1. StagesOK /\ HandsOK /\ Alone
  BY DEF Types
<1>2. env' = env /\ cert' = cert
  OBVIOUS
<1>3. \A b \in Threads : hand'[b] \in {hand[b], Missing} \/ hand'[b].covers
  BY <1>1, MadeCovers DEF HandsOK
<1>4. \/ at'[Issuer] = at[Issuer]
      \/ at'[Issuer] = "off"
      \/ at[Issuer] # "off" /\ at'[Issuer] \notin {"key", "clear", "ok"}
      \/ at[Issuer] \in {"key", "clear"}
  BY <1>1 DEF StagesOK, Alone, Stay, Main, Watcher, Issuer, Threads
<1>5. QED
  BY <1>2, <1>3, <1>4, SameIssuer

LEMMA ReceiveWrote == ASSUME Types, Wrote, Receive PROVE Wrote'
<1> USE DEF Receive, fixed, files, pause, history, bounds
<1>1. StagesOK /\ HandsOK /\ Alone
  BY DEF Types
<1>2. env' = env /\ cert' = cert
  OBVIOUS
<1>3. \A b \in Threads : hand'[b] \in {hand[b], Missing} \/ hand'[b].covers
  BY <1>1, MadeCovers DEF HandsOK
<1>4. \/ at'[Issuer] = at[Issuer]
      \/ at'[Issuer] = "off"
      \/ at[Issuer] # "off" /\ at'[Issuer] \notin {"key", "clear", "ok"}
      \/ at[Issuer] \in {"key", "clear"}
  BY <1>1 DEF StagesOK, Alone, Stay, Main, Watcher, Issuer, Threads
<1>5. QED
  BY <1>2, <1>3, <1>4, SameIssuer

LEMMA TimeoutWrote == ASSUME Types, Wrote, Timeout PROVE Wrote'
<1> USE DEF Timeout, fixed, files, pause, history, bounds
<1>1. StagesOK /\ HandsOK /\ Alone
  BY DEF Types
<1>2. env' = env /\ cert' = cert
  OBVIOUS
<1>3. \A b \in Threads : hand'[b] \in {hand[b], Missing} \/ hand'[b].covers
  BY <1>1, MadeCovers DEF HandsOK
<1>4. \/ at'[Issuer] = at[Issuer]
      \/ at'[Issuer] = "off"
      \/ at[Issuer] # "off" /\ at'[Issuer] \notin {"key", "clear", "ok"}
      \/ at[Issuer] \in {"key", "clear"}
  BY <1>1 DEF StagesOK, Alone, Stay, Main, Watcher, Issuer, Threads
<1>5. QED
  BY <1>2, <1>3, <1>4, SameIssuer

LEMMA HandlePausedWrote == ASSUME Types, Wrote, HandlePaused PROVE Wrote'
<1> USE DEF HandlePaused, Handling, fixed, files, pause, history, bounds
<1>1. StagesOK /\ HandsOK /\ Alone
  BY DEF Types
<1>2. env' = env /\ cert' = cert
  OBVIOUS
<1>3. \A b \in Threads : hand'[b] \in {hand[b], Missing} \/ hand'[b].covers
  BY <1>1, MadeCovers DEF HandsOK
<1>4. \/ at'[Issuer] = at[Issuer]
      \/ at'[Issuer] = "off"
      \/ at[Issuer] # "off" /\ at'[Issuer] \notin {"key", "clear", "ok"}
      \/ at[Issuer] \in {"key", "clear"}
  BY <1>1 DEF StagesOK, Alone, Stay, Main, Watcher, Issuer, Threads
<1>5. QED
  BY <1>2, <1>3, <1>4, SameIssuer

LEMMA HandleOtherWrote == ASSUME Types, Wrote, HandleOther PROVE Wrote'
<1> USE DEF HandleOther, Handling, HandleBackoff, BackoffRead, fixed, files, pause, history, bounds
<1>1. StagesOK /\ HandsOK /\ Alone
  BY DEF Types
<1>2. env' = env /\ cert' = cert
  OBVIOUS
<1>3. \A b \in Threads : hand'[b] \in {hand[b], Missing} \/ hand'[b].covers
  BY <1>1, MadeCovers DEF HandsOK
<1>4. \/ at'[Issuer] = at[Issuer]
      \/ at'[Issuer] = "off"
      \/ at[Issuer] # "off" /\ at'[Issuer] \notin {"key", "clear", "ok"}
      \/ at[Issuer] \in {"key", "clear"}
  BY <1>1 DEF StagesOK, Alone, Stay, Main, Watcher, Issuer, Threads
<1>5. QED
  BY <1>2, <1>3, <1>4, SameIssuer

LEMMA IssuerStartsWrote == ASSUME Types, Wrote, IssuerStarts PROVE Wrote'
<1> USE DEF IssuerStarts, BackoffRead, fixed, files, pause, history, bounds
<1>1. StagesOK /\ HandsOK /\ Alone
  BY DEF Types
<1>2. env' = env /\ cert' = cert
  OBVIOUS
<1>3. \A b \in Threads : hand'[b] \in {hand[b], Missing} \/ hand'[b].covers
  BY <1>1, MadeCovers DEF HandsOK
<1>4. \/ at'[Issuer] = at[Issuer]
      \/ at'[Issuer] = "off"
      \/ at[Issuer] # "off" /\ at'[Issuer] \notin {"key", "clear", "ok"}
      \/ at[Issuer] \in {"key", "clear"}
  BY <1>1 DEF StagesOK, Alone, Stay, Main, Watcher, Issuer, Threads
<1>5. QED
  BY <1>2, <1>3, <1>4, SameIssuer

LEMMA RestartWrote == ASSUME Types, Wrote, Restart PROVE Wrote'
<1> USE DEF Restart, fixed, files, pause, history, bounds
<1>1. StagesOK /\ HandsOK /\ Alone
  BY DEF Types
<1>2. env' = env /\ cert' = cert
  OBVIOUS
<1>3. \A b \in Threads : hand'[b] \in {hand[b], Missing} \/ hand'[b].covers
  BY <1>1, MadeCovers DEF HandsOK
<1>4. \/ at'[Issuer] = at[Issuer]
      \/ at'[Issuer] = "off"
      \/ at[Issuer] # "off" /\ at'[Issuer] \notin {"key", "clear", "ok"}
      \/ at[Issuer] \in {"key", "clear"}
  BY <1>1 DEF StagesOK, Alone, Stay, Main, Watcher, Issuer, Threads
<1>5. QED
  BY <1>2, <1>3, <1>4, SameIssuer

LEMMA CaTurnsWrote == ASSUME Types, Wrote, CaTurns PROVE Wrote'
<1> USE DEF CaTurns, fixed, files, pause, history, bounds
<1>1. StagesOK /\ HandsOK /\ Alone
  BY DEF Types
<1>2. env' = env /\ cert' = cert
  OBVIOUS
<1>3. \A b \in Threads : hand'[b] \in {hand[b], Missing} \/ hand'[b].covers
  BY <1>1, MadeCovers DEF HandsOK
<1>4. \/ at'[Issuer] = at[Issuer]
      \/ at'[Issuer] = "off"
      \/ at[Issuer] # "off" /\ at'[Issuer] \notin {"key", "clear", "ok"}
      \/ at[Issuer] \in {"key", "clear"}
  BY <1>1 DEF StagesOK, Alone, Stay, Main, Watcher, Issuer, Threads
<1>5. QED
  BY <1>2, <1>3, <1>4, SameIssuer

LEMMA LapseWrote == ASSUME Types, Wrote, Lapse PROVE Wrote'
<1> USE DEF Lapse, fixed, files, pause, history, bounds
<1>1. StagesOK /\ HandsOK /\ Alone
  BY DEF Types
<1>2. env' = env /\ cert' = cert
  OBVIOUS
<1>3. \A b \in Threads : hand'[b] \in {hand[b], Missing} \/ hand'[b].covers
  BY <1>1, MadeCovers DEF HandsOK
<1>4. \/ at'[Issuer] = at[Issuer]
      \/ at'[Issuer] = "off"
      \/ at[Issuer] # "off" /\ at'[Issuer] \notin {"key", "clear", "ok"}
      \/ at[Issuer] \in {"key", "clear"}
  BY <1>1 DEF StagesOK, Alone, Stay, Main, Watcher, Issuer, Threads
<1>5. QED
  BY <1>2, <1>3, <1>4, SameIssuer

LEMMA ReloadReadsWrote == ASSUME Types, Wrote, ReloadReads PROVE Wrote'
<1> USE DEF ReloadReads, fixed, files, pause, history, bounds
<1>1. StagesOK /\ HandsOK /\ Alone
  BY DEF Types
<1>2. env' = env /\ cert' = cert
  OBVIOUS
<1>3. \A b \in Threads : hand'[b] \in {hand[b], Missing} \/ hand'[b].covers
  BY <1>1, MadeCovers DEF HandsOK
<1>4. \/ at'[Issuer] = at[Issuer]
      \/ at'[Issuer] = "off"
      \/ at[Issuer] # "off" /\ at'[Issuer] \notin {"key", "clear", "ok"}
      \/ at[Issuer] \in {"key", "clear"}
  BY <1>1 DEF StagesOK, Alone, Stay, Main, Watcher, Issuer, Threads
<1>5. QED
  BY <1>2, <1>3, <1>4, SameIssuer

\* The process is gone: nothing is in hand, and there is no issuer.
LEMMA GoneWrote == ASSUME Wrote, Gone PROVE Wrote'
<1>1. env' = env /\ cert' = cert /\ at'[Issuer] = "off"
  BY DEF Gone, fixed, files, Threads, Main, Issuer
<1>2. \A b \in Threads : hand'[b] = Missing
  BY DEF Gone
<1>3. QED
  BY <1>1, <1>2, SameIssuer

LEMMA CrashWrote == ASSUME Types, Wrote, Crash PROVE Wrote'
BY GoneWrote DEF Crash

LEMMA HandleNewWrote == ASSUME Types, Wrote, HandleNew PROVE Wrote'
BY GoneWrote DEF HandleNew, Exit

LEMMA WatcherDoneWrote == ASSUME Types, Wrote, WatcherDone PROVE Wrote'
<1>1. CASE at[Watcher] = "ok" /\ Valid
  BY <1>1, GoneWrote DEF WatcherDone, Exit
<1>2. CASE ~(at[Watcher] = "ok" /\ Valid)
  <2>1. env' = env /\ cert' = cert /\ hand' = hand /\ Stay(Watcher, "waiting")
    BY <1>2 DEF WatcherDone, fixed, files
  <2>2. at'[Issuer] = at[Issuer]
    BY <2>1 DEF Types, StagesOK, Stay, Watcher, Issuer, Threads
  <2>3. QED
    BY <2>1, <2>2, SameIssuer
<1>3. QED
  BY <1>1, <1>2

LEMMA IssuerDoneWrote == ASSUME Types, Wrote, IssuerDone PROVE Wrote'
<1>1. CASE at[Issuer] = "ok"
  BY <1>1, GoneWrote DEF IssuerDone, Exit
<1>2. CASE at[Issuer] # "ok"
  <2>1. env' = env /\ cert' = cert /\ hand' = hand /\ Stay(Issuer, "off")
    BY <1>2 DEF IssuerDone, fixed, files
  <2>2. at'[Issuer] = "off"
    BY <2>1 DEF Types, StagesOK, Stay, Issuer, Threads
  <2>3. QED
    BY <2>1, <2>2, SameIssuer
<1>3. QED
  BY <1>1, <1>2

\* run() starts the issuer with Let's Encrypt alone.
LEMMA BootWrote == ASSUME Types, Wrote, Boot PROVE Wrote'
<1>1. /\ env' = env /\ cert' = cert /\ hand' = hand
      /\ at'[Issuer] \in {"off", "delayed"}
      /\ at'[Issuer] = "delayed" => kind = "acme"
  BY DEF Boot, fixed, files, Types, StagesOK, Threads, Main, Watcher, Issuer
<1>2. kind' = kind /\ Missing' = Missing
  BY <1>1 DEF kind, Missing
<1>3. QED
  BY <1>1, <1>2 DEF Wrote, HandCovers, IssuerAcme, IssuerWrote

\* Ageing leaves the names of the certificate.
LEMMA AgeWrote == ASSUME Types, Wrote, Age PROVE Wrote'
<1>1. /\ env' = env /\ hand' = hand /\ at' = at
      /\ cert # Missing /\ cert' # Missing /\ cert'.covers = cert.covers
  BY CertificateIsThere DEF Age, Types, FilesOK, Certificate, Lives, fixed
<1>2. kind' = kind /\ Missing' = Missing
  BY <1>1 DEF kind, Missing
<1>3. QED
  BY <1>1, <1>2 DEF Wrote, HandCovers, IssuerAcme, IssuerWrote

LEMMA InstallWrote == ASSUME Types, Wrote, Install PROVE Wrote'
<1>1. /\ env' = env /\ hand' = hand /\ at' = at
      /\ cert' = Made("fresh", TRUE)
  BY DEF Install, fixed
<1>2. cert' # Missing /\ cert'.covers
  BY <1>1, MadeIsCertificate, MadeCovers DEF Lives
<1>3. kind' = kind /\ Missing' = Missing
  BY <1>1 DEF kind, Missing
<1>4. QED
  BY <1>1, <1>2, <1>3 DEF Wrote, HandCovers, IssuerAcme, IssuerWrote

\* A command writes for whatever domains it likes; with a command there is no issuer.
LEMMA RunCommandWrote ==
    ASSUME Types, Wrote, NEW a \in Threads, RunCommand(a) PROVE Wrote'
<1>1. env' = env /\ hand' = hand /\ at[a] = "order" /\ kind = "command"
  BY DEF RunCommand, fixed
<1>2. a # Issuer /\ at[Issuer] = "off"
  BY <1>1 DEF Wrote, IssuerAcme
<1>3. at'[Issuer] = "off"
  <2>1. \E s : Stay(a, s)
    BY DEF RunCommand
  <2>2. QED
    BY <1>2, <2>1, StayFacts DEF Types, Threads
<1>4. kind' = kind /\ Missing' = Missing
  BY <1>1 DEF kind, Missing
<1>5. QED
  BY <1>1, <1>3, <1>4 DEF Wrote, HandCovers, IssuerAcme, IssuerWrote

\* The first rename, by the issuer or by another thread.
LEMMA WriteCertWrote ==
    ASSUME Types, Wrote, NEW a \in Threads, WriteCert(a) PROVE Wrote'
<1>1. /\ StagesOK /\ at[a] = "cert" /\ hand[a] # Missing /\ cert' = hand[a]
      /\ hand' = hand /\ env' = env /\ Stay(a, "key")
  BY DEF Types, HandsOK, WriteCert, fixed
<1>2. cert' # Missing /\ cert'.covers
  BY <1>1 DEF Wrote, HandCovers
<1>3. at'[Issuer] = "off" <=> at[Issuer] = "off"
  BY <1>1, StayFacts DEF Threads
<1>4. kind' = kind /\ Missing' = Missing
  BY <1>1 DEF kind, Missing
<1>5. QED
  BY <1>1, <1>2, <1>3, <1>4 DEF Wrote, HandCovers, IssuerAcme, IssuerWrote

LEMMA InitWrote == Init => Wrote
BY DEF Init, Wrote, HandCovers, IssuerAcme, IssuerWrote, Main, Issuer, Threads

LEMMA RefreshWrote == ASSUME Types, Wrote, NEW a \in Threads, Refresh(a) PROVE Wrote'
BY CheckWrote, NewOrderWrote, ProofWrote, FetchWrote,
   RunCommandWrote, WriteCertWrote, WriteKeyWrote, ClearBackoffWrote,
   SetBackoffWrote
   DEF Refresh

LEMMA NextWrote == Types /\ Wrote /\ [Next]_vars => Wrote'
<1> SUFFICES ASSUME Types, Wrote, [Next]_vars PROVE Wrote'
  OBVIOUS
<1>1. Main \in Threads /\ Watcher \in Threads /\ Issuer \in Threads
  BY DEF Threads
<1>2. CASE MainStep
  BY <1>1, <1>2, RefreshWrote, EnsureWrote, EnsuredWrote, BootWrote, LoadWrote DEF MainStep
<1>3. CASE WatcherStep
  BY <1>1, <1>3, RefreshWrote, WatchWrote, ReceiveWrote, TimeoutWrote, HandlePausedWrote,
     HandleNewWrote, HandleOtherWrote, WatcherDoneWrote DEF WatcherStep
<1>4. CASE IssuerStep
  BY <1>1, <1>4, RefreshWrote, IssuerStartsWrote, IssuerDoneWrote DEF IssuerStep
<1>5. CASE Environment
  BY <1>5, RestartWrote, CrashWrote, CaTurnsWrote, AgeWrote, LapseWrote, InstallWrote,
     ReloadReadsWrote, WriteFailsWrote,
     PauseUnwrittenWrote DEF Environment
<1>6. CASE UNCHANGED vars
  BY <1>6 DEF Wrote, HandCovers, IssuerAcme, IssuerWrote, kind,
              vars, fixed, files, pause, history, bounds
<1>7. QED
  BY <1>2, <1>3, <1>4, <1>5, <1>6 DEF Next

\* A step of RestartFindsValid.
FindsValid ==
    at[Main] # "down" /\ at'[Main] = "down" /\ faults' = faults
        => \/ Valid
           \/ at[Issuer] = "ok" /\ cert.life = "expired"
           \/ ~clean'

\* The main thread is not stopped.
LEMMA GoesOn == ASSUME at'[Main] # "down" \/ at[Main] = "down" PROVE FindsValid
BY DEF FindsValid

LEMMA RefreshGoesOn ==
    ASSUME StagesOK, NEW a \in Threads, Refresh(a) PROVE FindsValid
<1>1. PICK s \in Working : Stay(a, s)
  BY DEF Refresh, Check, NewOrder, Proof, Fetch, RunCommand, WriteCert, WriteKey,
         ClearBackoff, SetBackoff, Working
<1>2. Main \in Threads /\ s # "down"
  BY DEF Working, Threads
<1>3. at'[Main] = s \/ at'[Main] = at[Main]
  BY <1>1, <1>2, StayFacts
<1>4. QED
  BY <1>2, <1>3, GoesOn

LEMMA MainGoesOn == ASSUME StagesOK, MainStep PROVE FindsValid
<1>1. Main \in Threads
  BY DEF Threads
<1>2. CASE Refresh(Main)
  BY <1>1, <1>2, RefreshGoesOn
<1>3. CASE Boot
  BY <1>3, GoesOn DEF Boot, StagesOK, Threads, Main, Watcher, Issuer
<1>4. CASE Ensure \/ Ensured \/ Load
  <2>1. \E s \in {"cert", "boot", "check", "serving"} : Stay(Main, s)
    BY <1>4 DEF Ensure, Ensured, Load, InstallPlaceholder
  <2>2. QED
    BY <1>1, <2>1, StayFacts, GoesOn
<1>5. QED
  BY <1>2, <1>3, <1>4 DEF MainStep

LEMMA WatcherFindsValid == ASSUME StagesOK, WatcherStep PROVE FindsValid
<1>1. /\ Watcher \in Threads /\ Main \in Threads /\ Watcher # Main
  BY DEF Threads, Main, Watcher
<1>2. CASE Refresh(Watcher)
  BY <1>1, <1>2, RefreshGoesOn
<1>3. CASE HandleNew
  BY <1>3 DEF HandleNew, FindsValid
<1>4. CASE WatcherDone
  <2>1. Valid \/ Stay(Watcher, "waiting")
    BY <1>4 DEF WatcherDone
  <2>2. QED
    BY <1>1, <2>1, StayFacts DEF FindsValid
<1>5. CASE Watch \/ Receive \/ Timeout \/ HandlePaused \/ HandleOther
  <2>1. \E s : Stay(Watcher, s)
    BY <1>5 DEF Watch, Receive, Timeout, HandlePaused, HandleOther
  <2>2. QED
    BY <1>1, <2>1, StayFacts, GoesOn
<1>6. QED
  BY <1>2, <1>3, <1>4, <1>5 DEF WatcherStep

\* The issuer does not look at what it wrote, and need not.
LEMMA IssuerFindsValid ==
    ASSUME Types, OneWriter, Wrote, IssuerStep PROVE FindsValid
<1>1. /\ StagesOK /\ Issuer \in Threads /\ Main \in Threads /\ Issuer # Main
  BY DEF Types, Threads, Main, Issuer
<1>2. CASE Refresh(Issuer)
  BY <1>1, <1>2, RefreshGoesOn
<1>3. CASE IssuerStarts
  BY <1>1, <1>3, StayFacts, GoesOn DEF IssuerStarts
<1>4. CASE IssuerDone /\ at[Issuer] # "ok"
  BY <1>1, <1>4, StayFacts, GoesOn DEF IssuerDone
<1>5. CASE IssuerDone /\ at[Issuer] = "ok"
  <2>1. clean' => clean /\ Midway(Issuer) = {}
    BY <1>5 DEF IssuerDone, Exit
  <2>2. clean' => Intact
    BY <1>5, <2>1 DEF OneWriter, Midway, AtKey
  <2>3. cert # Missing /\ cert.covers /\ cert \in Certificate
    BY <1>5 DEF Wrote, IssuerWrote, Types, FilesOK
  <2>4. cert.pair # Missing
    BY <2>3, CertAssumption DEF Certificate
  <2>5. QED
    BY <1>5, <2>2, <2>3, <2>4 DEF FindsValid, Valid, FilesExist, Intact
<1>6. QED
  BY <1>2, <1>3, <1>4, <1>5 DEF IssuerStep

LEMMA EnvironmentGoesOn == ASSUME Types, Environment PROVE FindsValid
<1>1. StagesOK /\ CountsOK /\ Main \in Threads
  BY DEF Types, Threads
<1>2. CASE Restart
  BY <1>2 DEF Restart, FindsValid
<1>3. CASE Crash
  BY <1>1, <1>3 DEF Crash, FindsValid, CountsOK
<1>4. CASE CaTurns \/ Age \/ Lapse \/ Install \/ ReloadReads
  BY <1>4, GoesOn DEF CaTurns, Age, Lapse, Install, ReloadReads
<1>5. ASSUME NEW a \in Threads, WriteFails(a) PROVE FindsValid
  <2>1. \E s \in {"failed", "err"} : Stay(a, s)
    BY <1>5 DEF WriteFails
  <2>2. QED
    BY <1>1, <2>1, StayFacts, GoesOn
<1>6. ASSUME NEW a \in Threads, PauseUnwritten(a) PROVE FindsValid
  BY <1>1, <1>6, StayFacts, GoesOn DEF PauseUnwritten
<1>7. QED
  BY <1>2, <1>3, <1>4, <1>5, <1>6 DEF Environment

\* exit(75) is worth it: whichever thread ends the process does so for files that the
\* next one finds valid, unless they expired since or a write was torn or overlapped.
\* For the watcher that is its guard; for the issuer, which does not look, it follows
\* from Wrote and OneWriter: what it put in place covers the domains, nobody replaced
\* it by something that does not, and with nobody between the renames the key is its
\* own.
THEOREM RestartsFindValid == Spec => RestartFindsValid
<1>1. Types /\ OneWriter /\ Wrote /\ [Next]_vars => [FindsValid]_vars
  <2> SUFFICES ASSUME Types, OneWriter, Wrote, Next PROVE FindsValid
    OBVIOUS
  <2>1. StagesOK
    BY DEF Types
  <2>2. QED
    BY <2>1, MainGoesOn, WatcherFindsValid, IssuerFindsValid, EnvironmentGoesOn DEF Next
<1>2. Spec => [][FindsValid]_vars
  BY <1>1, InitTypes, NextTypes, InitPair, NextPair, InitWrote, NextWrote, PTL DEF Spec
<1>3. QED
  BY <1>2 DEF RestartFindsValid, FindsValid

=============================================================================
