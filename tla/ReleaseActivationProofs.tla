------------------------ MODULE ReleaseActivationProofs ------------------------
(***************************************************************************)
(* Proofs about ReleaseActivation for any releases, however many of them   *)
(* are kept, and however many commands are run, fail or are killed.        *)
(***************************************************************************)
EXTENDS ReleaseActivation, SequenceTheorems, TLAPS

-----------------------------------------------------------------------------
(* The directories of releases. *)

\* A release has one directory.
Single(s) == \A i, j \in DOMAIN s : i # j => s[i] # s[j]

\* A directory made now is the first.
LEMMA MadeFirst ==
    \A s \in Seq(Releases), t \in Releases :
        /\ <<t>> \o s \in Seq(Releases)
        /\ Range(<<t>> \o s) = Range(s) \cup {t}
        /\ (<<t>> \o s)[1] = t
        /\ t \notin Range(s) /\ Single(s) => Single(<<t>> \o s)
<1> SUFFICES ASSUME NEW s \in Seq(Releases), NEW t \in Releases
             PROVE  /\ <<t>> \o s \in Seq(Releases)
                    /\ Range(<<t>> \o s) = Range(s) \cup {t}
                    /\ (<<t>> \o s)[1] = t
                    /\ t \notin Range(s) /\ Single(s) => Single(<<t>> \o s)
  BY Zenon
<1> DEFINE d == <<t>> \o s
<1>1. <<t>> \in Seq(Releases) /\ Len(<<t>>) = 1 /\ <<t>>[1] = t
  OBVIOUS
<1>2. /\ d \in Seq(Releases) /\ Len(d) = 1 + Len(s)
      /\ \A i \in 1..(1 + Len(s)) : d[i] = IF i <= 1 THEN t ELSE s[i - 1]
  BY <1>1, ConcatProperties
<1>3. Len(s) \in Nat /\ DOMAIN s = 1..Len(s) /\ DOMAIN d = 1..(1 + Len(s))
  BY <1>2, LenProperties
<1> HIDE DEF d
<1>4. d[1] = t /\ \A i \in 1..Len(s) : d[i + 1] = s[i]
  BY <1>2, <1>3
<1>5. Range(d) = Range(s) \cup {t}
  <2>1. ASSUME NEW x \in Range(d) PROVE x \in Range(s) \cup {t}
    <3>1. PICK i \in 1..(1 + Len(s)) : x = d[i]
      BY <1>3 DEF Range
    <3>2. QED
      BY <1>2, <1>3, <3>1 DEF Range
  <2>2. t \in Range(d)
    BY <1>3, <1>4 DEF Range
  <2>3. ASSUME NEW i \in 1..Len(s) PROVE s[i] \in Range(d)
    <3>1. i + 1 \in DOMAIN d /\ d[i + 1] = s[i]
      BY <1>3, <1>4
    <3>2. QED
      BY <3>1 DEF Range
  <2>4. QED
    BY <1>3, <2>1, <2>2, <2>3 DEF Range
<1>6. ASSUME t \notin Range(s), Single(s) PROVE Single(d)
  <2> SUFFICES ASSUME NEW i \in 1..(1 + Len(s)), NEW j \in 1..(1 + Len(s)), i # j
               PROVE  d[i] # d[j]
    BY <1>3 DEF Single
  <2>1. \A k \in 1..Len(s) : s[k] # t
    BY <1>3, <1>6 DEF Range
  <2>2. \A k, l \in 1..Len(s) : k # l => s[k] # s[l]
    BY <1>3, <1>6 DEF Single
  <2>3. CASE i = 1 \/ j = 1
    BY <1>2, <1>3, <2>1, <2>3
  <2>4. CASE i # 1 /\ j # 1
    BY <1>2, <1>3, <2>2, <2>4
  <2>5. QED
    BY <2>3, <2>4
<1>7. QED
  BY <1>2, <1>4, <1>5, <1>6 DEF d

\* One more directory, wherever its time puts it.
LEMMA Inserted ==
    \A s \in Seq(Releases), t \in Releases : \A i \in 1..(Len(s) + 1) :
        /\ InsertAt(s, i, t) \in Seq(Releases)
        /\ Range(InsertAt(s, i, t)) = Range(s) \cup {t}
        /\ i = 1 => InsertAt(s, i, t)[1] = t
        /\ t \notin Range(s) /\ Single(s) => Single(InsertAt(s, i, t))
<1> SUFFICES ASSUME NEW s \in Seq(Releases), NEW t \in Releases, NEW i \in 1..(Len(s) + 1)
             PROVE  /\ InsertAt(s, i, t) \in Seq(Releases)
                    /\ Range(InsertAt(s, i, t)) = Range(s) \cup {t}
                    /\ i = 1 => InsertAt(s, i, t)[1] = t
                    /\ t \notin Range(s) /\ Single(s) => Single(InsertAt(s, i, t))
  BY Zenon
<1> DEFINE a == SubSeq(s, 1, i - 1)
           b == SubSeq(s, i, Len(s))
           u == <<t>>
           c == a \o u
           d == c \o b
<1>1. /\ Len(s) \in Nat /\ i \in Nat /\ 1 <= i /\ i <= Len(s) + 1 /\ DOMAIN s = 1..Len(s)
      /\ \A j \in 1..Len(s) : s[j] \in Releases
  BY LenProperties
<1>2. /\ a \in Seq(Releases) /\ Len(a) = i - 1
      /\ \A j \in 1..(i - 1) : a[j] = s[j]
  <2>1. \A j \in 1..(i - 1) : s[j] \in Releases
    BY <1>1
  <2>2. Len(a) = (IF 1 <= i - 1 THEN i - 1 - 1 + 1 ELSE 0)
    BY <1>1, <2>1, SubSeqProperties
  <2>3. QED
    BY <1>1, <2>1, <2>2, SubSeqProperties
<1>3. /\ b \in Seq(Releases) /\ Len(b) = Len(s) - i + 1
      /\ \A j \in 1..(Len(s) - i + 1) : b[j] = s[i + j - 1]
  <2>1. \A j \in i..Len(s) : s[j] \in Releases
    BY <1>1
  <2>2. QED
    BY <1>1, <2>1, SubSeqProperties
<1>4. u \in Seq(Releases) /\ Len(u) = 1 /\ u[1] = t
  OBVIOUS
<1> HIDE DEF a, b, u
<1>5. /\ c \in Seq(Releases) /\ Len(c) = i
      /\ \A j \in 1..i : c[j] = IF j < i THEN s[j] ELSE t
  <2>1. /\ c \in Seq(Releases) /\ Len(c) = Len(a) + Len(u)
        /\ \A j \in 1..(Len(a) + Len(u)) :
              c[j] = IF j <= Len(a) THEN a[j] ELSE u[j - Len(a)]
    BY <1>2, <1>4, ConcatProperties
  <2> HIDE DEF c
  <2>2. Len(c) = i
    BY <1>1, <1>2, <1>4, <2>1
  <2>3. ASSUME NEW j \in 1..i PROVE c[j] = IF j < i THEN s[j] ELSE t
    <3>1. CASE j < i
      <4>1. j \in 1..(i - 1) /\ j \in 1..(Len(a) + Len(u)) /\ j <= Len(a)
        BY <1>1, <1>2, <1>4, <3>1
      <4>2. c[j] = a[j] /\ a[j] = s[j]
        BY <1>2, <2>1, <4>1
      <4>3. QED
        BY <3>1, <4>2
    <3>2. CASE j = i
      BY <1>1, <1>2, <1>4, <2>1, <3>2
    <3>3. QED
      BY <1>1, <3>1, <3>2
  <2>4. QED
    BY <2>1, <2>2, <2>3
<1> HIDE DEF c
<1>6. /\ d \in Seq(Releases) /\ Len(d) = Len(s) + 1
      /\ \A j \in 1..(Len(s) + 1) :
            d[j] = IF j < i THEN s[j] ELSE IF j = i THEN t ELSE s[j - 1]
  <2>1. /\ d \in Seq(Releases) /\ Len(d) = Len(c) + Len(b)
        /\ \A j \in 1..(Len(c) + Len(b)) :
              d[j] = IF j <= Len(c) THEN c[j] ELSE b[j - Len(c)]
    BY <1>3, <1>5, ConcatProperties
  <2> HIDE DEF d
  <2>2. Len(d) = Len(s) + 1
    BY <1>1, <1>3, <1>5, <2>1
  <2>3. ASSUME NEW j \in 1..(Len(s) + 1)
        PROVE  d[j] = IF j < i THEN s[j] ELSE IF j = i THEN t ELSE s[j - 1]
    <3>1. CASE j <= i
      BY <1>1, <1>3, <1>5, <2>1, <3>1
    <3>2. CASE j > i
      <4>1. d[j] = b[j - i] /\ j - i \in 1..(Len(s) - i + 1)
        BY <1>1, <1>3, <1>5, <2>1, <3>2
      <4>2. b[j - i] = s[i + (j - i) - 1]
        BY <1>3, <4>1
      <4>3. i + (j - i) - 1 = j - 1 /\ ~(j < i) /\ j # i
        BY <1>1, <3>2
      <4>4. s[i + (j - i) - 1] = s[j - 1]
        BY <4>3, Zenon
      <4>5. QED
        BY <4>1, <4>2, <4>3, <4>4, Zenon
    <3>3. QED
      BY <1>1, <3>1, <3>2
  <2>4. QED
    BY <2>1, <2>2, <2>3
<1>7. DOMAIN d = 1..(Len(s) + 1) /\ InsertAt(s, i, t) = d
  BY <1>6, LenProperties DEF InsertAt, a, b, c, d, u
<1> HIDE DEF d
<1>8. Range(d) = Range(s) \cup {t}
  <2>1. ASSUME NEW x \in Range(d) PROVE x \in Range(s) \cup {t}
    <3>1. PICK j \in 1..(Len(s) + 1) : x = d[j]
      BY <1>7 DEF Range
    <3>2. \/ x = t
          \/ j \in DOMAIN s /\ x = s[j]
          \/ j - 1 \in DOMAIN s /\ x = s[j - 1]
      BY <1>1, <1>6, <3>1
    <3>3. QED
      BY <3>2 DEF Range
  <2>2. t \in Range(d)
    BY <1>1, <1>6, <1>7 DEF Range
  <2>3. ASSUME NEW j \in 1..Len(s) PROVE s[j] \in Range(d)
    <3>1. CASE j < i
      BY <1>1, <1>6, <1>7, <3>1 DEF Range
    <3>2. CASE j >= i
      <4>1. j + 1 \in DOMAIN d /\ d[j + 1] = s[j]
        BY <1>1, <1>6, <1>7, <3>2
      <4>2. QED
        BY <4>1 DEF Range
    <3>3. QED
      BY <1>1, <3>1, <3>2
  <2>4. QED
    BY <1>1, <2>1, <2>2, <2>3 DEF Range
<1>9. ASSUME t \notin Range(s), Single(s) PROVE Single(d)
  <2> SUFFICES ASSUME NEW j \in 1..(Len(s) + 1), NEW k \in 1..(Len(s) + 1), j # k
               PROVE  d[j] # d[k]
    BY <1>7 DEF Single
  <2>1. \A l \in 1..Len(s) : s[l] # t
    BY <1>1, <1>9 DEF Range
  <2>2. \A l, m \in 1..Len(s) : l # m => s[l] # s[m]
    BY <1>1, <1>9 DEF Single
  <2>3. QED
    BY <1>1, <1>6, <2>1, <2>2
<1>10. QED
  BY <1>1, <1>6, <1>7, <1>8, <1>9

\* Pruning keeps the first.
LEMMA PrunedKeepsFirst ==
    \A s \in Seq(Releases) : \A n \in 1..Len(s) :
        /\ SubSeq(s, 1, n) \in Seq(Releases)
        /\ Range(SubSeq(s, 1, n)) \subseteq Range(s)
        /\ s[1] \in Range(SubSeq(s, 1, n))
        /\ Single(s) => Single(SubSeq(s, 1, n))
<1> SUFFICES ASSUME NEW s \in Seq(Releases), NEW n \in 1..Len(s)
             PROVE  /\ SubSeq(s, 1, n) \in Seq(Releases)
                    /\ Range(SubSeq(s, 1, n)) \subseteq Range(s)
                    /\ s[1] \in Range(SubSeq(s, 1, n))
                    /\ Single(s) => Single(SubSeq(s, 1, n))
  OBVIOUS
<1> DEFINE d == SubSeq(s, 1, n)
<1>1. Len(s) \in Nat /\ n \in Nat /\ DOMAIN s = 1..Len(s) /\ \A i \in 1..n : s[i] \in Releases
  BY LenProperties
<1>2. /\ d \in Seq(Releases) /\ Len(d) = n
      /\ \A i \in 1..n : d[i] = s[i]
  BY <1>1, SubSeqProperties
<1>3. DOMAIN d = 1..n /\ 1..n \subseteq DOMAIN s
  BY <1>1, <1>2, LenProperties
<1> HIDE DEF d
<1>4. Range(d) \subseteq Range(s) /\ s[1] \in Range(d)
  BY <1>1, <1>2, <1>3 DEF Range
<1>5. Single(s) => Single(d)
  BY <1>2, <1>3 DEF Single
<1>6. QED
  BY <1>2, <1>4, <1>5 DEF d

LEMMA NoDirectories == <<>> \in Seq(Releases) /\ Single(<<>>) /\ Range(<<>>) = {}
BY DEF Single, Range

\* What a bare machine has, and one with a package.
LEMMA OneDirectory ==
    \A t \in Releases :
        <<t>> \in Seq(Releases) /\ Single(<<t>>) /\ Range(<<t>>) = {t}
BY DEF Single, Range

LEMMA PresentAreReleases ==
    ASSUME dirs \in Seq(Releases) PROVE Present \subseteq Releases
<1>1. DOMAIN dirs = 1..Len(dirs) /\ \A i \in 1..Len(dirs) : dirs[i] \in Releases
  BY LenProperties
<1>2. QED
  BY <1>1 DEF Present, Range

-----------------------------------------------------------------------------
(* The inductive invariant. *)

\* The type invariant in parts.
DirsOK == dirs \in Seq(Releases) /\ Single(dirs)
NamesOK ==
    /\ current \in Releases \cup {NoRelease} /\ run \in Releases \cup {NoRelease}
    /\ target \in Releases \cup {NoRelease} /\ previous \in Releases \cup {NoRelease}
    /\ before \in Releases \cup {NoRelease}
SitesOK == configs \in [Releases -> [Files -> Contents]] /\ carried \in [Files -> Contents]
StatesOK ==
    /\ service \in {"stopped", "active", "down", "failed"}
    /\ service = "active" <=> run # NoRelease
    /\ pc \in Steps /\ result \in {"none", "ok", "failed", "killed"}
FlagsOK ==
    /\ unit \in BOOLEAN /\ port80 \in BOOLEAN
    /\ edited \in BOOLEAN /\ rerun \in BOOLEAN /\ disturbed \in BOOLEAN
CountsOK ==
    commands \in 0..MaxCommands /\ troubles \in 0..MaxTroubles /\ edits \in 0..MaxEdits
Types == DirsOK /\ NamesOK /\ SitesOK /\ StatesOK /\ FlagsOK /\ CountsOK

LEMMA TypesAreTypeOK == Types => TypeOK
BY DEF TypeOK, Types, DirsOK, NamesOK, SitesOK, StatesOK, FlagsOK, CountsOK, Single, Contents

\* The steps of a rollback, and those for which the release has its directory.
Backwards == {"back_unlink", "back_link", "back_start"}
Placed ==
    {"unlink", "link", "unit", "start", "wait", "health", "prune", "finish"} \cup Backwards

\* The directory of an archive is the first until the others are pruned, unless it
\* brought its own time; and pruning removes no other release that is being installed.
Placing ==
    /\ pc # "idle" => target \in Releases
    /\ pc = "unpack" => target \in Archives \ (Present \cup {current})
    /\ pc \in {"stop", "copy"} => target \in Packages
    /\ pc \in {"wait", "health", "prune"} \cup Backwards => target \in Archives
    /\ pc \in Placed \ {"finish"} => target \in Present
    /\ pc = "finish" /\ target \notin Dated => target \in Present
    /\ pc \in Placed \ {"finish"} /\ target \in Archives \ Dated => dirs[1] = target

\* What the link names at each step.
Linking ==
    /\ current # NoRelease /\ current \notin Dated => current \in Present
    /\ pc = "unpack" \/ (pc \in {"stop", "copy", "unlink"} /\ ~rerun) =>
          Resolved(current) = before
    /\ pc \in {"unit", "start", "wait", "health", "prune", "finish", "back_unlink"} =>
          current = target
    /\ pc = "link" => current = NoRelease
    /\ pc = "back_start" /\ ~disturbed => current = before
    /\ pc = "idle" /\ ~disturbed /\ before # NoRelease => current # NoRelease
    /\ pc # "idle" /\ rerun => disturbed

\* The release to return to is the one that was linked when the command began.
Returning ==
    /\ pc # "idle" => result = "none"
    /\ pc = "idle" /\ result = "ok" => current = target
    /\ pc \in Placed \ {"finish"} /\ target \in Archives =>
          previous = before /\ (previous # NoRelease => previous \in Present)
    /\ pc \in Backwards => previous # NoRelease
    /\ pc = "idle" /\ result = "failed" /\ ~disturbed /\ before # NoRelease =>
          current = before

\* What the service runs: once it has been started, the release being installed, unless
\* that one does not answer.
Running ==
    /\ pc \in {"wait", "health"} => (service = "active" /\ run = target) \/ target \in Broken
    /\ pc \in Backwards /\ port80 => target \in Broken
    /\ pc \in {"wait", "health", "prune", "finish"} /\ service = "active" => run = current
    /\ pc \in {"idle", "unpack", "stop", "copy", "unlink"} /\ ~disturbed /\ service = "active" =>
          run = current

\* The sites of the release before are there until they are copied, and then in the
\* package.
Carrying ==
    /\ before = NoRelease => carried = NoSites
    /\ pc \in {"stop", "copy"} /\ target # before /\ ~edited /\ ~rerun =>
          Sites(current) = carried
    /\ /\ pc \in Placed \/ (pc = "idle" /\ result = "ok")
       /\ target \in Packages /\ target # before /\ ~edited /\ ~rerun
       => \A f \in Files : carried[f] # "none" => configs[target][f] = carried[f]

Inv == Types /\ Placing /\ Linking /\ Returning /\ Running /\ Carrying

-----------------------------------------------------------------------------
(* Each action keeps it. *)

LEMMA BeginKeeps == ASSUME Inv, NEW r \in Releases, Begin(r) PROVE Inv'
<1> USE DEF Begin, Begin, Goto, Ends, Fails, Trouble, disk, manager, command, history, bounds
<1>1. /\ DirsOK /\ NamesOK /\ SitesOK /\ StatesOK /\ FlagsOK /\ CountsOK
      /\ Placing /\ Linking /\ Returning /\ Running /\ Carrying
  BY DEF Inv, Types
<1>2. dirs' = dirs /\ Present' = Present /\ Present \subseteq Releases
  BY <1>1, PresentAreReleases DEF Present, DirsOK
<1>3. DirsOK' /\ NamesOK' /\ FlagsOK'
  <2>1. DirsOK' /\ NamesOK'
    BY <1>1, <1>2, ReleaseAssumption DEF DirsOK, NamesOK, Releases, Resolved
  <2>2. FlagsOK'
    BY <1>1 DEF FlagsOK
  <2>3. QED
    BY <2>1, <2>2
<1>10. CountsOK'
  BY <1>1, ReleaseAssumption DEF CountsOK
<1>4. SitesOK' /\ StatesOK'
  BY <1>1, <1>2, ReleaseAssumption DEF SitesOK, StatesOK, Contents, Steps, NamesOK, Sites, NoSites, Linking
<1>5. Placing'
  BY <1>1, <1>2, ReleaseAssumption DEF Placing, Placed, Backwards, Releases, NamesOK
<1>6. Linking'
  BY <1>1, <1>2, ReleaseAssumption
     DEF Linking, Placing, Placed, Backwards, Returning, Resolved, Releases, NamesOK, FlagsOK
<1>7. Returning'
  BY <1>1, <1>2, ReleaseAssumption
     DEF Returning, Linking, Placing, Placed, Backwards, Releases, NamesOK, FlagsOK
<1>8. Running'
  BY <1>1, <1>2, ReleaseAssumption
     DEF Running, Linking, Placing, Placed, Backwards, StatesOK, Releases, NamesOK, FlagsOK
<1>9. Carrying'
  BY <1>1, <1>2, ReleaseAssumption
     DEF Carrying, Linking, Returning, Placing, Placed, Backwards, Sites, Resolved, SitesOK,
         Releases, NamesOK
<1>11. QED
  BY <1>3, <1>4, <1>5, <1>6, <1>7, <1>8, <1>9, <1>10 DEF Inv, Types

LEMMA StopKeeps == ASSUME Inv, Stop PROVE Inv'
<1> USE DEF Stop, FailsOrRunsAgain, Goto, Ends, Fails, Trouble, disk, manager, command, history, bounds
<1>1. /\ DirsOK /\ NamesOK /\ SitesOK /\ StatesOK /\ FlagsOK /\ CountsOK
      /\ Placing /\ Linking /\ Returning /\ Running /\ Carrying
  BY DEF Inv, Types
<1>2. dirs' = dirs /\ Present' = Present /\ Present \subseteq Releases
  BY <1>1, PresentAreReleases DEF Present, DirsOK
<1>3. DirsOK' /\ NamesOK' /\ FlagsOK'
  <2>1. DirsOK' /\ NamesOK'
    BY <1>1, <1>2, ReleaseAssumption DEF DirsOK, NamesOK, Releases, Resolved
  <2>2. FlagsOK'
    BY <1>1 DEF FlagsOK
  <2>3. QED
    BY <2>1, <2>2
<1>10. CountsOK'
  <2>1. UNCHANGED <<commands, edits>>
    OBVIOUS
  <2>2. troubles' = troubles \/ (troubles < MaxTroubles /\ troubles' = troubles + 1)
    OBVIOUS
  <2>3. QED
    BY <1>1, <2>1, <2>2, ReleaseAssumption DEF CountsOK
<1>4. SitesOK' /\ StatesOK'
  <2>1. SitesOK'
    BY <1>1, <1>2 DEF SitesOK
  <2>2. UNCHANGED <<service, run>> \/ (service' # "active" /\ run' = NoRelease)
        \/ (service' = "active" /\ run' # NoRelease)
    BY <1>1, <1>2, ReleaseAssumption DEF StatesOK, Refuses, Launch
  <2>3. service' \in {"stopped", "active", "down", "failed"}
    BY <1>1 DEF StatesOK, Refuses, Launch
  <2>4. pc' \in Steps /\ result' \in {"none", "ok", "failed", "killed"}
    BY <1>1 DEF StatesOK, Steps
  <2>5. QED
    BY <1>1, <2>2, <2>3, <2>4, <2>1 DEF StatesOK
<1>5. Placing'
  BY <1>1, <1>2, ReleaseAssumption DEF Placing, Placed, Backwards, Releases, NamesOK
<1>6. Linking'
  <2>1. CASE Goto("copy")
    BY <1>1, <1>2, <2>1, ReleaseAssumption
       DEF Linking, Placing, Placed, Backwards, Resolved, NamesOK, FlagsOK
  <2>2. CASE Fails
    BY <1>1, <1>2, <2>2 DEF Linking, FlagsOK
  <2>3. ASSUME target \in Packages, pc' = "stop", disturbed' = TRUE,
               rerun' = (rerun \/ Resolved(current) # before), UNCHANGED <<current, before, target>>
        PROVE  Linking'
    <3>1. Resolved(current)' = Resolved(current)
      BY <1>2, <2>3 DEF Resolved
    <3>2. ~rerun' => Resolved(current) = before
      BY <2>3
    <3>3. QED
      BY <1>1, <1>2, <2>3, <3>1, <3>2 DEF Linking
  <2>4. QED
    BY <2>1, <2>2, <2>3
<1>7. Returning'
  BY <1>1, <1>2, ReleaseAssumption
     DEF Returning, Linking, Placing, Placed, Backwards, Releases, NamesOK, FlagsOK
<1>8. Running'
  BY <1>1, <1>2, ReleaseAssumption
     DEF Running, Linking, Placing, Placed, Backwards, StatesOK, Releases, NamesOK, FlagsOK
<1>9. Carrying'
  BY <1>1, <1>2, ReleaseAssumption
     DEF Carrying, Linking, Returning, Placing, Placed, Backwards, Sites, Resolved, SitesOK,
         Releases, NamesOK
<1>11. QED
  BY <1>3, <1>4, <1>5, <1>6, <1>7, <1>8, <1>9, <1>10 DEF Inv, Types

LEMMA UnlinkKeeps == ASSUME Inv, Unlink PROVE Inv'
<1> USE DEF Unlink, Goto, Ends, Fails, Trouble, disk, manager, command, history, bounds
<1>1. /\ DirsOK /\ NamesOK /\ SitesOK /\ StatesOK /\ FlagsOK /\ CountsOK
      /\ Placing /\ Linking /\ Returning /\ Running /\ Carrying
  BY DEF Inv, Types
<1>2. dirs' = dirs /\ Present' = Present /\ Present \subseteq Releases
  BY <1>1, PresentAreReleases DEF Present, DirsOK
<1>3. DirsOK' /\ NamesOK' /\ FlagsOK'
  BY <1>1, <1>2, ReleaseAssumption DEF DirsOK, NamesOK, FlagsOK, Releases
<1>10. CountsOK'
  BY <1>1, ReleaseAssumption DEF CountsOK
<1>4. SitesOK' /\ StatesOK'
  BY <1>1, <1>2, ReleaseAssumption DEF SitesOK, StatesOK, Contents, Steps, NamesOK, Sites, NoSites, Linking
<1>5. Placing'
  BY <1>1, <1>2, ReleaseAssumption DEF Placing, Placed, Backwards, Releases, NamesOK
<1>6. Linking'
  BY <1>1, <1>2, ReleaseAssumption
     DEF Linking, Placing, Placed, Backwards, Returning, Resolved, Releases, NamesOK, FlagsOK
<1>7. Returning'
  BY <1>1, <1>2, ReleaseAssumption
     DEF Returning, Linking, Placing, Placed, Backwards, Releases, NamesOK, FlagsOK
<1>8. Running'
  BY <1>1, <1>2, ReleaseAssumption
     DEF Running, Linking, Placing, Placed, Backwards, StatesOK, Releases, NamesOK, FlagsOK
<1>9. Carrying'
  BY <1>1, <1>2, ReleaseAssumption
     DEF Carrying, Linking, Returning, Placing, Placed, Backwards, Sites, Resolved, SitesOK,
         Releases, NamesOK
<1>11. QED
  BY <1>3, <1>4, <1>5, <1>6, <1>7, <1>8, <1>9, <1>10 DEF Inv, Types

LEMMA LinkKeeps == ASSUME Inv, Link PROVE Inv'
<1> USE DEF Link, FailsOrRunsAgain, Goto, Ends, Fails, Trouble, disk, manager, command, history, bounds
<1>1. /\ DirsOK /\ NamesOK /\ SitesOK /\ StatesOK /\ FlagsOK /\ CountsOK
      /\ Placing /\ Linking /\ Returning /\ Running /\ Carrying
  BY DEF Inv, Types
<1>2. dirs' = dirs /\ Present' = Present /\ Present \subseteq Releases
  BY <1>1, PresentAreReleases DEF Present, DirsOK
<1>3. DirsOK' /\ NamesOK' /\ FlagsOK'
  <2>1. DirsOK' /\ NamesOK'
    BY <1>1, <1>2, ReleaseAssumption DEF DirsOK, NamesOK, Releases, Resolved
  <2>2. FlagsOK'
    BY <1>1 DEF FlagsOK
  <2>3. QED
    BY <2>1, <2>2
<1>10. CountsOK'
  BY <1>1, ReleaseAssumption DEF CountsOK
<1>4. SitesOK' /\ StatesOK'
  <2>1. SitesOK'
    BY <1>1, <1>2 DEF SitesOK
  <2>2. UNCHANGED <<service, run>> \/ (service' # "active" /\ run' = NoRelease)
        \/ (service' = "active" /\ run' # NoRelease)
    BY <1>1, <1>2, ReleaseAssumption DEF StatesOK, Refuses, Launch
  <2>3. service' \in {"stopped", "active", "down", "failed"}
    BY <1>1 DEF StatesOK, Refuses, Launch
  <2>4. pc' \in Steps /\ result' \in {"none", "ok", "failed", "killed"}
    BY <1>1 DEF StatesOK, Steps
  <2>5. QED
    BY <1>1, <2>2, <2>3, <2>4, <2>1 DEF StatesOK
<1>5. Placing'
  BY <1>1, <1>2, ReleaseAssumption DEF Placing, Placed, Backwards, Releases, NamesOK
<1>6. Linking'
  <2>1. CASE Goto("unit")
    BY <1>1, <1>2, <2>1, ReleaseAssumption
       DEF Linking, Placing, Placed, Backwards, Resolved, NamesOK, FlagsOK
  <2>2. CASE Fails
    BY <1>1, <1>2, <2>2 DEF Linking, FlagsOK
  <2>3. ASSUME target \in Packages, pc' = "stop", disturbed' = TRUE,
               rerun' = (rerun \/ Resolved(current) # before), UNCHANGED <<current, before, target>>
        PROVE  Linking'
    <3>1. Resolved(current)' = Resolved(current)
      BY <1>2, <2>3 DEF Resolved
    <3>2. ~rerun' => Resolved(current) = before
      BY <2>3
    <3>3. QED
      BY <1>1, <1>2, <2>3, <3>1, <3>2 DEF Linking
  <2>4. QED
    BY <2>1, <2>2, <2>3
<1>7. Returning'
  BY <1>1, <1>2, ReleaseAssumption
     DEF Returning, Linking, Placing, Placed, Backwards, Releases, NamesOK, FlagsOK
<1>8. Running'
  BY <1>1, <1>2, ReleaseAssumption
     DEF Running, Linking, Placing, Placed, Backwards, StatesOK, Releases, NamesOK, FlagsOK
<1>9. Carrying'
  <2>1. CASE Goto("unit")
    BY <1>1, <1>2, <2>1 DEF Carrying, Placed, Backwards
  <2>2. CASE Fails
    BY <1>1, <1>2, <2>2 DEF Carrying, Placed, Backwards
  <2>3. ASSUME pc' = "stop", rerun' = (rerun \/ Resolved(current) # before),
               UNCHANGED <<current, configs, before, carried>>
        PROVE  Carrying'
    <3>1. current = NoRelease /\ current \notin Present
      BY <1>1, <1>2, ReleaseAssumption DEF Linking
    <3>2. Sites(current)' = NoSites
      BY <1>2, <2>3, <3>1 DEF Sites, NoSites
    <3>3. ~rerun' => carried = NoSites
      BY <1>1, <2>3, <3>1 DEF Carrying, Resolved
    <3>4. QED
      BY <1>1, <2>3, <3>2, <3>3 DEF Carrying, Placed, Backwards
  <2>4. QED
    BY <2>1, <2>2, <2>3
<1>11. QED
  BY <1>3, <1>4, <1>5, <1>6, <1>7, <1>8, <1>9, <1>10 DEF Inv, Types

LEMMA InstallServiceKeeps == ASSUME Inv, InstallService PROVE Inv'
<1> USE DEF InstallService, FailsOrRunsAgain, Goto, Ends, Fails, Trouble, disk, manager, command, history, bounds
<1>1. /\ DirsOK /\ NamesOK /\ SitesOK /\ StatesOK /\ FlagsOK /\ CountsOK
      /\ Placing /\ Linking /\ Returning /\ Running /\ Carrying
  BY DEF Inv, Types
<1>2. dirs' = dirs /\ Present' = Present /\ Present \subseteq Releases
  BY <1>1, PresentAreReleases DEF Present, DirsOK
<1>3. DirsOK' /\ NamesOK' /\ FlagsOK'
  <2>1. DirsOK' /\ NamesOK'
    BY <1>1, <1>2, ReleaseAssumption DEF DirsOK, NamesOK, Releases, Resolved
  <2>2. FlagsOK'
    BY <1>1 DEF FlagsOK
  <2>3. QED
    BY <2>1, <2>2
<1>10. CountsOK'
  <2>1. UNCHANGED <<commands, edits>>
    OBVIOUS
  <2>2. troubles' = troubles \/ (troubles < MaxTroubles /\ troubles' = troubles + 1)
    OBVIOUS
  <2>3. QED
    BY <1>1, <2>1, <2>2, ReleaseAssumption DEF CountsOK
<1>4. SitesOK' /\ StatesOK'
  <2>1. SitesOK'
    BY <1>1, <1>2 DEF SitesOK
  <2>2. UNCHANGED <<service, run>> \/ (service' # "active" /\ run' = NoRelease)
        \/ (service' = "active" /\ run' # NoRelease)
    BY <1>1, <1>2, ReleaseAssumption DEF StatesOK, Refuses, Launch
  <2>3. service' \in {"stopped", "active", "down", "failed"}
    BY <1>1 DEF StatesOK, Refuses, Launch
  <2>4. pc' \in Steps /\ result' \in {"none", "ok", "failed", "killed"}
    BY <1>1 DEF StatesOK, Steps
  <2>5. QED
    BY <1>1, <2>2, <2>3, <2>4, <2>1 DEF StatesOK
<1>5. Placing'
  BY <1>1, <1>2, ReleaseAssumption DEF Placing, Placed, Backwards, Releases, NamesOK
<1>6. Linking'
  <2>1. CASE Goto("start")
    BY <1>1, <1>2, <2>1, ReleaseAssumption
       DEF Linking, Placing, Placed, Backwards, Resolved, NamesOK, FlagsOK
  <2>2. CASE Fails
    BY <1>1, <1>2, <2>2 DEF Linking, FlagsOK
  <2>3. ASSUME target \in Packages, pc' = "stop", disturbed' = TRUE,
               rerun' = (rerun \/ Resolved(current) # before), UNCHANGED <<current, before, target>>
        PROVE  Linking'
    <3>1. Resolved(current)' = Resolved(current)
      BY <1>2, <2>3 DEF Resolved
    <3>2. ~rerun' => Resolved(current) = before
      BY <2>3
    <3>3. QED
      BY <1>1, <1>2, <2>3, <3>1, <3>2 DEF Linking
  <2>4. QED
    BY <2>1, <2>2, <2>3
<1>7. Returning'
  BY <1>1, <1>2, ReleaseAssumption
     DEF Returning, Linking, Placing, Placed, Backwards, Releases, NamesOK, FlagsOK
<1>8. Running'
  BY <1>1, <1>2, ReleaseAssumption
     DEF Running, Linking, Placing, Placed, Backwards, StatesOK, Releases, NamesOK, FlagsOK
<1>9. Carrying'
  BY <1>1, <1>2, ReleaseAssumption
     DEF Carrying, Linking, Returning, Placing, Placed, Backwards, Sites, Resolved, SitesOK,
         Releases, NamesOK
<1>11. QED
  BY <1>3, <1>4, <1>5, <1>6, <1>7, <1>8, <1>9, <1>10 DEF Inv, Types

LEMMA StartKeeps == ASSUME Inv, Start PROVE Inv'
<1> USE DEF Start, Launch, Refuses, FailsOrRunsAgain, Goto, Ends, Fails, Trouble, disk, manager, command, history, bounds
<1>1. /\ DirsOK /\ NamesOK /\ SitesOK /\ StatesOK /\ FlagsOK /\ CountsOK
      /\ Placing /\ Linking /\ Returning /\ Running /\ Carrying
  BY DEF Inv, Types
<1>2. dirs' = dirs /\ Present' = Present /\ Present \subseteq Releases
  BY <1>1, PresentAreReleases DEF Present, DirsOK
<1>3. DirsOK' /\ NamesOK' /\ FlagsOK'
  <2>1. DirsOK' /\ NamesOK'
    BY <1>1, <1>2, ReleaseAssumption DEF DirsOK, NamesOK, Releases, Resolved
  <2>2. FlagsOK'
    BY <1>1 DEF FlagsOK
  <2>3. QED
    BY <2>1, <2>2
<1>10. CountsOK'
  BY <1>1, ReleaseAssumption DEF CountsOK
<1>4. SitesOK' /\ StatesOK'
  <2>1. SitesOK'
    BY <1>1, <1>2 DEF SitesOK
  <2>2. UNCHANGED <<service, run>> \/ (service' # "active" /\ run' = NoRelease)
        \/ (service' = "active" /\ run' # NoRelease)
    BY <1>1, <1>2, ReleaseAssumption DEF StatesOK, Refuses, Launch
  <2>3. service' \in {"stopped", "active", "down", "failed"}
    BY <1>1 DEF StatesOK, Refuses, Launch
  <2>4. pc' \in Steps /\ result' \in {"none", "ok", "failed", "killed"}
    BY <1>1 DEF StatesOK, Steps
  <2>5. QED
    BY <1>1, <2>2, <2>3, <2>4, <2>1 DEF StatesOK
<1>5. Placing'
  BY <1>1, <1>2, ReleaseAssumption DEF Placing, Placed, Backwards, Releases, NamesOK
<1>6. Linking'
  <2>1. CASE Goto(IF target \in Archives THEN "wait" ELSE "finish")
    BY <1>1, <1>2, <2>1 DEF Linking, FlagsOK
  <2>2. CASE Fails
    BY <1>1, <1>2, <2>2 DEF Linking, FlagsOK
  <2>3. ASSUME pc' = "stop", disturbed' = TRUE,
               rerun' = (rerun \/ Resolved(current) # before), UNCHANGED <<current, before, target>>
        PROVE  Linking'
    <3>1. Resolved(current)' = Resolved(current)
      BY <1>2, <2>3 DEF Resolved
    <3>2. ~rerun' => Resolved(current) = before
      BY <2>3
    <3>3. QED
      BY <1>1, <1>2, <2>3, <3>1, <3>2 DEF Linking
  <2>4. QED
    BY <2>1, <2>2, <2>3
<1>7. Returning'
  BY <1>1, <1>2, ReleaseAssumption
     DEF Returning, Linking, Placing, Placed, Backwards, Releases, NamesOK, FlagsOK
<1>8. Running'
  BY <1>1, <1>2, ReleaseAssumption
     DEF Running, Linking, Placing, Placed, Backwards, StatesOK, Releases, NamesOK, FlagsOK
<1>9. Carrying'
  BY <1>1, <1>2, ReleaseAssumption
     DEF Carrying, Linking, Returning, Placing, Placed, Backwards, Sites, Resolved, SitesOK,
         Releases, NamesOK
<1>11. QED
  BY <1>3, <1>4, <1>5, <1>6, <1>7, <1>8, <1>9, <1>10 DEF Inv, Types

LEMMA WaitKeeps == ASSUME Inv, Wait PROVE Inv'
<1> USE DEF Wait, GiveUp, Goto, Ends, Fails, Trouble, disk, manager, command, history, bounds
<1>1. /\ DirsOK /\ NamesOK /\ SitesOK /\ StatesOK /\ FlagsOK /\ CountsOK
      /\ Placing /\ Linking /\ Returning /\ Running /\ Carrying
  BY DEF Inv, Types
<1>2. dirs' = dirs /\ Present' = Present /\ Present \subseteq Releases
  BY <1>1, PresentAreReleases DEF Present, DirsOK
<1>3. DirsOK' /\ NamesOK' /\ FlagsOK'
  BY <1>1, <1>2, ReleaseAssumption DEF DirsOK, NamesOK, FlagsOK, Releases
<1>10. CountsOK'
  BY <1>1, ReleaseAssumption DEF CountsOK
<1>4. SitesOK' /\ StatesOK'
  BY <1>1, <1>2, ReleaseAssumption DEF SitesOK, StatesOK, Contents, Steps, NamesOK, Sites, NoSites, Linking
<1>5. Placing'
  BY <1>1, <1>2, ReleaseAssumption DEF Placing, Placed, Backwards, Releases, NamesOK
<1>6. Linking'
  BY <1>1, <1>2, ReleaseAssumption
     DEF Linking, Placing, Placed, Backwards, Returning, Resolved, Releases, NamesOK, FlagsOK
<1>7. Returning'
  BY <1>1, <1>2, ReleaseAssumption
     DEF Returning, Linking, Placing, Placed, Backwards, Releases, NamesOK, FlagsOK
<1>8. Running'
  BY <1>1, <1>2, ReleaseAssumption
     DEF Running, Linking, Placing, Placed, Backwards, StatesOK, Releases, NamesOK, FlagsOK
<1>9. Carrying'
  BY <1>1, <1>2, ReleaseAssumption
     DEF Carrying, Linking, Returning, Placing, Placed, Backwards, Sites, Resolved, SitesOK,
         Releases, NamesOK
<1>11. QED
  BY <1>3, <1>4, <1>5, <1>6, <1>7, <1>8, <1>9, <1>10 DEF Inv, Types

LEMMA HealthKeeps == ASSUME Inv, Health PROVE Inv'
<1> USE DEF Health, GiveUp, Answers, Goto, Ends, Fails, Trouble, disk, manager, command, history, bounds
<1>1. /\ DirsOK /\ NamesOK /\ SitesOK /\ StatesOK /\ FlagsOK /\ CountsOK
      /\ Placing /\ Linking /\ Returning /\ Running /\ Carrying
  BY DEF Inv, Types
<1>2. dirs' = dirs /\ Present' = Present /\ Present \subseteq Releases
  BY <1>1, PresentAreReleases DEF Present, DirsOK
<1>3. DirsOK' /\ NamesOK' /\ FlagsOK'
  BY <1>1, <1>2, ReleaseAssumption DEF DirsOK, NamesOK, FlagsOK, Releases
<1>10. CountsOK'
  BY <1>1, ReleaseAssumption DEF CountsOK
<1>4. SitesOK' /\ StatesOK'
  BY <1>1, <1>2, ReleaseAssumption DEF SitesOK, StatesOK, Contents, Steps, NamesOK, Sites, NoSites, Linking
<1>5. Placing'
  BY <1>1, <1>2, ReleaseAssumption DEF Placing, Placed, Backwards, Releases, NamesOK
<1>6. Linking'
  BY <1>1, <1>2, ReleaseAssumption
     DEF Linking, Placing, Placed, Backwards, Returning, Resolved, Releases, NamesOK, FlagsOK
<1>7. Returning'
  BY <1>1, <1>2, ReleaseAssumption
     DEF Returning, Linking, Placing, Placed, Backwards, Releases, NamesOK, FlagsOK
<1>8. Running'
  BY <1>1, <1>2, ReleaseAssumption
     DEF Running, Linking, Placing, Placed, Backwards, StatesOK, Releases, NamesOK, FlagsOK
<1>9. Carrying'
  BY <1>1, <1>2, ReleaseAssumption
     DEF Carrying, Linking, Returning, Placing, Placed, Backwards, Sites, Resolved, SitesOK,
         Releases, NamesOK
<1>11. QED
  BY <1>3, <1>4, <1>5, <1>6, <1>7, <1>8, <1>9, <1>10 DEF Inv, Types

LEMMA BackUnlinkKeeps == ASSUME Inv, BackUnlink PROVE Inv'
<1> USE DEF BackUnlink, Goto, Ends, Fails, Trouble, disk, manager, command, history, bounds
<1>1. /\ DirsOK /\ NamesOK /\ SitesOK /\ StatesOK /\ FlagsOK /\ CountsOK
      /\ Placing /\ Linking /\ Returning /\ Running /\ Carrying
  BY DEF Inv, Types
<1>2. dirs' = dirs /\ Present' = Present /\ Present \subseteq Releases
  BY <1>1, PresentAreReleases DEF Present, DirsOK
<1>3. DirsOK' /\ NamesOK' /\ FlagsOK'
  BY <1>1, <1>2, ReleaseAssumption DEF DirsOK, NamesOK, FlagsOK, Releases
<1>10. CountsOK'
  BY <1>1, ReleaseAssumption DEF CountsOK
<1>4. SitesOK' /\ StatesOK'
  BY <1>1, <1>2, ReleaseAssumption DEF SitesOK, StatesOK, Contents, Steps, NamesOK, Sites, NoSites, Linking
<1>5. Placing'
  BY <1>1, <1>2, ReleaseAssumption DEF Placing, Placed, Backwards, Releases, NamesOK
<1>6. Linking'
  BY <1>1, <1>2, ReleaseAssumption
     DEF Linking, Placing, Placed, Backwards, Returning, Resolved, Releases, NamesOK, FlagsOK
<1>7. Returning'
  BY <1>1, <1>2, ReleaseAssumption
     DEF Returning, Linking, Placing, Placed, Backwards, Releases, NamesOK, FlagsOK
<1>8. Running'
  BY <1>1, <1>2, ReleaseAssumption
     DEF Running, Linking, Placing, Placed, Backwards, StatesOK, Releases, NamesOK, FlagsOK
<1>9. Carrying'
  BY <1>1, <1>2, ReleaseAssumption
     DEF Carrying, Linking, Returning, Placing, Placed, Backwards, Sites, Resolved, SitesOK,
         Releases, NamesOK
<1>11. QED
  BY <1>3, <1>4, <1>5, <1>6, <1>7, <1>8, <1>9, <1>10 DEF Inv, Types

LEMMA BackLinkKeeps == ASSUME Inv, BackLink PROVE Inv'
<1> USE DEF BackLink, Goto, Ends, Fails, Trouble, disk, manager, command, history, bounds
<1>1. /\ DirsOK /\ NamesOK /\ SitesOK /\ StatesOK /\ FlagsOK /\ CountsOK
      /\ Placing /\ Linking /\ Returning /\ Running /\ Carrying
  BY DEF Inv, Types
<1>2. dirs' = dirs /\ Present' = Present /\ Present \subseteq Releases
  BY <1>1, PresentAreReleases DEF Present, DirsOK
<1>3. DirsOK' /\ NamesOK' /\ FlagsOK'
  BY <1>1, <1>2, ReleaseAssumption DEF DirsOK, NamesOK, FlagsOK, Releases
<1>10. CountsOK'
  BY <1>1, ReleaseAssumption DEF CountsOK
<1>4. SitesOK' /\ StatesOK'
  BY <1>1, <1>2, ReleaseAssumption DEF SitesOK, StatesOK, Contents, Steps, NamesOK, Sites, NoSites, Linking
<1>5. Placing'
  BY <1>1, <1>2, ReleaseAssumption DEF Placing, Placed, Backwards, Releases, NamesOK
<1>6. Linking'
  BY <1>1, <1>2, ReleaseAssumption
     DEF Linking, Placing, Placed, Backwards, Returning, Resolved, Releases, NamesOK, FlagsOK
<1>7. Returning'
  BY <1>1, <1>2, ReleaseAssumption
     DEF Returning, Linking, Placing, Placed, Backwards, Releases, NamesOK, FlagsOK
<1>8. Running'
  BY <1>1, <1>2, ReleaseAssumption
     DEF Running, Linking, Placing, Placed, Backwards, StatesOK, Releases, NamesOK, FlagsOK
<1>9. Carrying'
  BY <1>1, <1>2, ReleaseAssumption
     DEF Carrying, Linking, Returning, Placing, Placed, Backwards, Sites, Resolved, SitesOK,
         Releases, NamesOK
<1>11. QED
  BY <1>3, <1>4, <1>5, <1>6, <1>7, <1>8, <1>9, <1>10 DEF Inv, Types

LEMMA BackStartKeeps == ASSUME Inv, BackStart PROVE Inv'
<1> USE DEF BackStart, Launch, Refuses, Goto, Ends, Fails, Trouble, disk, manager, command, history, bounds
<1>1. /\ DirsOK /\ NamesOK /\ SitesOK /\ StatesOK /\ FlagsOK /\ CountsOK
      /\ Placing /\ Linking /\ Returning /\ Running /\ Carrying
  BY DEF Inv, Types
<1>2. dirs' = dirs /\ Present' = Present /\ Present \subseteq Releases
  BY <1>1, PresentAreReleases DEF Present, DirsOK
<1>3. DirsOK' /\ NamesOK' /\ FlagsOK'
  BY <1>1, <1>2, ReleaseAssumption DEF DirsOK, NamesOK, FlagsOK, Releases
<1>10. CountsOK'
  BY <1>1, ReleaseAssumption DEF CountsOK
<1>4. SitesOK' /\ StatesOK'
  BY <1>1, <1>2, ReleaseAssumption DEF SitesOK, StatesOK, Contents, Steps, NamesOK, Sites, NoSites, Linking
<1>5. Placing'
  BY <1>1, <1>2, ReleaseAssumption DEF Placing, Placed, Backwards, Releases, NamesOK
<1>6. Linking'
  BY <1>1, <1>2, ReleaseAssumption
     DEF Linking, Placing, Placed, Backwards, Returning, Resolved, Releases, NamesOK, FlagsOK
<1>7. Returning'
  BY <1>1, <1>2, ReleaseAssumption
     DEF Returning, Linking, Placing, Placed, Backwards, Releases, NamesOK, FlagsOK
<1>8. Running'
  BY <1>1, <1>2, ReleaseAssumption
     DEF Running, Linking, Placing, Placed, Backwards, StatesOK, Releases, NamesOK, FlagsOK
<1>9. Carrying'
  BY <1>1, <1>2, ReleaseAssumption
     DEF Carrying, Linking, Returning, Placing, Placed, Backwards, Sites, Resolved, SitesOK,
         Releases, NamesOK
<1>11. QED
  BY <1>3, <1>4, <1>5, <1>6, <1>7, <1>8, <1>9, <1>10 DEF Inv, Types

LEMMA FinishKeeps == ASSUME Inv, Finish PROVE Inv'
<1> USE DEF Finish, Launch, Refuses, Goto, Ends, Fails, Trouble, disk, manager, command, history, bounds
<1>1. /\ DirsOK /\ NamesOK /\ SitesOK /\ StatesOK /\ FlagsOK /\ CountsOK
      /\ Placing /\ Linking /\ Returning /\ Running /\ Carrying
  BY DEF Inv, Types
<1>2. dirs' = dirs /\ Present' = Present /\ Present \subseteq Releases
  BY <1>1, PresentAreReleases DEF Present, DirsOK
<1>3. DirsOK' /\ NamesOK' /\ FlagsOK'
  BY <1>1, <1>2, ReleaseAssumption DEF DirsOK, NamesOK, FlagsOK, Releases
<1>10. CountsOK'
  BY <1>1, ReleaseAssumption DEF CountsOK
<1>4. SitesOK' /\ StatesOK'
  BY <1>1, <1>2, ReleaseAssumption DEF SitesOK, StatesOK, Contents, Steps, NamesOK, Sites, NoSites, Linking
<1>5. Placing'
  BY <1>1, <1>2, ReleaseAssumption DEF Placing, Placed, Backwards, Releases, NamesOK
<1>6. Linking'
  BY <1>1, <1>2, ReleaseAssumption
     DEF Linking, Placing, Placed, Backwards, Returning, Resolved, Releases, NamesOK, FlagsOK
<1>7. Returning'
  BY <1>1, <1>2, ReleaseAssumption
     DEF Returning, Linking, Placing, Placed, Backwards, Releases, NamesOK, FlagsOK
<1>8. Running'
  BY <1>1, <1>2, ReleaseAssumption
     DEF Running, Linking, Placing, Placed, Backwards, StatesOK, Releases, NamesOK, FlagsOK
<1>9. Carrying'
  BY <1>1, <1>2, ReleaseAssumption
     DEF Carrying, Linking, Returning, Placing, Placed, Backwards, Sites, Resolved, SitesOK,
         Releases, NamesOK
<1>11. QED
  BY <1>3, <1>4, <1>5, <1>6, <1>7, <1>8, <1>9, <1>10 DEF Inv, Types

LEMMA KilledKeeps == ASSUME Inv, Killed PROVE Inv'
<1> USE DEF Killed, Goto, Ends, Fails, Trouble, disk, manager, command, history, bounds
<1>1. /\ DirsOK /\ NamesOK /\ SitesOK /\ StatesOK /\ FlagsOK /\ CountsOK
      /\ Placing /\ Linking /\ Returning /\ Running /\ Carrying
  BY DEF Inv, Types
<1>2. dirs' = dirs /\ Present' = Present /\ Present \subseteq Releases
  BY <1>1, PresentAreReleases DEF Present, DirsOK
<1>3. DirsOK' /\ NamesOK' /\ FlagsOK'
  BY <1>1, <1>2, ReleaseAssumption DEF DirsOK, NamesOK, FlagsOK, Releases
<1>10. CountsOK'
  BY <1>1, ReleaseAssumption DEF CountsOK
<1>4. SitesOK' /\ StatesOK'
  BY <1>1, <1>2, ReleaseAssumption DEF SitesOK, StatesOK, Contents, Steps, NamesOK, Sites, NoSites, Linking
<1>5. Placing'
  BY <1>1, <1>2, ReleaseAssumption DEF Placing, Placed, Backwards, Releases, NamesOK
<1>6. Linking'
  BY <1>1, <1>2, ReleaseAssumption
     DEF Linking, Placing, Placed, Backwards, Returning, Resolved, Releases, NamesOK, FlagsOK
<1>7. Returning'
  BY <1>1, <1>2, ReleaseAssumption
     DEF Returning, Linking, Placing, Placed, Backwards, Releases, NamesOK, FlagsOK
<1>8. Running'
  BY <1>1, <1>2, ReleaseAssumption
     DEF Running, Linking, Placing, Placed, Backwards, StatesOK, Releases, NamesOK, FlagsOK
<1>9. Carrying'
  BY <1>1, <1>2, ReleaseAssumption
     DEF Carrying, Linking, Returning, Placing, Placed, Backwards, Sites, Resolved, SitesOK,
         Releases, NamesOK
<1>11. QED
  BY <1>3, <1>4, <1>5, <1>6, <1>7, <1>8, <1>9, <1>10 DEF Inv, Types

LEMMA ServiceCrashesKeeps == ASSUME Inv, ServiceCrashes PROVE Inv'
<1> USE DEF ServiceCrashes, Goto, Ends, Fails, Trouble, disk, manager, command, history, bounds
<1>1. /\ DirsOK /\ NamesOK /\ SitesOK /\ StatesOK /\ FlagsOK /\ CountsOK
      /\ Placing /\ Linking /\ Returning /\ Running /\ Carrying
  BY DEF Inv, Types
<1>2. dirs' = dirs /\ Present' = Present /\ Present \subseteq Releases
  BY <1>1, PresentAreReleases DEF Present, DirsOK
<1>3. DirsOK' /\ NamesOK' /\ FlagsOK'
  BY <1>1, <1>2, ReleaseAssumption DEF DirsOK, NamesOK, FlagsOK, Releases
<1>10. CountsOK'
  BY <1>1, ReleaseAssumption DEF CountsOK
<1>4. SitesOK' /\ StatesOK'
  BY <1>1, <1>2, ReleaseAssumption DEF SitesOK, StatesOK, Contents, Steps, NamesOK, Sites, NoSites, Linking
<1>5. Placing'
  BY <1>1, <1>2, ReleaseAssumption DEF Placing, Placed, Backwards, Releases, NamesOK
<1>6. Linking'
  BY <1>1, <1>2, ReleaseAssumption
     DEF Linking, Placing, Placed, Backwards, Returning, Resolved, Releases, NamesOK, FlagsOK
<1>7. Returning'
  BY <1>1, <1>2, ReleaseAssumption
     DEF Returning, Linking, Placing, Placed, Backwards, Releases, NamesOK, FlagsOK
<1>8. Running'
  BY <1>1, <1>2, ReleaseAssumption
     DEF Running, Linking, Placing, Placed, Backwards, StatesOK, Releases, NamesOK, FlagsOK
<1>9. Carrying'
  BY <1>1, <1>2, ReleaseAssumption
     DEF Carrying, Linking, Returning, Placing, Placed, Backwards, Sites, Resolved, SitesOK,
         Releases, NamesOK
<1>11. QED
  BY <1>3, <1>4, <1>5, <1>6, <1>7, <1>8, <1>9, <1>10 DEF Inv, Types

LEMMA ServiceRestartsKeeps == ASSUME Inv, ServiceRestarts PROVE Inv'
<1> USE DEF ServiceRestarts, Launch, Goto, Ends, Fails, Trouble, disk, manager, command, history, bounds
<1>1. /\ DirsOK /\ NamesOK /\ SitesOK /\ StatesOK /\ FlagsOK /\ CountsOK
      /\ Placing /\ Linking /\ Returning /\ Running /\ Carrying
  BY DEF Inv, Types
<1>2. dirs' = dirs /\ Present' = Present /\ Present \subseteq Releases
  BY <1>1, PresentAreReleases DEF Present, DirsOK
<1>3. DirsOK' /\ NamesOK' /\ FlagsOK'
  BY <1>1, <1>2, ReleaseAssumption DEF DirsOK, NamesOK, FlagsOK, Releases
<1>10. CountsOK'
  BY <1>1, ReleaseAssumption DEF CountsOK
<1>4. SitesOK' /\ StatesOK'
  BY <1>1, <1>2, ReleaseAssumption DEF SitesOK, StatesOK, Contents, Steps, NamesOK, Sites, NoSites, Linking
<1>5. Placing'
  BY <1>1, <1>2, ReleaseAssumption DEF Placing, Placed, Backwards, Releases, NamesOK
<1>6. Linking'
  BY <1>1, <1>2, ReleaseAssumption
     DEF Linking, Placing, Placed, Backwards, Returning, Resolved, Releases, NamesOK, FlagsOK
<1>7. Returning'
  BY <1>1, <1>2, ReleaseAssumption
     DEF Returning, Linking, Placing, Placed, Backwards, Releases, NamesOK, FlagsOK
<1>8. Running'
  BY <1>1, <1>2, ReleaseAssumption
     DEF Running, Linking, Placing, Placed, Backwards, StatesOK, Releases, NamesOK, FlagsOK
<1>9. Carrying'
  BY <1>1, <1>2, ReleaseAssumption
     DEF Carrying, Linking, Returning, Placing, Placed, Backwards, Sites, Resolved, SitesOK,
         Releases, NamesOK
<1>11. QED
  BY <1>3, <1>4, <1>5, <1>6, <1>7, <1>8, <1>9, <1>10 DEF Inv, Types

LEMMA CmdRestartKeeps == ASSUME Inv, CmdRestart PROVE Inv'
<1> USE DEF CmdRestart, Launch, Goto, Ends, Fails, Trouble, disk, manager, command, history, bounds
<1>1. /\ DirsOK /\ NamesOK /\ SitesOK /\ StatesOK /\ FlagsOK /\ CountsOK
      /\ Placing /\ Linking /\ Returning /\ Running /\ Carrying
  BY DEF Inv, Types
<1>2. dirs' = dirs /\ Present' = Present /\ Present \subseteq Releases
  BY <1>1, PresentAreReleases DEF Present, DirsOK
<1>3. DirsOK' /\ NamesOK' /\ FlagsOK'
  BY <1>1, <1>2, ReleaseAssumption DEF DirsOK, NamesOK, FlagsOK, Releases
<1>10. CountsOK'
  BY <1>1, ReleaseAssumption DEF CountsOK
<1>4. SitesOK' /\ StatesOK'
  BY <1>1, <1>2, ReleaseAssumption DEF SitesOK, StatesOK, Contents, Steps, NamesOK, Sites, NoSites, Linking
<1>5. Placing'
  BY <1>1, <1>2, ReleaseAssumption DEF Placing, Placed, Backwards, Releases, NamesOK
<1>6. Linking'
  BY <1>1, <1>2, ReleaseAssumption
     DEF Linking, Placing, Placed, Backwards, Returning, Resolved, Releases, NamesOK, FlagsOK
<1>7. Returning'
  BY <1>1, <1>2, ReleaseAssumption
     DEF Returning, Linking, Placing, Placed, Backwards, Releases, NamesOK, FlagsOK
<1>8. Running'
  BY <1>1, <1>2, ReleaseAssumption
     DEF Running, Linking, Placing, Placed, Backwards, StatesOK, Releases, NamesOK, FlagsOK
<1>9. Carrying'
  BY <1>1, <1>2, ReleaseAssumption
     DEF Carrying, Linking, Returning, Placing, Placed, Backwards, Sites, Resolved, SitesOK,
         Releases, NamesOK
<1>11. QED
  BY <1>3, <1>4, <1>5, <1>6, <1>7, <1>8, <1>9, <1>10 DEF Inv, Types

LEMMA CmdStopKeeps == ASSUME Inv, CmdStop PROVE Inv'
<1> USE DEF CmdStop, Goto, Ends, Fails, Trouble, disk, manager, command, history, bounds
<1>1. /\ DirsOK /\ NamesOK /\ SitesOK /\ StatesOK /\ FlagsOK /\ CountsOK
      /\ Placing /\ Linking /\ Returning /\ Running /\ Carrying
  BY DEF Inv, Types
<1>2. dirs' = dirs /\ Present' = Present /\ Present \subseteq Releases
  BY <1>1, PresentAreReleases DEF Present, DirsOK
<1>3. DirsOK' /\ NamesOK' /\ FlagsOK'
  BY <1>1, <1>2, ReleaseAssumption DEF DirsOK, NamesOK, FlagsOK, Releases
<1>10. CountsOK'
  BY <1>1, ReleaseAssumption DEF CountsOK
<1>4. SitesOK' /\ StatesOK'
  BY <1>1, <1>2, ReleaseAssumption DEF SitesOK, StatesOK, Contents, Steps, NamesOK, Sites, NoSites, Linking
<1>5. Placing'
  BY <1>1, <1>2, ReleaseAssumption DEF Placing, Placed, Backwards, Releases, NamesOK
<1>6. Linking'
  BY <1>1, <1>2, ReleaseAssumption
     DEF Linking, Placing, Placed, Backwards, Returning, Resolved, Releases, NamesOK, FlagsOK
<1>7. Returning'
  BY <1>1, <1>2, ReleaseAssumption
     DEF Returning, Linking, Placing, Placed, Backwards, Releases, NamesOK, FlagsOK
<1>8. Running'
  BY <1>1, <1>2, ReleaseAssumption
     DEF Running, Linking, Placing, Placed, Backwards, StatesOK, Releases, NamesOK, FlagsOK
<1>9. Carrying'
  BY <1>1, <1>2, ReleaseAssumption
     DEF Carrying, Linking, Returning, Placing, Placed, Backwards, Sites, Resolved, SitesOK,
         Releases, NamesOK
<1>11. QED
  BY <1>3, <1>4, <1>5, <1>6, <1>7, <1>8, <1>9, <1>10 DEF Inv, Types

LEMMA CmdRemoveKeeps == ASSUME Inv, CmdRemove PROVE Inv'
<1> USE DEF CmdRemove, Goto, Ends, Fails, Trouble, disk, manager, command, history, bounds
<1>1. /\ DirsOK /\ NamesOK /\ SitesOK /\ StatesOK /\ FlagsOK /\ CountsOK
      /\ Placing /\ Linking /\ Returning /\ Running /\ Carrying
  BY DEF Inv, Types
<1>2. dirs' = dirs /\ Present' = Present /\ Present \subseteq Releases
  BY <1>1, PresentAreReleases DEF Present, DirsOK
<1>3. DirsOK' /\ NamesOK' /\ FlagsOK'
  BY <1>1, <1>2, ReleaseAssumption DEF DirsOK, NamesOK, FlagsOK, Releases
<1>10. CountsOK'
  BY <1>1, ReleaseAssumption DEF CountsOK
<1>4. SitesOK' /\ StatesOK'
  BY <1>1, <1>2, ReleaseAssumption DEF SitesOK, StatesOK, Contents, Steps, NamesOK, Sites, NoSites, Linking
<1>5. Placing'
  BY <1>1, <1>2, ReleaseAssumption DEF Placing, Placed, Backwards, Releases, NamesOK
<1>6. Linking'
  BY <1>1, <1>2, ReleaseAssumption
     DEF Linking, Placing, Placed, Backwards, Returning, Resolved, Releases, NamesOK, FlagsOK
<1>7. Returning'
  BY <1>1, <1>2, ReleaseAssumption
     DEF Returning, Linking, Placing, Placed, Backwards, Releases, NamesOK, FlagsOK
<1>8. Running'
  BY <1>1, <1>2, ReleaseAssumption
     DEF Running, Linking, Placing, Placed, Backwards, StatesOK, Releases, NamesOK, FlagsOK
<1>9. Carrying'
  BY <1>1, <1>2, ReleaseAssumption
     DEF Carrying, Linking, Returning, Placing, Placed, Backwards, Sites, Resolved, SitesOK,
         Releases, NamesOK
<1>11. QED
  BY <1>3, <1>4, <1>5, <1>6, <1>7, <1>8, <1>9, <1>10 DEF Inv, Types

LEMMA EditKeeps == ASSUME Inv, Edit PROVE Inv'
<1> USE DEF Edit, Goto, Ends, Fails, Trouble, disk, manager, command, history, bounds
<1>1. /\ DirsOK /\ NamesOK /\ SitesOK /\ StatesOK /\ FlagsOK /\ CountsOK
      /\ Placing /\ Linking /\ Returning /\ Running /\ Carrying
  BY DEF Inv, Types
<1>2. dirs' = dirs /\ Present' = Present /\ Present \subseteq Releases
  BY <1>1, PresentAreReleases DEF Present, DirsOK
<1>3. DirsOK' /\ NamesOK' /\ FlagsOK'
  BY <1>1, <1>2, ReleaseAssumption DEF DirsOK, NamesOK, FlagsOK, Releases
<1>10. CountsOK'
  BY <1>1, ReleaseAssumption DEF CountsOK
<1>4. SitesOK' /\ StatesOK'
  BY <1>1, <1>2, ReleaseAssumption DEF SitesOK, StatesOK, Contents, Steps, NamesOK, Sites, NoSites, Linking
<1>5. Placing'
  BY <1>1, <1>2, ReleaseAssumption DEF Placing, Placed, Backwards, Releases, NamesOK
<1>6. Linking'
  BY <1>1, <1>2, ReleaseAssumption
     DEF Linking, Placing, Placed, Backwards, Returning, Resolved, Releases, NamesOK, FlagsOK
<1>7. Returning'
  BY <1>1, <1>2, ReleaseAssumption
     DEF Returning, Linking, Placing, Placed, Backwards, Releases, NamesOK, FlagsOK
<1>8. Running'
  BY <1>1, <1>2, ReleaseAssumption
     DEF Running, Linking, Placing, Placed, Backwards, StatesOK, Releases, NamesOK, FlagsOK
<1>9. Carrying'
  BY <1>1, <1>2, ReleaseAssumption
     DEF Carrying, Linking, Returning, Placing, Placed, Backwards, Sites, Resolved, SitesOK,
         Releases, NamesOK
<1>11. QED
  BY <1>3, <1>4, <1>5, <1>6, <1>7, <1>8, <1>9, <1>10 DEF Inv, Types

\* The new directory is one more, and the first unless it brought its own time.
LEMMA UnpackKeeps == ASSUME Inv, Unpack PROVE Inv'
<1>1. /\ DirsOK /\ NamesOK /\ SitesOK /\ StatesOK /\ FlagsOK /\ CountsOK
      /\ Placing /\ Linking /\ Returning /\ Running /\ Carrying
  BY DEF Inv, Types
<1>2. /\ pc = "unpack" /\ target \in Archives \ (Present \cup {current})
      /\ target \in Releases /\ target \notin Packages
      /\ dirs \in Seq(Releases) /\ Single(dirs) /\ Present \subseteq Releases
  BY <1>1, ReleaseAssumption, PresentAreReleases DEF Unpack, Placing, Releases, DirsOK
<1>3. /\ UNCHANGED <<current, unit, service, run, port80>>
      /\ \/ Ends("failed") /\ UNCHANGED <<dirs, configs, previous>>
         \/ /\ \E place \in Places : dirs' = InsertAt(dirs, place, target)
            /\ \/ /\ configs' = [configs EXCEPT ![target] = ShippedSites]
                  /\ previous' = Resolved(current) /\ Goto("unlink")
               \/ /\ configs' = [configs EXCEPT ![target] = NoSites]
                  /\ Ends("failed") /\ UNCHANGED previous
  BY DEF Unpack, manager
<1>4. CASE Ends("failed") /\ UNCHANGED <<dirs, configs, previous>>
  <2> USE DEF Ends, history, bounds
  <2>1. Present' = Present
    BY <1>4 DEF Present
  <2>2. DirsOK' /\ NamesOK' /\ SitesOK' /\ CountsOK'
    BY <1>1, <1>3, <1>4 DEF DirsOK, NamesOK, SitesOK, CountsOK, Single
  <2>3. StatesOK' /\ FlagsOK'
    BY <1>1, <1>3, <1>4 DEF StatesOK, FlagsOK, Steps
  <2>4. Placing' /\ Linking' /\ Returning'
    BY <1>1, <1>2, <1>3, <1>4, <2>1, ReleaseAssumption
       DEF Placing, Linking, Returning, Resolved, Placed, Backwards, Releases, NamesOK, FlagsOK
  <2>5. Running' /\ Carrying'
    BY <1>1, <1>2, <1>3, <1>4, <2>1, ReleaseAssumption
       DEF Running, Carrying, Placed, Backwards, FlagsOK
  <2>6. QED
    BY <2>2, <2>3, <2>4, <2>5 DEF Inv, Types
<1>5. CASE /\ \E place \in Places : dirs' = InsertAt(dirs, place, target)
           /\ \/ /\ configs' = [configs EXCEPT ![target] = ShippedSites]
                 /\ previous' = Resolved(current) /\ Goto("unlink")
              \/ /\ configs' = [configs EXCEPT ![target] = NoSites]
                 /\ Ends("failed") /\ UNCHANGED previous
  <2>1. PICK place \in Places : dirs' = InsertAt(dirs, place, target)
    BY <1>5
  <2>2. place \in 1..(Len(dirs) + 1) /\ (target \notin Dated => place = 1)
    <3>1. Len(dirs) \in Nat
      BY <1>2, LenProperties
    <3>2. QED
      BY <2>1, <3>1 DEF Places
  <2>3. /\ dirs' \in Seq(Releases) /\ Single(dirs')
        /\ target \notin Dated => dirs'[1] = target
        /\ Present' = Present \cup {target}
    BY <1>2, <2>1, <2>2, Inserted DEF Present
  <2>4. DirsOK'
    BY <2>3 DEF DirsOK, Single
  <2> USE DEF Goto, Ends, history, bounds
  <2>5. NamesOK'
    BY <1>1, <1>2, <1>3, <1>5 DEF NamesOK, Resolved
  <2>6. SitesOK'
    <3>1. ShippedSites \in [Files -> Contents] /\ NoSites \in [Files -> Contents]
      BY DEF ShippedSites, NoSites, Contents
    <3>2. QED
      BY <1>1, <1>5, <3>1 DEF SitesOK
  <2>7. StatesOK' /\ FlagsOK' /\ CountsOK'
    BY <1>1, <1>3, <1>5 DEF StatesOK, FlagsOK, CountsOK, Steps
  <2>8. Resolved(current)' = Resolved(current)
    BY <1>2, <1>3, <2>3 DEF Resolved
  <2>9. Placing'
    BY <1>1, <1>2, <1>5, <2>3 DEF Placing, Placed, Backwards
  <2>10. Linking'
    BY <1>1, <1>2, <1>3, <1>5, <2>3, <2>8 DEF Linking, Resolved
  <2>11. Returning'
    BY <1>1, <1>2, <1>3, <1>5, <2>3, <2>8, ReleaseAssumption
       DEF Returning, Linking, Placed, Backwards, Resolved, NamesOK, Releases
  <2>12. Running' /\ Carrying'
    BY <1>1, <1>2, <1>3, <1>5, ReleaseAssumption
       DEF Running, Carrying, Placing, Placed, Backwards, Releases, FlagsOK
  <2>13. QED
    BY <2>4, <2>5, <2>6, <2>7, <2>9, <2>10, <2>11, <2>12 DEF Inv, Types
<1>6. QED
  BY <1>3, <1>4, <1>5

\* What is written is a site file, and what is not was there.
LEMMA CopiedSites ==
    ASSUME DirsOK, SitesOK, target \in Releases, NEW written \in SUBSET Files
    PROVE  Copied(written) \in [Files -> Contents]
<1>1. Sites(current) \in [Files -> Contents]
  <2>1. CASE current \in Present /\ current \in Releases
    BY <2>1 DEF Sites, SitesOK
  <2>2. CASE current \notin Present
    BY <2>2 DEF Sites, NoSites, Contents
  <2>3. CASE current \in Present /\ current \notin Releases
    BY <2>3, PresentAreReleases DEF DirsOK
  <2>4. QED
    BY <2>1, <2>2, <2>3
<1>2. ShippedSites \in [Files -> Contents] /\ configs[target] \in [Files -> Contents]
  BY DEF ShippedSites, Contents, SitesOK
<1>3. QED
  BY <1>1, <1>2 DEF Copied, Contents

\* The directory of the package, made or found, and the sites of the release in force
\* in it.
LEMMA CopyKeeps == ASSUME Inv, Copy PROVE Inv'
<1>1. /\ DirsOK /\ NamesOK /\ SitesOK /\ StatesOK /\ FlagsOK /\ CountsOK
      /\ Placing /\ Linking /\ Returning /\ Running /\ Carrying
  BY DEF Inv, Types
<1>2. /\ pc = "copy" /\ dirs' = WithTarget
      /\ UNCHANGED <<current, unit, service, run, port80, previous>>
      /\ \/ configs' = [configs EXCEPT ![target] = Copied(Files)] /\ Goto("unlink")
         \/ /\ \E written \in SUBSET Files :
                  configs' = [configs EXCEPT ![target] = Copied(written)]
            /\ FailsOrRunsAgain
  BY DEF Copy, FailsOrRunsAgain, Fails, manager
<1>3. /\ target \in Releases /\ target \in Packages /\ target \notin Archives
      /\ target \notin Dated /\ target # NoRelease
      /\ dirs \in Seq(Releases) /\ Single(dirs) /\ Present \subseteq Releases
  BY <1>1, <1>2, ReleaseAssumption, PresentAreReleases DEF Placing, Releases, DirsOK
<1>4. /\ dirs' \in Seq(Releases) /\ Single(dirs') /\ Present' = Present \cup {target}
  BY <1>2, <1>3, MadeFirst DEF Present, WithTarget
<1>5. PICK written \in SUBSET Files :
          configs' = [configs EXCEPT ![target] = Copied(written)]
          /\ ((Goto("unlink") /\ written = Files) \/ FailsOrRunsAgain)
  BY <1>2
<1>6. Copied(written) \in [Files -> Contents]
  BY <1>1, <1>3, CopiedSites
<1>7. /\ configs' \in [Releases -> [Files -> Contents]] /\ configs'[target] = Copied(written)
      /\ \A r \in Releases \ {target} : configs'[r] = configs[r]
  BY <1>1, <1>3, <1>5, <1>6 DEF SitesOK
<1>8. Resolved(current)' = Resolved(current)
  BY <1>1, <1>2, <1>3, <1>4 DEF Resolved, Linking
<1>9. current # target => Sites(current)' = Sites(current)
  BY <1>2, <1>3, <1>4, <1>7 DEF Sites
<1> USE DEF Goto, FailsOrRunsAgain, Fails, history, bounds
<1>10. UNCHANGED <<target, before, carried, edited, commands, edits>>
  BY <1>5
<1>11. DirsOK'
  BY <1>4 DEF DirsOK, Single
<1>12. NamesOK' /\ SitesOK'
  BY <1>1, <1>2, <1>7, <1>10 DEF NamesOK, SitesOK
<1>13. StatesOK' /\ FlagsOK'
  <2>1. StatesOK'
    BY <1>1, <1>2, <1>5 DEF StatesOK, Steps
  <2>2. FlagsOK'
    BY <1>1, <1>2, <1>5 DEF FlagsOK
  <2>3. QED
    BY <2>1, <2>2
<1>14. CountsOK'
  BY <1>1, <1>5, <1>10, ReleaseAssumption DEF CountsOK, Trouble
<1>15. Placing'
  BY <1>1, <1>2, <1>3, <1>4, <1>5, <1>10 DEF Placing, Placed, Backwards
<1>16. Linking'
  BY <1>1, <1>2, <1>3, <1>4, <1>5, <1>8, <1>10 DEF Linking, FlagsOK
<1>17. Returning' /\ Running'
  BY <1>1, <1>2, <1>3, <1>4, <1>5, <1>10 DEF Returning, Running, Placed, Backwards
<1>18. Carrying'
  <2>1. before' = NoRelease => carried' = NoSites
    BY <1>1, <1>10 DEF Carrying
  <2>2. ~rerun /\ target # before => current # target
    BY <1>1, <1>2, <1>3 DEF Linking, Resolved
  <2>3. CASE Goto("unlink") /\ written = Files
    <3>1. SUFFICES ASSUME target # before, ~edited, ~rerun, NEW f \in Files, carried[f] # "none"
                   PROVE  configs'[target][f] = carried[f]
      BY <1>10, <2>1, <2>3 DEF Carrying, Placed, Backwards
    <3>2. Sites(current) = carried /\ current # target
      BY <1>1, <1>2, <2>2, <3>1 DEF Carrying
    <3>3. HasSites
      BY <3>1, <3>2 DEF HasSites, NoSites
    <3>4. QED
      BY <1>7, <2>3, <3>1, <3>2, <3>3 DEF Copied
  <2>4. CASE FailsOrRunsAgain
    <3>1. \/ pc' = "idle" /\ result' = "failed"
          \/ pc' = "stop" /\ (~rerun' => ~rerun)
      BY <1>1, <2>4 DEF FlagsOK
    <3>2. QED
      BY <1>1, <1>2, <1>9, <1>10, <2>1, <2>2, <3>1 DEF Carrying, Placed, Backwards
  <2>5. QED
    BY <1>5, <2>3, <2>4
<1>19. QED
  BY <1>11, <1>12, <1>13, <1>14, <1>15, <1>16, <1>17, <1>18 DEF Inv, Types

\* The release just linked is the first, so that it is kept, unless it brought its own
\* time.
LEMMA PruneKeeps == ASSUME Inv, Prune PROVE Inv'
<1>1. /\ DirsOK /\ NamesOK /\ SitesOK /\ StatesOK /\ FlagsOK /\ CountsOK
      /\ Placing /\ Linking /\ Returning /\ Running /\ Carrying
  BY DEF Inv, Types
<1>2. /\ pc = "prune" /\ UNCHANGED <<current, unit, service, run, port80, previous>>
      /\ \/ /\ dirs' = Kept /\ Goto("finish")
            /\ configs' = [r \in Releases |-> IF r \in Range(Kept) THEN configs[r] ELSE NoSites]
         \/ Fails /\ UNCHANGED <<dirs, configs>>
  BY DEF Prune, Fails, manager
<1>3. /\ target \in Archives /\ target \notin Packages /\ current = target
      /\ target \in Releases /\ target # NoRelease /\ (target \notin Dated => dirs[1] = target)
      /\ target \in Present /\ dirs \in Seq(Releases) /\ Single(dirs)
  BY <1>1, <1>2, ReleaseAssumption DEF Placing, Linking, Placed, DirsOK, Releases
<1>4. /\ Kept \in Seq(Releases) /\ Single(Kept) /\ dirs[1] \in Range(Kept)
  <2>1. Len(dirs) \in Nat /\ Len(dirs) # 0
    BY <1>3, LenProperties DEF Present, Range
  <2> DEFINE n == IF Len(dirs) < KeepReleases THEN Len(dirs) ELSE KeepReleases
  <2>2. n \in 1..Len(dirs) /\ Kept = SubSeq(dirs, 1, n)
    BY <2>1, ReleaseAssumption DEF Kept
  <2> HIDE DEF n
  <2>3. QED
    BY <1>3, <2>2, PrunedKeepsFirst
<1> USE DEF Goto, Fails, history, bounds
<1>5. /\ DirsOK' /\ (target \notin Dated => target \in Present')
      /\ dirs' = dirs => Present' = Present
  BY <1>1, <1>2, <1>3, <1>4 DEF DirsOK, Single, Present
<1>6. NamesOK' /\ StatesOK' /\ FlagsOK'
  <2>1. NamesOK'
    BY <1>1, <1>2 DEF NamesOK
  <2>2. StatesOK'
    BY <1>1, <1>2 DEF StatesOK, Steps
  <2>3. FlagsOK'
    BY <1>1, <1>2 DEF FlagsOK
  <2>4. QED
    BY <2>1, <2>2, <2>3
<1>7. SitesOK'
  BY <1>1, <1>2 DEF SitesOK, NoSites, Contents
<1>8. CountsOK'
  BY <1>1, <1>2, ReleaseAssumption DEF CountsOK, Trouble
<1>9. Placing' /\ Linking' /\ Returning' /\ Running' /\ Carrying'
  <2>1. UNCHANGED <<target, before, carried, edited, rerun>>
    BY <1>2
  <2>2. Placing' /\ Linking'
    BY <1>1, <1>2, <1>3, <1>5, <2>1 DEF Placing, Linking, Placed, Backwards, Resolved
  <2>3. Returning' /\ Running' /\ Carrying'
    BY <1>1, <1>2, <1>3, <1>5, <2>1 DEF Returning, Running, Carrying, Placed, Backwards
  <2>4. QED
    BY <2>2, <2>3
<1>10. QED
  BY <1>5, <1>6, <1>7, <1>8, <1>9 DEF Inv, Types

LEMMA CmdUninstallKeeps == ASSUME Inv, CmdUninstall PROVE Inv'
<1>1. /\ DirsOK /\ NamesOK /\ SitesOK /\ StatesOK /\ FlagsOK /\ CountsOK
      /\ Placing /\ Linking /\ Returning /\ Running /\ Carrying
  BY DEF Inv, Types
<1>2. /\ pc = "idle" /\ service' = "stopped" /\ run' = NoRelease
      /\ UNCHANGED <<port80, pc, target, previous, edited, rerun, disturbed, commands, edits>>
      /\ \/ /\ dirs' = <<>> /\ configs' = [r \in Releases |-> NoSites]
            /\ current' = NoRelease /\ unit' = FALSE
            /\ result' = "none" /\ before' = NoRelease /\ carried' = NoSites
            /\ UNCHANGED troubles
         \/ Trouble /\ UNCHANGED <<dirs, configs, current, unit, result, before, carried>>
  BY DEF CmdUninstall, disk
<1>3. DirsOK' /\ (UNCHANGED dirs => Present' = Present)
  BY <1>1, <1>2, NoDirectories DEF DirsOK, Single, Present
<1>4. NamesOK' /\ StatesOK' /\ FlagsOK'
  BY <1>1, <1>2 DEF NamesOK, StatesOK, FlagsOK
<1>5. SitesOK'
  BY <1>1, <1>2 DEF SitesOK, NoSites, Contents
<1>6. CountsOK'
  BY <1>1, <1>2, ReleaseAssumption DEF CountsOK, Trouble
<1>7. Placing' /\ Linking' /\ Returning' /\ Running' /\ Carrying'
  BY <1>1, <1>2, <1>3 DEF Placing, Linking, Returning, Running, Carrying, Placed, Backwards
<1>8. QED
  BY <1>3, <1>4, <1>5, <1>6, <1>7 DEF Inv, Types

LEMMA InitInv == Init => Inv
<1> SUFFICES ASSUME Init PROVE Inv
  OBVIOUS
<1>1. PICK r \in Packages \cup {NoRelease} :
          /\ dirs = IF r = NoRelease THEN <<>> ELSE <<r>>
          /\ configs = [x \in Releases |-> IF x = r THEN ShippedSites ELSE NoSites]
          /\ current = r /\ run = r
          /\ unit = (r # NoRelease)
          /\ service = IF r = NoRelease THEN "stopped" ELSE "active"
  BY DEF Init
<1>2. DirsOK /\ (r # NoRelease => Present = {r})
  BY <1>1, NoDirectories, OneDirectory DEF DirsOK, Present, Releases
<1>3. NamesOK /\ SitesOK /\ StatesOK /\ FlagsOK /\ CountsOK
  <2>1. NamesOK
    BY <1>1 DEF Init, NamesOK, Releases
  <2>2. SitesOK
    BY <1>1 DEF Init, SitesOK, ShippedSites, NoSites, Contents
  <2>3. StatesOK
    BY <1>1 DEF Init, StatesOK, Steps
  <2>4. FlagsOK
    BY <1>1 DEF Init, FlagsOK
  <2>5. CountsOK
    BY ReleaseAssumption DEF Init, CountsOK
  <2>6. QED
    BY <2>1, <2>2, <2>3, <2>4, <2>5
<1>4. Placing /\ Linking /\ Returning /\ Running /\ Carrying
  BY <1>1, <1>2 DEF Init, Placing, Linking, Returning, Running, Carrying, Placed, Backwards
<1>5. QED
  BY <1>2, <1>3, <1>4 DEF Inv, Types

LEMMA NextInv == Inv /\ [Next]_vars => Inv'
<1> SUFFICES ASSUME Inv, [Next]_vars PROVE Inv'
  OBVIOUS
<1>1. ASSUME NEW r \in Releases, Begin(r) PROVE Inv'
  BY <1>1, BeginKeeps
<1>2. CASE Step
  BY <1>2, UnpackKeeps, StopKeeps, CopyKeeps, UnlinkKeeps, LinkKeeps, InstallServiceKeeps,
     StartKeeps, WaitKeeps, HealthKeeps, PruneKeeps, BackUnlinkKeeps, BackLinkKeeps,
     BackStartKeeps, FinishKeeps DEF Step
<1>3. CASE Killed \/ ServiceCrashes \/ ServiceRestarts
  BY <1>3, KilledKeeps, ServiceCrashesKeeps, ServiceRestartsKeeps
<1>4. CASE Operator
  BY <1>4, EditKeeps, CmdRestartKeeps, CmdStopKeeps, CmdRemoveKeeps, CmdUninstallKeeps
     DEF Operator
<1>5. CASE UNCHANGED vars
  <2>1. /\ DirsOK' = DirsOK /\ NamesOK' = NamesOK /\ SitesOK' = SitesOK
        /\ StatesOK' = StatesOK /\ FlagsOK' = FlagsOK /\ CountsOK' = CountsOK
    BY <1>5 DEF DirsOK, Single, NamesOK, SitesOK, StatesOK, FlagsOK, CountsOK,
                vars, disk, manager, command, history, bounds
  <2>2. /\ Placing' = Placing /\ Linking' = Linking /\ Returning' = Returning
        /\ Running' = Running /\ Carrying' = Carrying
    BY <1>5 DEF Placing, Linking, Returning, Running, Carrying, Present, Sites, Resolved,
                vars, disk, manager, command, history, bounds
  <2>3. QED
    BY <2>1, <2>2 DEF Inv, Types
<1>6. QED
  BY <1>1, <1>2, <1>3, <1>4, <1>5 DEF Next

LEMMA AlwaysInv == Spec => []Inv
BY InitInv, NextInv, PTL DEF Spec

-----------------------------------------------------------------------------
(* Theorems *)

\* Whatever is installed, fails or is killed, every variable keeps its type, and each
\* release has one directory.
THEOREM TypeCorrect == Spec => []TypeOK
<1>1. Inv => TypeOK
  BY TypesAreTypeOK DEF Inv
<1>2. QED
  BY <1>1, AlwaysInv, PTL

\* The release behind the link is there, unless it is an archive that brought its own
\* time: pruning keeps the release just linked because its directory is the first
\* (Placing), and a rollback returns to a release that is still there (Returning).  A
\* command that ends well has linked what it installed, after whatever failures; and
\* without failing steps there is a link but between its removal and its creation.
THEOREM LinkAlwaysResolves == Spec => []LinkResolves
<1>1. Inv => LinkResolves
  <2> SUFFICES ASSUME Inv PROVE LinkResolves
    OBVIOUS
  <2>1. Placing /\ Linking /\ Returning /\ StatesOK /\ FlagsOK
    BY DEF Inv, Types
  <2>2. result = "ok" => current = target
    BY <2>1 DEF Returning
  <2>3. ASSUME before # NoRelease, ~disturbed, pc \notin {"link", "back_link"}
        PROVE  current # NoRelease
    <3>1. target \in Releases => target # NoRelease
      BY ReleaseAssumption
    <3>2. Resolved(current) = before => current # NoRelease
      BY <2>3 DEF Resolved
    <3>3. QED
      BY <2>1, <2>3, <3>1, <3>2 DEF Placing, Linking, StatesOK, FlagsOK, Steps
  <2>4. QED
    BY <2>1, <2>2, <2>3 DEF Linking, LinkResolves
<1>2. QED
  BY <1>1, AlwaysInv, PTL

\* A command that fails of itself leaves the link as it found it, however far it came:
\* what it returns to is what was linked when it began (Returning).
THEOREM FailureAlwaysRestores == Spec => []FailureRestores
<1>1. Inv => FailureRestores
  BY DEF Inv, Types, StatesOK, Returning, FailureRestores
<1>2. QED
  BY <1>1, AlwaysInv, PTL

\* Only a release that does not answer is ever rolled back, where konnector listens on
\* the port that is asked: from its start on the service runs that release or has
\* crashed, and only one that does not answer crashes (Running).
THEOREM SoundAlwaysStays == Spec => []SoundStays
<1>1. Inv => SoundStays
  BY DEF Inv, Running, SoundStays, Backwards
<1>2. QED
  BY <1>1, AlwaysInv, PTL

\* Unless a step failed or a command was killed, what runs between two commands is what
\* the link names, after rollbacks and crashes of the service too.
THEOREM RunsWhatIsLinkedAlways == Spec => []RunsWhatIsLinked
<1>1. Inv => RunsWhatIsLinked
  BY DEF Inv, Running, RunsWhatIsLinked
<1>2. QED
  BY <1>1, AlwaysInv, PTL

\* A package that is a new version has every site of the release it replaces as it was
\* (Carrying), whatever its directory had and whatever failed before.
THEOREM UpgradeAlwaysCarriesSites == Spec => []UpgradeCarriesSites
<1>1. Inv => UpgradeCarriesSites
  <2> SUFFICES ASSUME Inv, result = "ok", target \in Packages, target # before, ~edited, ~rerun
               PROVE  /\ current = target
                      /\ \A f \in Files : carried[f] # "none" => configs[current][f] = carried[f]
    BY DEF UpgradeCarriesSites
  <2>1. pc = "idle" /\ current = target
    BY DEF Inv, Returning
  <2>2. QED
    BY <2>1 DEF Inv, Carrying
<1>2. QED
  BY <1>1, AlwaysInv, PTL

=============================================================================
