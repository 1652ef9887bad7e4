------------------------- MODULE TcpListenersProofs -------------------------
(***************************************************************************)
(* Proofs about TcpListeners for any ports, directories and reloads, and   *)
(* whatever other processes do to the ports.                               *)
(***************************************************************************)
EXTENDS TcpListeners, TLAPS

\* The thread listens for a file of the list, at or behind position i0.
ListensFor(t, dir, i0) ==
    \E i \in DOMAIN dir :
        /\ i >= i0
        /\ Serves(dir, i)
        /\ dir[i].port = t.port
        /\ t.family \in FamiliesOf(dir[i])

\* A thread belongs to the configuration in hand, and while stop_all goes
\* through the handles, to one it has not come to yet.
Owned(t) ==
    IF phase \in {"start", "idle"}
    THEN t.gen = gen /\ ListensFor(t, files, 1)
    ELSE t.gen = gen - 1 /\ ListensFor(t, running, k)

AllOwned == \A t \in Threads : thread[t] \in Live => Owned(t)

\* A thread is in apply only if apply was called.
Begun == phase # "idle" => gen # 0

IInv == TypeOK /\ Begun /\ AllOwned

LEMMA InitIInv == Init => IInv
<1> SUFFICES ASSUME Init PROVE IInv
  OBVIOUS
<1>1. TypeOK
  BY ListenersAssumption DEF Init, TypeOK
<1>2. Begun /\ AllOwned
  BY DEF Init, Begun, AllOwned, Live, Bound
<1>3. QED
  BY <1>1, <1>2 DEF IInv

-----------------------------------------------------------------------------
(* The thread in apply. *)

\* apply moves on to the files just loaded.
LEMMA ApplyStep ==
    ASSUME IInv, Apply PROVE IInv'
<1>1. TypeOK'
  BY ListenersAssumption DEF IInv, TypeOK, Apply
<1>2. gen \in Nat /\ gen' = gen + 1
  BY ListenersAssumption DEF IInv, TypeOK, Apply
<1>3. AllOwned'
  <2>1. SUFFICES ASSUME NEW t \in Threads, thread'[t] \in Live PROVE Owned(t)'
    BY DEF AllOwned
  <2>2. Owned(t) /\ phase = "idle"
    BY <2>1 DEF IInv, AllOwned, Apply
  <2>3. running' = files /\ k' = 1 /\ phase' = "stop" /\ gen' - 1 = gen
    BY <1>2 DEF Apply
  <2>4. QED
    BY <2>2, <2>3 DEF Owned, ListensFor
<1>4. QED
  BY <1>1, <1>2, <1>3 DEF IInv, Begun

\* Going on to the next handle forgets no live thread, once none is left that
\* listens for this one.
LEMMA NextHandle ==
    ASSUME IInv, phase \in {"stop", "join"}, phase' = "stop", k' = k + 1,
           UNCHANGED <<gen, running, thread>>,
           \A t \in Threads :
              thread[t] \in Live /\ t.gen = gen - 1 =>
                  ~ (Serves(running, k) /\ running[k].port = t.port)
    PROVE  AllOwned'
<1>1. SUFFICES ASSUME NEW t \in Threads, thread[t] \in Live PROVE Owned(t)'
  BY DEF AllOwned
<1>2. t.gen = gen - 1 /\ ListensFor(t, running, k)
  BY <1>1 DEF IInv, AllOwned, Owned
<1>3. PICK i \in DOMAIN running :
         /\ i >= k
         /\ Serves(running, i)
         /\ running[i].port = t.port
         /\ t.family \in FamiliesOf(running[i])
  BY <1>2 DEF ListensFor
<1>4. i \in Nat /\ k \in Nat /\ i # k
  BY <1>1, <1>2, <1>3 DEF IInv, TypeOK
<1>5. i >= k + 1
  BY <1>3, <1>4
<1>6. ListensFor(t, running, k + 1)
  BY <1>3, <1>5 DEF ListensFor
<1>7. QED
  BY <1>2, <1>6 DEF Owned

\* A handle that is skipped served nobody; one that is signalled stays in hand.
LEMMA SignalStep ==
    ASSUME IInv, Signal PROVE IInv'
<1>1. k + 1 \in Nat \ {0} /\ running[k].port \in Ports
  <2>1. k \in Nat \ {0} /\ running \in Seq(File) /\ k \in DOMAIN running
    BY DEF IInv, TypeOK, Signal
  <2>2. running[k] \in File
    BY <2>1
  <2>3. QED
    BY <2>1, <2>2 DEF File
<1>2. gen - 1 \in 0..MaxApplies
  BY ListenersAssumption DEF IInv, TypeOK, Begun, Signal
<1>3. CASE Serves(running, k)
  <2>1. [gen |-> gen - 1, port |-> running[k].port] \in [gen : 0..MaxApplies, port : Ports]
    BY <1>1, <1>2
  <2>2. TypeOK'
    BY <1>3, <2>1 DEF IInv, TypeOK, Signal
  <2>3. AllOwned'
    BY <1>3 DEF IInv, AllOwned, Owned, Signal
  <2>4. QED
    BY <2>2, <2>3 DEF IInv, Begun, Signal
<1>4. CASE ~Serves(running, k)
  <2>1. TypeOK'
    BY <1>1, <1>4 DEF IInv, TypeOK, Signal
  <2>2. AllOwned'
    BY <1>4, NextHandle DEF Signal
  <2>3. QED
    BY <2>1, <2>2 DEF IInv, Begun, Signal
<1>5. QED
  BY <1>3, <1>4

\* What join waited for listens no more.
LEMMA JoinStep ==
    ASSUME IInv, Join PROVE IInv'
<1>1. TypeOK'
  BY DEF IInv, TypeOK, Join
<1>2. AllOwned'
  BY NextHandle DEF Join
<1>3. QED
  BY <1>1, <1>2 DEF IInv, Begun, Join

\* Behind the last handle no thread is left at all.
LEMMA StopDoneStep ==
    ASSUME IInv, StopDone PROVE IInv'
<1>1. TypeOK'
  BY DEF IInv, TypeOK, StopDone
<1>2. AllOwned'
  <2>1. SUFFICES ASSUME NEW t \in Threads, thread[t] \in Live PROVE FALSE
    BY DEF AllOwned, StopDone
  <2>2. ListensFor(t, running, k)
    BY <2>1 DEF IInv, AllOwned, Owned, StopDone
  <2>3. PICK i \in DOMAIN running : i >= k
    BY <2>2 DEF ListensFor
  <2>4. DOMAIN running = 1..Len(running) /\ Len(running) \in Nat /\ k \in Nat \ {0}
    BY DEF IInv, TypeOK
  <2>5. k \in DOMAIN running
    BY <2>3, <2>4
  <2>6. QED
    BY <2>5 DEF StopDone
<1>3. QED
  BY <1>1, <1>2 DEF IInv, Begun, StopDone

\* What is spawned listens for the file it is spawned for.
LEMMA StartStep ==
    ASSUME IInv, Start PROVE IInv'
<1>1. TypeOK'
  BY DEF IInv, TypeOK, Start
<1>2. AllOwned'
  <2>1. SUFFICES ASSUME NEW t \in Threads, thread'[t] \in Live PROVE Owned(t)'
    BY DEF AllOwned
  <2>2. CASE Serves(files, k) /\ t \in Spawned(files[k])
    <3>1. k \in DOMAIN files /\ k >= 1
      BY DEF IInv, TypeOK, Start
    <3>2. t.gen = gen /\ t.port = files[k].port /\ t.family \in FamiliesOf(files[k])
      BY <2>2 DEF Spawned
    <3>3. ListensFor(t, files, 1)
      BY <2>2, <3>1, <3>2 DEF ListensFor
    <3>4. QED
      BY <3>2, <3>3 DEF Owned, Start
  <2>3. CASE ~ (Serves(files, k) /\ t \in Spawned(files[k]))
    <3>1. thread'[t] = thread[t]
      BY <2>3 DEF Start
    <3>2. Owned(t)
      BY <2>1, <3>1 DEF IInv, AllOwned
    <3>3. QED
      BY <3>2 DEF Owned, Start
  <2>4. QED
    BY <2>2, <2>3
<1>3. QED
  BY <1>1, <1>2 DEF IInv, Begun, Start

LEMMA StartDoneStep ==
    ASSUME IInv, StartDone PROVE IInv'
<1>1. TypeOK'
  BY DEF IInv, TypeOK, StartDone
<1>2. AllOwned'
  BY DEF IInv, AllOwned, Owned, StartDone
<1>3. QED
  BY <1>1, <1>2 DEF IInv, Begun, StartDone

-----------------------------------------------------------------------------
(* Everyone else. *)

\* A listener may give up or go on, it never comes back.
LEMMA ListenerStep ==
    ASSUME IInv, NEW t \in Threads, Listener(t) PROVE IInv'
<1>1. /\ thread[t] \in Live
      /\ \E state \in {"listening", "accepting", "gone", "failed"} : Becomes(t, state)
  BY DEF Listener, Bind, Poll, Accept, Live, Bound
<1>2. PICK state \in {"listening", "accepting", "gone", "failed"} : Becomes(t, state)
  BY <1>1
<1>3. TypeOK'
  BY <1>2 DEF IInv, TypeOK, Becomes
<1>4. AllOwned'
  <2>1. SUFFICES ASSUME NEW u \in Threads, thread'[u] \in Live PROVE Owned(u)'
    BY DEF AllOwned
  <2>2. thread[u] \in Live
    BY <1>1, <1>2, <2>1 DEF IInv, TypeOK, Becomes
  <2>3. QED
    BY <1>2, <2>2 DEF IInv, AllOwned, Owned, Becomes
<1>5. QED
  BY <1>2, <1>3, <1>4 DEF IInv, Begun, Becomes

LEMMA ForeignStep ==
    ASSUME IInv, NEW port \in Ports, Take(port) \/ Release(port) PROVE IInv'
<1>1. TypeOK'
  BY DEF IInv, TypeOK, Take, Release
<1>2. AllOwned' /\ Begun'
  BY DEF IInv, AllOwned, Owned, Begun, Take, Release
<1>3. QED
  BY <1>1, <1>2 DEF IInv

LEMMA NextIInv == IInv /\ [Next]_vars => IInv'
<1> SUFFICES ASSUME IInv, [Next]_vars PROVE IInv'
  OBVIOUS
<1>1. CASE Apply
  BY <1>1, ApplyStep
<1>2. CASE Signal
  BY <1>2, SignalStep
<1>3. CASE Join
  BY <1>3, JoinStep
<1>4. CASE StopDone
  BY <1>4, StopDoneStep
<1>5. CASE Start
  BY <1>5, StartStep
<1>6. CASE StartDone
  BY <1>6, StartDoneStep
<1>7. ASSUME NEW t \in Threads, Listener(t) PROVE IInv'
  BY <1>7, ListenerStep
<1>8. ASSUME NEW port \in Ports, Take(port) \/ Release(port) PROVE IInv'
  BY <1>8, ForeignStep
<1>9. CASE UNCHANGED vars
  BY <1>9 DEF vars, IInv, TypeOK, Begun, AllOwned, Owned
<1>10. QED
  BY <1>1, <1>2, <1>3, <1>4, <1>5, <1>6, <1>7, <1>8, <1>9 DEF Next, Manager

\* Every live thread listens for a file in force, or for one whose handle
\* stop_all has yet to come to.
THEOREM Invariance == Spec => []IInv
<1>1. QED
  BY InitIInv, NextIInv, PTL DEF Spec

\* The manager, the handles and the threads keep their types.
THEOREM TypeCorrect == Spec => []TypeOK
<1>1. IInv => TypeOK
  BY DEF IInv
<1>2. QED
  BY <1>1, Invariance, PTL

\* start_one runs when no thread of an earlier configuration is left, and none
\* comes back afterwards: stop_all joins what it signals, handle by handle.
THEOREM NoneLeftBehind == Spec => []OldListenersGone
<1>1. IInv => OldListenersGone
  BY DEF IInv, AllOwned, Owned, OldListenersGone
<1>2. QED
  BY <1>1, Invariance, PTL

\* Nobody accepts for a service that no file asks for, also while a reload is
\* half way through its handles.
THEOREM NobodyAcceptsForNothing == Spec => []AcceptsForItsFile
<1>1. IInv => AcceptsForItsFile
  BY DEF IInv, AllOwned, Owned, ListensFor, AcceptsForItsFile
<1>2. QED
  BY <1>1, Invariance, PTL
-----------------------------------------------------------------------------
(* Every service answers. *)

\* The flags raised so far are those of configurations before the one in hand.
FlagsOfBefore == \A s \in shutdown : s.gen < gen

\* The thread that was spawned for the i-th file.
Of(i, family) == [gen |-> gen, port |-> files[i].port, family |-> family]

\* The service will answer on IPv4, and on IPv6 where it should: its thread is alive, or
\* it lost the port to its own other thread.
Answering(i) ==
    /\ \/ thread[Of(i, "v4")] \in Live
       \/ files[i].anyAddress /\ DualStack /\ thread[Of(i, "v6")] \in Bound
    /\ files[i].anyAddress =>
          \/ thread[Of(i, "v6")] \in Live
          \/ DualStack /\ thread[Of(i, "v4")] \in Bound

\* start_one has been called for the file.
Started(i) == phase = "idle" \/ (phase = "start" /\ i < k)

Answered ==
    \A i \in DOMAIN files :
        Started(i) /\ Serves(files, i) /\ Undisturbed(files[i].port) => Answering(i)

\* Before the first apply there is no service.
NothingYet == gen = 0 => files = <<>>

AnswerInv == FlagsOfBefore /\ NothingYet /\ Answered

\* The threads of a service are threads.
LEMMA ThreadsOfFiles ==
    ASSUME IInv, phase \in {"start", "idle"}, gen # 0
    PROVE  \A i \in DOMAIN files : /\ files[i] \in File
                                   /\ \A family \in Families : Of(i, family) \in Threads
<1>1. gen \in 1..MaxApplies /\ files \in Seq(File)
  BY ListenersAssumption DEF IInv, TypeOK
<1>2. \A i \in DOMAIN files : files[i] \in File
  BY <1>1
<1>3. QED
  BY <1>1, <1>2 DEF Of, Threads, File

\* Where no thread is lost and no file is started, every service still answers.
LEMMA SameAnswers ==
    ASSUME Answered, UNCHANGED <<gen, files>>,
           \A i \in DOMAIN files : Started(i)' => Started(i),
           \A t : /\ thread[t] \in Live => thread'[t] \in Live
                  /\ thread[t] \in Bound => thread'[t] \in Bound
                  /\ thread[t] = "failed" => thread'[t] = "failed"
    PROVE  Answered'
<1>1. \A i \in DOMAIN files : Undisturbed(files[i].port)' => Undisturbed(files[i].port)
  BY DEF Undisturbed
<1>2. QED
  BY <1>1 DEF Answered, Answering, Of

\* At most one file serves a port.
LEMMA OneServesAPort ==
    ASSUME files \in Seq(File),
           NEW i \in DOMAIN files, NEW j \in DOMAIN files,
           Serves(files, i), Serves(files, j), files[i].port = files[j].port
    PROVE  i = j
<1>1. i \in Nat /\ j \in Nat /\ i >= 1 /\ j >= 1
  OBVIOUS
<1>2. ~(i < j) /\ ~(j < i)
  BY <1>1 DEF Serves
<1>3. QED
  BY <1>1, <1>2

\* What is spawned for a file touches no other service.
LEMMA StartAnswers ==
    ASSUME IInv, AnswerInv, Start PROVE Answered'
<1>1. /\ phase = "start" /\ phase' = "start" /\ k \in DOMAIN files /\ k' = k + 1
      /\ UNCHANGED <<gen, files>> /\ files \in Seq(File) /\ gen # 0 /\ k \in Nat
      /\ \A i \in DOMAIN files : i \in Nat
  BY DEF Start, IInv, TypeOK, Begun
<1>2. \A t \in Threads :
         thread'[t] = IF Serves(files, k) /\ t \in Spawned(files[k]) THEN "spawned"
                      ELSE thread[t]
  BY DEF Start
<1> SUFFICES ASSUME NEW i \in DOMAIN files, i < k + 1, Serves(files, i),
                    Undisturbed(files[i].port)'
             PROVE  Answering(i)'
  BY <1>1 DEF Answered, Started
<1>3. Of(i, "v4") \in Threads /\ Of(i, "v6") \in Threads
  BY <1>1, ThreadsOfFiles DEF Families
<1>4. Of(i, "v4")' = Of(i, "v4") /\ Of(i, "v6")' = Of(i, "v6") /\ files'[i] = files[i]
  BY <1>1 DEF Of
<1>5. CASE i = k
  <2>1. Of(i, "v4") \in Spawned(files[k])
    BY <1>5 DEF Of, Spawned, FamiliesOf, Families
  <2>2. files[i].anyAddress => Of(i, "v6") \in Spawned(files[k])
    BY <1>5 DEF Of, Spawned, FamiliesOf, Families
  <2>3. QED
    BY <1>2, <1>3, <1>4, <1>5, <2>1, <2>2 DEF Answering, Live
<1>6. CASE i # k
  <2>1. i < k
    BY <1>1, <1>6
  <2>2. Serves(files, k) => files[k].port # files[i].port
    BY <1>1, <1>6, OneServesAPort
  <2>3. Undisturbed(files[i].port)
    <3>1. ASSUME NEW t \in Threads, thread[t] = "failed", t.gen = gen, t.port = files[i].port
          PROVE  FALSE
      <4>1. thread'[t] = "failed"
        BY <1>2, <2>2, <3>1 DEF Spawned
      <4>2. QED
        BY <1>1, <1>4, <3>1, <4>1 DEF Undisturbed
    <3>2. QED
      BY <1>4, <3>1 DEF Undisturbed
  <2>4. Answering(i)
    BY <1>1, <2>1, <2>3 DEF AnswerInv, Answered, Started
  <2>5. \A family : Serves(files, k) => Of(i, family) \notin Spawned(files[k])
    BY <2>2 DEF Of, Spawned
  <2>6. thread'[Of(i, "v4")] = thread[Of(i, "v4")] /\ thread'[Of(i, "v6")] = thread[Of(i, "v6")]
    BY <1>2, <1>3, <2>5
  <2>7. QED
    BY <1>4, <2>4, <2>6 DEF Answering
<1>7. QED
  BY <1>5, <1>6

\* No flag is raised for the configuration in force.
LEMMA Unflagged ==
    ASSUME IInv, AnswerInv, phase \in {"start", "idle"}, NEW t \in Threads, thread[t] \in Live
    PROVE  ~Flagged(t)
<1>1. t.gen = gen /\ gen \in Nat
  BY DEF IInv, TypeOK, AllOwned, Owned
<1>2. QED
  BY <1>1 DEF Flagged, AnswerInv, FlagsOfBefore

\* A bind that fails on a port nobody else wants has lost it to the other thread of the
\* service, on a machine where a socket on [::] serves both families.
LEMMA LosesToItsOwn ==
    ASSUME IInv, phase \in {"start", "idle"}, NEW i \in DOMAIN files, Serves(files, i),
           Undisturbed(files[i].port), NEW family \in Families, Of(i, family) \in Threads,
           thread[Of(i, family)] = "spawned", ~Available(files[i].port, family)
    PROVE  /\ DualStack
           /\ files[i].anyAddress
           /\ thread[Of(i, IF family = "v4" THEN "v6" ELSE "v4")] \in Bound
<1>1. files[i].port \notin taken /\ files \in Seq(File)
  BY DEF IInv, TypeOK, Undisturbed
<1>2. PICK u \in Threads :
         /\ thread[u] \in Bound /\ u.port = files[i].port
         /\ Covers(u.family) \cap Covers(family) # {}
  BY <1>1 DEF Available
<1>3. u.gen = gen /\ ListensFor(u, files, 1)
  BY <1>2 DEF IInv, AllOwned, Owned, Live
<1>4. PICK j \in DOMAIN files :
         Serves(files, j) /\ files[j].port = u.port /\ u.family \in FamiliesOf(files[j])
  BY <1>3 DEF ListensFor
<1>5. u.family \in FamiliesOf(files[i])
  BY <1>1, <1>2, <1>4, OneServesAPort
<1>6. u.family \in Families /\ u = Of(i, u.family)
  BY <1>2, <1>3 DEF Threads, Of
<1>7. u.family # family
  BY <1>2, <1>6 DEF Bound
<1>8. family \in FamiliesOf(files[i])
  <2>1. ListensFor(Of(i, family), files, 1)
    BY DEF IInv, AllOwned, Owned, Live
  <2>2. Of(i, family).port = files[i].port /\ Of(i, family).family = family
    BY DEF Of
  <2>3. QED
    BY <1>1, <2>1, <2>2, OneServesAPort DEF ListensFor
<1>9. DualStack
  BY <1>2, <1>6, <1>7 DEF Covers, Families
<1>10. files[i].anyAddress
  BY <1>5, <1>7, <1>8 DEF FamiliesOf
<1>11. u.family = IF family = "v4" THEN "v6" ELSE "v4"
  BY <1>6, <1>7 DEF Families
<1>12. QED
  BY <1>2, <1>6, <1>9, <1>10, <1>11

LEMMA BindAnswers ==
    ASSUME IInv, AnswerInv, NEW t \in Threads, Bind(t) PROVE Answered'
<1>1. /\ thread[t] = "spawned" /\ UNCHANGED <<gen, files, phase, k>>
      /\ thread \in [Threads -> {"none", "spawned", "listening", "accepting", "gone", "failed"}]
      /\ \A i \in DOMAIN files : Started(i)' => Started(i)
  BY DEF Bind, Becomes, IInv, TypeOK, Started
<1>2. CASE thread' = [thread EXCEPT ![t] = "listening"]
  <2>1. ASSUME NEW u PROVE /\ thread[u] \in Live => thread'[u] \in Live
                           /\ thread[u] \in Bound => thread'[u] \in Bound
                           /\ thread[u] = "failed" => thread'[u] = "failed"
    BY <1>1, <1>2 DEF Live, Bound
  <2>2. QED
    BY <1>1, <2>1, SameAnswers DEF AnswerInv
<1>3. CASE ~Available(t.port, t.family) /\ thread' = [thread EXCEPT ![t] = "gone"]
  <2>1. \A u : thread[u] = "failed" => thread'[u] = "failed"
    BY <1>1, <1>3
  <2>2. \A i \in DOMAIN files : Undisturbed(files[i].port)' => Undisturbed(files[i].port)
    BY <1>1, <2>1 DEF Undisturbed
  <2> SUFFICES ASSUME NEW i \in DOMAIN files, Started(i), Serves(files, i),
                      Undisturbed(files[i].port)
               PROVE  Answering(i)'
    BY <1>1, <2>2 DEF Answered
  <2>3. Answering(i) /\ phase \in {"start", "idle"}
    BY DEF AnswerInv, Answered, Started
  <2>4. \A u : u # t => thread'[u] = thread[u]
    BY <1>1, <1>3
  <2>5. Of(i, "v4")' = Of(i, "v4") /\ Of(i, "v6")' = Of(i, "v6") /\ files'[i] = files[i]
    BY <1>1 DEF Of
  <2>6. Of(i, "v4") # Of(i, "v6") /\ Of(i, "v4").port = files[i].port
        /\ Of(i, "v6").port = files[i].port /\ Of(i, "v4").family = "v4"
        /\ Of(i, "v6").family = "v6"
    BY DEF Of
  <2>7. CASE t = Of(i, "v4")
    <3>1. DualStack /\ files[i].anyAddress /\ thread[Of(i, "v6")] \in Bound
      BY <1>1, <1>3, <2>3, <2>6, <2>7, LosesToItsOwn DEF Families
    <3>2. QED
      BY <2>4, <2>5, <2>6, <2>7, <3>1 DEF Answering, Live
  <2>8. CASE t = Of(i, "v6")
    <3>1. DualStack /\ thread[Of(i, "v4")] \in Bound
      BY <1>1, <1>3, <2>3, <2>6, <2>8, LosesToItsOwn DEF Families
    <3>2. QED
      BY <2>4, <2>5, <2>6, <2>8, <3>1 DEF Answering, Live
  <2>9. CASE t # Of(i, "v4") /\ t # Of(i, "v6")
    BY <2>3, <2>4, <2>5, <2>9 DEF Answering
  <2>10. QED
    BY <2>7, <2>8, <2>9
<1>4. CASE thread' = [thread EXCEPT ![t] = "failed"]
  <2>1. \A u : u # t => thread'[u] = thread[u]
    BY <1>4
  <2>2. thread'[t] = "failed"
    BY <1>1, <1>4
  <2>3. \A i \in DOMAIN files : Undisturbed(files[i].port)' => Undisturbed(files[i].port)
    BY <1>1, <2>1, <2>2 DEF Undisturbed
  <2> SUFFICES ASSUME NEW i \in DOMAIN files, Started(i), Serves(files, i),
                      Undisturbed(files[i].port)'
               PROVE  Answering(i)'
    BY <1>1 DEF Answered
  <2>4. Answering(i)
    BY <2>3 DEF AnswerInv, Answered
  <2>5. t.gen # gen \/ t.port # files[i].port
    BY <1>1, <2>2 DEF Undisturbed
  <2>6. t # Of(i, "v4") /\ t # Of(i, "v6")
    BY <2>5 DEF Of
  <2>7. Of(i, "v4")' = Of(i, "v4") /\ Of(i, "v6")' = Of(i, "v6") /\ files'[i] = files[i]
    BY <1>1 DEF Of
  <2>8. QED
    BY <2>1, <2>4, <2>6, <2>7 DEF Answering
<1>5. QED
  BY <1>2, <1>3, <1>4 DEF Bind, Becomes

\* A bound thread goes on as long as its configuration is in force.
LEMMA PollAnswers ==
    ASSUME IInv, AnswerInv, NEW t \in Threads, Poll(t) \/ Accept(t) PROVE Answered'
<1>1. /\ thread[t] \in Bound /\ UNCHANGED <<gen, files, phase, k>>
      /\ thread \in [Threads -> {"none", "spawned", "listening", "accepting", "gone", "failed"}]
      /\ \A i \in DOMAIN files : Started(i)' => Started(i)
      /\ \E state : thread' = [thread EXCEPT ![t] = state]
  BY DEF Poll, Accept, Becomes, IInv, TypeOK, Started, Bound
<1>2. CASE phase \in {"start", "idle"}
  <2>1. ~Flagged(t)
    BY <1>1, <1>2, Unflagged DEF Live
  <2>2. thread'[t] \in Bound
    BY <1>1, <2>1 DEF Poll, Accept, Becomes, Bound
  <2>3. ASSUME NEW u PROVE /\ thread[u] \in Live => thread'[u] \in Live
                           /\ thread[u] \in Bound => thread'[u] \in Bound
                           /\ thread[u] = "failed" => thread'[u] = "failed"
    BY <1>1, <2>2 DEF Live, Bound
  <2>4. QED
    BY <1>1, <2>3, SameAnswers DEF AnswerInv
<1>3. CASE phase \notin {"start", "idle"}
  BY <1>1, <1>3 DEF Answered, Started
<1>4. QED
  BY <1>2, <1>3

LEMMA NextAnswers == IInv /\ AnswerInv /\ [Next]_vars => AnswerInv'
<1> SUFFICES ASSUME IInv, AnswerInv, [Next]_vars PROVE AnswerInv'
  OBVIOUS
<1>1. /\ gen \in Nat /\ shutdown \subseteq [gen : 0..MaxApplies, port : Ports]
      /\ FlagsOfBefore /\ NothingYet /\ Answered
  BY ListenersAssumption DEF IInv, TypeOK, AnswerInv
<1>2. CASE Apply
  <2>1. FlagsOfBefore'
    <3>1. ASSUME NEW s \in shutdown PROVE s.gen < gen + 1
      <4>1. s.gen < gen /\ s.gen \in Nat
        BY <1>1 DEF FlagsOfBefore
      <4>2. QED
        BY <1>1, <4>1
    <3>2. QED
      BY <1>2, <3>1 DEF Apply, FlagsOfBefore
  <2>2. QED
    BY <1>1, <1>2, <2>1 DEF Apply, AnswerInv, NothingYet, Answered, Started
<1>3. CASE Signal
  <2>1. FlagsOfBefore'
    BY <1>1, <1>3 DEF Signal, FlagsOfBefore
  <2>2. QED
    BY <1>1, <1>3, <2>1 DEF Signal, AnswerInv, NothingYet, Answered, Started
<1>4. CASE Join
  BY <1>1, <1>4 DEF Join, AnswerInv, FlagsOfBefore, NothingYet, Answered, Started
<1>5. CASE StopDone
  <2>1. \A i \in DOMAIN files : ~(i < 1)
    BY DEF IInv, TypeOK
  <2>2. QED
    BY <1>1, <1>5, <2>1 DEF StopDone, AnswerInv, FlagsOfBefore, NothingYet, Answered, Started
<1>6. CASE Start
  BY <1>1, <1>6, StartAnswers DEF Start, AnswerInv, FlagsOfBefore, NothingYet
<1>7. CASE StartDone
  <2>1. \A i \in DOMAIN files : i < k
    BY <1>7 DEF StartDone, IInv, TypeOK
  <2>2. phase = "start" /\ UNCHANGED <<gen, files, thread, shutdown>>
    BY <1>7 DEF StartDone
  <2>3. \A i \in DOMAIN files : Started(i)' => Started(i)
    BY <2>1, <2>2 DEF Started
  <2>4. QED
    BY <1>1, <2>2, <2>3, SameAnswers DEF AnswerInv, FlagsOfBefore, NothingYet
<1>8. ASSUME NEW t \in Threads, Listener(t) PROVE AnswerInv'
  <2>1. Answered'
    BY <1>8, BindAnswers, PollAnswers DEF Listener
  <2>2. UNCHANGED <<gen, files, shutdown>>
    BY <1>8 DEF Listener, Bind, Poll, Accept, Becomes
  <2>3. QED
    BY <1>1, <2>1, <2>2 DEF AnswerInv, FlagsOfBefore, NothingYet
<1>9. ASSUME NEW port \in Ports, Take(port) \/ Release(port) PROVE AnswerInv'
  BY <1>1, <1>9 DEF Take, Release, AnswerInv, FlagsOfBefore, NothingYet, Answered, Started, Answering, Of,
                       Undisturbed
<1>10. CASE UNCHANGED vars
  BY <1>1, <1>10 DEF vars, AnswerInv, FlagsOfBefore, NothingYet, Answered, Started, Answering, Of,
                   Undisturbed
<1>11. QED
  BY <1>2, <1>3, <1>4, <1>5, <1>6, <1>7, <1>8, <1>9, <1>10 DEF Next, Manager

\* After every reload each service answers on its port, whatever the configuration
\* before held and in whatever order the threads come to bind: every thread of that
\* configuration has returned (NoneLeftBehind) and no flag is raised for the new one, so
\* that a bind can be lost only to the other thread of the same service.
THEOREM ServedAlways == Spec => []ServedOnItsPort
<1>1. Init => AnswerInv
  BY DEF Init, AnswerInv, FlagsOfBefore, NothingYet, Answered
<1>2. IInv /\ AnswerInv => ServedOnItsPort
  <2> SUFFICES ASSUME IInv, AnswerInv, Settled, NEW i \in DOMAIN files,
                      Serves(files, i), Undisturbed(files[i].port)
               PROVE  /\ Reachable(files[i].port, "v4")
                      /\ files[i].anyAddress =>
                            \/ Reachable(files[i].port, "v6")
                            \/ DualStack /\ thread[Of(i, "v4")] \in Bound
    BY DEF ServedOnItsPort, Of
  <2>1. Answering(i) /\ phase = "idle"
    BY DEF AnswerInv, Answered, Started, Settled
  <2>2. thread \in [Threads -> {"none", "spawned", "listening", "accepting", "gone", "failed"}]
    BY DEF IInv, TypeOK
  <2>3. CASE gen = 0
    <3>1. QED
      BY <2>3 DEF AnswerInv, NothingYet
  <2>4. CASE gen # 0
    <3>1. Of(i, "v4") \in Threads /\ Of(i, "v6") \in Threads
      BY <2>1, <2>4, ThreadsOfFiles DEF Families
    <3>2. \A family \in Families :
              Of(i, family) \in Threads /\ thread[Of(i, family)] \in Live =>
                  thread[Of(i, family)] \in Bound /\ Reachable(files[i].port, family)
      <4>1. ASSUME NEW family \in Families, Of(i, family) \in Threads,
                   thread[Of(i, family)] \in Live
            PROVE  thread[Of(i, family)] \in Bound /\ Reachable(files[i].port, family)
        <5>1. thread[Of(i, family)] \in Bound
          BY <4>1 DEF Settled, Live
        <5>2. /\ Of(i, family).port = files[i].port /\ Of(i, family).family = family
              /\ family \in Covers(family)
          BY DEF Of, Covers, Families
        <5>3. QED
          BY <4>1, <5>1, <5>2 DEF Reachable
      <4>2. QED
        BY <4>1
    <3>3. DualStack /\ thread[Of(i, "v6")] \in Bound => Reachable(files[i].port, "v4")
      <4>1. Of(i, "v6").port = files[i].port /\ Of(i, "v6").family = "v6"
        BY DEF Of
      <4>2. DualStack => "v4" \in Covers("v6")
        BY DEF Covers, Families
      <4>3. QED
        BY <3>1, <4>1, <4>2 DEF Reachable
    <3>4. QED
      BY <2>1, <3>1, <3>2, <3>3 DEF Answering, Families
  <2>5. QED
    BY <2>3, <2>4
<1>3. QED
  BY <1>1, <1>2, NextAnswers, Invariance, InitIInv, NextIInv, PTL DEF Spec
=============================================================================
