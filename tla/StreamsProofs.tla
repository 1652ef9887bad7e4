---------------------------- MODULE StreamsProofs ----------------------------
(***************************************************************************)
(* Proofs about Streams, and so about TcpRelay and BodyRewrite, for any    *)
(* number of bytes, any way the two copying threads, the joining thread    *)
(* and the peers interleave, and any way a response comes in pieces.       *)
(***************************************************************************)
EXTENDS Streams, SequenceTheorems, TLAPS

-----------------------------------------------------------------------------
(* A connection to a TCP service: TcpRelay. *)

\* A direction is over once its thread has returned without an error: what its
\* source sent was passed on, and the source sends no more.
Over(d) == passed[d] = sent[Relay!Source(d)] /\ peer[Relay!Source(d)] # "open"

\* The order of the joins: a thread joined as a success ran to the end of its
\* source, and the counts of a line without an error are those of both threads.
Joined ==
    /\ \A d \in Relay!Directions : copy[d] = "ok" => Over(d)
    /\ main = "join_down" => copy["up"] = "ok"
    /\ main = "done" /\ ~line.error =>
          /\ copy["up"] = "ok" /\ copy["down"] = "ok"
          /\ line.up = passed["up"] /\ line.down = passed["down"]

RelayInv == Relay!TypeOK /\ Joined

Line == [error : BOOLEAN, up : 0..MaxBytes, down : 0..MaxBytes]

LEMMA Ends ==
    /\ Relay!Source("up") = "client" /\ Relay!Source("down") = "server"
    /\ Relay!Directions = {"up", "down"} /\ Relay!Peers = {"client", "server"}
    /\ \A d \in Relay!Directions : Relay!Source(d) \in Relay!Peers /\ Relay!Sink(d) \in Relay!Peers
BY DEF Relay!Source, Relay!Sink, Relay!Directions, Relay!Peers

\* What is counted is within the bound, and a line of counts is a line.
LEMMA Counts ==
    Relay!TypeOK => \A d \in Relay!Directions :
        /\ passed[d] \in 0..MaxBytes /\ arrived[d] \in 0..MaxBytes
        /\ sent[Relay!Source(d)] \in 0..MaxBytes
        /\ arrived[d] <= passed[d] /\ passed[d] <= sent[Relay!Source(d)]
<1> SUFFICES ASSUME Relay!TypeOK, NEW d \in Relay!Directions
             PROVE  /\ passed[d] \in 0..MaxBytes /\ arrived[d] \in 0..MaxBytes
                    /\ sent[Relay!Source(d)] \in 0..MaxBytes
                    /\ arrived[d] <= passed[d] /\ passed[d] <= sent[Relay!Source(d)]
  OBVIOUS
<1>1. Relay!Source(d) \in Relay!Peers
  BY Ends
<1>2. sent[Relay!Source(d)] \in 0..MaxBytes
  BY <1>1 DEF Relay!TypeOK
<1>3. QED
  BY <1>2 DEF Relay!TypeOK

LEMMA Lines ==
    \A e \in BOOLEAN, up \in 0..MaxBytes, down \in 0..MaxBytes :
        Relay!Log(e, up, down) =>
            /\ line' \in Line
            /\ line'.error = e /\ line'.up = up /\ line'.down = down
BY DEF Relay!Log, Line

LEMMA InitRelay == Relay!Init => RelayInv
BY RelayAssumption, Ends DEF Relay!Init, RelayInv, Relay!TypeOK, Joined, Relay!NoLine

-----------------------------------------------------------------------------
(* The peers. *)

LEMMA SendStep == ASSUME RelayInv, NEW p \in Relay!Peers, Relay!Send(p) PROVE RelayInv'
<1> DEFINE n == sent[p] + 1
<1>1. sent \in [Relay!Peers -> 0..MaxBytes] /\ sent' = [sent EXCEPT ![p] = n] /\ sent[p] < MaxBytes
  BY DEF RelayInv, Relay!TypeOK, Relay!Send
<1>2. sent[p] \in 0..MaxBytes
  BY <1>1
<1>3. n \in 0..MaxBytes /\ sent[p] <= n
  BY <1>1, <1>2, RelayAssumption
<1> HIDE DEF n
<1>4. sent' \in [Relay!Peers -> 0..MaxBytes]
  BY <1>1, <1>3
<1>5. \A q \in Relay!Peers : sent[q] <= sent'[q]
  <2>1. \A q \in Relay!Peers : sent[q] <= sent[q]
    BY <1>1, RelayAssumption
  <2>2. QED
    BY <1>1, <1>3, <2>1
<1>6. Relay!TypeOK'
  <2>1. ASSUME NEW d \in Relay!Directions PROVE arrived[d] <= passed[d] /\ passed[d] <= sent'[Relay!Source(d)]
    <3>1. /\ passed[d] \in 0..MaxBytes /\ arrived[d] <= passed[d]
          /\ sent[Relay!Source(d)] \in 0..MaxBytes /\ passed[d] <= sent[Relay!Source(d)]
      BY Counts DEF RelayInv
    <3>2. sent[Relay!Source(d)] <= sent'[Relay!Source(d)] /\ sent'[Relay!Source(d)] \in 0..MaxBytes
      BY <1>4, <1>5, Ends
    <3>3. QED
      BY <3>1, <3>2, RelayAssumption
  <2>2. QED
    BY <1>4, <2>1 DEF RelayInv, Relay!TypeOK, Relay!Send
<1>7. Joined'
  BY Ends DEF RelayInv, Relay!TypeOK, Joined, Over, Relay!Send
<1>8. QED
  BY <1>6, <1>7 DEF RelayInv

LEMMA CloseStep == ASSUME RelayInv, NEW p \in Relay!Peers, Relay!Close(p) \/ Relay!Leave(p) PROVE RelayInv'
<1>1. \E how \in {"closed", "gone"} : peer' = [peer EXCEPT ![p] = how]
  BY DEF Relay!Close, Relay!Leave
<1>2. UNCHANGED <<main, copy, sent, passed, arrived, line>>
  BY DEF Relay!Close, Relay!Leave
<1>3. Relay!TypeOK'
  BY <1>1, <1>2 DEF RelayInv, Relay!TypeOK
<1>4. Joined'
  BY <1>1, <1>2, Ends DEF RelayInv, Relay!TypeOK, Joined, Over
<1>5. QED
  BY <1>3, <1>4 DEF RelayInv

-----------------------------------------------------------------------------
(* relay_connection *)

\* A line that names an error asks for nothing.
LEMMA ErrorLine ==
    ASSUME RelayInv, UNCHANGED <<peer, sent, passed, arrived>>, UNCHANGED copy,
           main' \in {"refused", "done"}, NEW up \in 0..MaxBytes, Relay!Log(TRUE, up, 0),
           main' = "refused" <=> copy["up"] = "off",
           copy["up"] = "off" <=> copy["down"] = "off"
    PROVE  RelayInv'
<1>1. line' \in Line /\ line'.error = TRUE
  BY RelayAssumption DEF Relay!Log, Line
<1>2. Relay!TypeOK'
  BY <1>1, Ends DEF RelayInv, Relay!TypeOK, Line
<1>3. Joined'
  BY <1>1 DEF RelayInv, Joined, Over
<1>4. QED
  BY <1>2, <1>3 DEF RelayInv

LEMMA ConnectStep == ASSUME RelayInv, Relay!Connect \/ Relay!Clone PROVE RelayInv'
<1>1. /\ main \in {"connect", "clone"} /\ copy["up"] = "off" /\ copy["down"] = "off"
      /\ UNCHANGED <<peer, sent, passed, arrived>>
  BY Ends DEF RelayInv, Relay!TypeOK, Relay!Connect, Relay!Clone
<1>2. CASE main' = "refused"
  <2>1. Relay!Log(TRUE, 0, 0) /\ UNCHANGED copy
    BY <1>2 DEF Relay!Connect, Relay!Clone
  <2>2. 0 \in 0..MaxBytes
    BY RelayAssumption
  <2>3. QED
    BY <1>1, <1>2, <2>1, <2>2, ErrorLine
<1>3. CASE main' = "clone"
  BY <1>1, <1>3, Ends DEF Relay!Connect, Relay!Clone, RelayInv, Relay!TypeOK, Joined, Over
<1>4. CASE main' = "join_up"
  <2>1. copy' = [d \in Relay!Directions |-> "running"] /\ line' = line
    BY <1>1, <1>4 DEF Relay!Connect, Relay!Clone
  <2>2. Relay!TypeOK'
    BY <1>1, <1>4, <2>1, Ends DEF RelayInv, Relay!TypeOK
  <2>3. Joined'
    BY <1>1, <1>4, <2>1, Ends DEF RelayInv, Joined, Over
  <2>4. QED
    BY <2>2, <2>3 DEF RelayInv
<1>5. QED
  BY <1>2, <1>3, <1>4 DEF Relay!Connect, Relay!Clone

LEMMA JoinUpStep == ASSUME RelayInv, Relay!JoinUp PROVE RelayInv'
<1>1. /\ main = "join_up" /\ copy["up"] # "off" /\ copy["down"] # "off"
      /\ UNCHANGED <<copy, peer, sent, passed, arrived>>
  BY Ends DEF RelayInv, Relay!TypeOK, Relay!JoinUp
<1>2. CASE copy["up"] = "ok" /\ main' = "join_down" /\ line' = line
  BY <1>1, <1>2, Ends DEF RelayInv, Relay!TypeOK, Joined, Over
<1>3. CASE main' = "done" /\ Relay!Log(TRUE, 0, 0)
  <2>1. 0 \in 0..MaxBytes
    BY RelayAssumption
  <2>2. QED
    BY <1>1, <1>3, <2>1, ErrorLine
<1>4. QED
  BY <1>2, <1>3 DEF Relay!JoinUp

\* The last join writes down what both threads passed on.
LEMMA JoinDownStep == ASSUME RelayInv, Relay!JoinDown PROVE RelayInv'
<1>1. /\ main = "join_down" /\ main' = "done" /\ copy["up"] = "ok" /\ copy["down"] # "off"
      /\ UNCHANGED <<copy, peer, sent, passed, arrived>>
  BY Ends DEF RelayInv, Relay!TypeOK, Joined, Relay!JoinDown
<1>2. passed["up"] \in 0..MaxBytes /\ passed["down"] \in 0..MaxBytes
  BY Ends DEF RelayInv, Relay!TypeOK
<1>3. CASE copy["down"] = "ok" /\ Relay!Log(FALSE, passed["up"], passed["down"])
  <2>1. line' \in Line /\ line'.up = passed["up"] /\ line'.down = passed["down"]
    BY <1>2, <1>3, Lines
  <2>2. Relay!TypeOK'
    BY <1>1, <2>1, Ends DEF RelayInv, Relay!TypeOK, Line
  <2>3. Joined'
    BY <1>1, <1>3, <2>1 DEF RelayInv, Joined, Over
  <2>4. QED
    BY <2>2, <2>3 DEF RelayInv
<1>4. CASE Relay!Log(TRUE, passed["up"], 0)
  BY <1>1, <1>2, <1>4, ErrorLine
<1>5. QED
  BY <1>3, <1>4 DEF Relay!JoinDown

-----------------------------------------------------------------------------
(* The copying threads. *)

\* A thread returns without an error only at the end of what its source sent.
LEMMA ReturnStep ==
    ASSUME RelayInv, NEW d \in Relay!Directions, NEW how \in {"ok", "error"}, Relay!Returns(d, how),
           copy[d] = "running", how = "ok" => Over(d),
           UNCHANGED <<main, peer, sent, passed, arrived, line>>
    PROVE  RelayInv'
<1>1. copy' = [copy EXCEPT ![d] = how] /\ copy \in [Relay!Directions -> {"off", "running", "ok", "error"}]
  BY DEF Relay!Returns, RelayInv, Relay!TypeOK
<1>2. Relay!TypeOK'
  BY <1>1 DEF RelayInv, Relay!TypeOK
<1>3. \A e \in Relay!Directions : copy'[e] = "ok" => Over(e)
  BY <1>1 DEF RelayInv, Joined
<1>4. \A e \in Relay!Directions : copy[e] = "ok" => copy'[e] = "ok"
  BY <1>1
<1>5. Joined'
  BY <1>3, <1>4, Ends DEF RelayInv, Joined, Over
<1>6. QED
  BY <1>2, <1>5 DEF RelayInv

LEMMA ForwardStep == ASSUME RelayInv, NEW d \in Relay!Directions, Relay!Forward(d) PROVE RelayInv'
<1>1. CASE Relay!Returns(d, "error") /\ UNCHANGED <<passed, arrived>>
  BY <1>1, ReturnStep DEF Relay!Forward
<1>2. CASE /\ passed' = [passed EXCEPT ![d] = @ + 1]
           /\ arrived' = IF peer[Relay!Sink(d)] = "gone" THEN arrived
                         ELSE [arrived EXCEPT ![d] = @ + 1]
           /\ UNCHANGED copy
  <2>1. /\ copy[d] = "running" /\ passed[d] < sent[Relay!Source(d)]
        /\ UNCHANGED <<main, copy, peer, sent, line>>
    BY <1>2 DEF Relay!Forward
  <2>2. /\ passed[d] + 1 \in 0..MaxBytes /\ passed[d] + 1 <= sent[Relay!Source(d)]
        /\ arrived[d] + 1 \in 0..MaxBytes /\ arrived[d] + 1 <= passed[d] + 1
        /\ arrived[d] <= passed[d] + 1
    BY <2>1, Counts, RelayAssumption DEF RelayInv
  <2>3. passed' \in [Relay!Directions -> 0..MaxBytes] /\ arrived' \in [Relay!Directions -> 0..MaxBytes]
    BY <1>2, <2>2 DEF RelayInv, Relay!TypeOK
  <2>4. /\ passed'[d] = passed[d] + 1 /\ (arrived'[d] = arrived[d] \/ arrived'[d] = arrived[d] + 1)
        /\ \A e \in Relay!Directions \ {d} : passed'[e] = passed[e] /\ arrived'[e] = arrived[e]
    BY <1>2 DEF RelayInv, Relay!TypeOK
  <2>5. \A e \in Relay!Directions : arrived'[e] <= passed'[e] /\ passed'[e] <= sent[Relay!Source(e)]
    BY <2>2, <2>4 DEF RelayInv, Relay!TypeOK
  <2>6. Relay!TypeOK'
    BY <2>1, <2>3, <2>5 DEF RelayInv, Relay!TypeOK
  <2>7. Joined'
    BY <2>1, <2>4, Ends DEF RelayInv, Joined, Over
  <2>8. QED
    BY <2>6, <2>7 DEF RelayInv
<1>3. QED
  BY <1>1, <1>2 DEF Relay!Forward

LEMMA EndOfSourceStep == ASSUME RelayInv, NEW d \in Relay!Directions, Relay!EndOfSource(d) PROVE RelayInv'
BY ReturnStep DEF Relay!EndOfSource, Over

LEMMA NextRelay == RelayInv /\ [Relay!Next]_relayVars => RelayInv'
<1> SUFFICES ASSUME RelayInv, [Relay!Next]_relayVars PROVE RelayInv'
  OBVIOUS
<1>1. CASE Relay!Main
  BY <1>1, ConnectStep, JoinUpStep, JoinDownStep DEF Relay!Main
<1>2. ASSUME NEW d \in Relay!Directions, Relay!Copying(d) PROVE RelayInv'
  BY <1>2, ForwardStep, EndOfSourceStep DEF Relay!Copying
<1>3. ASSUME NEW p \in Relay!Peers, Relay!Send(p) \/ Relay!Close(p) \/ Relay!Leave(p) PROVE RelayInv'
  BY <1>3, SendStep, CloseStep
<1>4. CASE UNCHANGED relayVars
  BY <1>4 DEF RelayInv, Relay!TypeOK, Joined, Over, relayVars
<1>5. QED
  BY <1>1, <1>2, <1>3, <1>4 DEF Relay!Next

-----------------------------------------------------------------------------
(* A connection to the HTTP proxy: BodyRewrite. *)

\* The numbers of consecutive bytes, up to the one that came last of them.
RunUpTo(s, n) == \A i \in 1..Len(s) : s[i] = n - Len(s) + i

BodyShape ==
    /\ upstream \in Body!Upstream /\ response \in Body!Response
    /\ retries \in 0..MaxRetries
    /\ stage \in {"request", "header", "body", "end"}
    /\ declared \in BOOLEAN
    /\ state \in [rewrite : BOOLEAN, buffer : Seq(Nat)]
    /\ out \in Seq(Nat)
    /\ came \in 0..MaxBody
    /\ Len(state.buffer) <= Limit

USE DEF Body!Untouched, Body!Needs

\* Before the answer of the upstream there is nothing to hold, and a request that
\* is on its first attempt has no state.
Fresh ==
    /\ stage \in {"request", "header"} =>
          came = 0 /\ out = <<>> /\ state.buffer = <<>>
    /\ stage = "request" /\ retries = 0 => ~state.rewrite

\* What left and what is held back are two runs of bytes, the second up to the last
\* that came, the first up to where the second begins.
Ordered ==
    /\ Len(out) + Len(state.buffer) <= came
    /\ RunUpTo(out, came - Len(state.buffer))
    /\ RunUpTo(state.buffer, came)

\* A body either passes or is held back, never both.
Held ==
    /\ ~state.rewrite \/ stage = "end" => state.buffer = <<>>
    /\ state.rewrite /\ stage # "end" => out = <<>>

Complete == came = Len(out) + Len(state.buffer)

\* Bytes are missing only behind a body that outgrew the limit or, at its end, was
\* not UTF-8; never if this upstream is not rewritten, nor under a length that was
\* promised to the client.
LostForCause ==
    /\ (stage = "end" => response.utf8) /\ came <= Limit => Complete
    /\ stage \in {"header", "body"} /\ Body!Untouched =>
          ~state.rewrite /\ Complete
    /\ stage \in {"body", "end"} /\ response.text /\ declared =>
          ~state.rewrite /\ Complete

BodyInv == BodyShape /\ Fresh /\ Ordered /\ Held /\ LostForCause

\* Runs of bytes in a row make one.
LEMMA RunsJoin ==
    ASSUME NEW s \in Seq(Nat), NEW t \in Seq(Nat), NEW n \in Nat,
           RunUpTo(s, n - Len(t)), RunUpTo(t, n), Len(s) + Len(t) <= n
    PROVE  /\ s \o t \in Seq(Nat) /\ Len(s \o t) = Len(s) + Len(t)
           /\ RunUpTo(s \o t, n)
<1>1. s \o t \in Seq(Nat) /\ Len(s \o t) = Len(s) + Len(t)
  BY ConcatProperties
<1>2. Len(s) \in Nat /\ Len(t) \in Nat
  BY LenProperties
<1>3. ASSUME NEW i \in 1..(Len(s) + Len(t)) PROVE (s \o t)[i] = n - (Len(s) + Len(t)) + i
  <2>1. (s \o t)[i] = IF i <= Len(s) THEN s[i] ELSE t[i - Len(s)]
    BY ConcatProperties
  <2>2. CASE i <= Len(s)
    <3>1. i \in 1..Len(s)
      BY <1>2, <2>2
    <3>2. s[i] = (n - Len(t)) - Len(s) + i
      BY <3>1 DEF RunUpTo
    <3>3. QED
      BY <1>2, <2>1, <2>2, <3>2
  <2>3. CASE ~(i <= Len(s))
    <3>1. i - Len(s) \in 1..Len(t)
      BY <1>2, <2>3
    <3>2. t[i - Len(s)] = n - Len(t) + (i - Len(s))
      BY <3>1 DEF RunUpTo
    <3>3. QED
      BY <1>2, <2>1, <2>3, <3>2
  <2>4. QED
    BY <2>2, <2>3
<1>4. QED
  BY <1>1, <1>3 DEF RunUpTo

LEMMA EmptyRun == \A n \in Int : RunUpTo(<<>>, n) /\ <<>> \in Seq(Nat) /\ Len(<<>>) = 0
BY EmptySeq DEF RunUpTo

\* A chunk is the run of bytes that comes next.
LEMMA ChunkRun ==
    ASSUME came \in Nat, NEW n \in Nat
    PROVE  /\ Body!Chunk(n) \in Seq(Nat) /\ Len(Body!Chunk(n)) = n
           /\ RunUpTo(Body!Chunk(n), came + n)
<1>1. Body!Chunk(n) \in [1..n -> Nat]
  BY DEF Body!Chunk
<1>2. Body!Chunk(n) \in Seq(Nat)
  BY <1>1, SeqDef
<1>3. Len(Body!Chunk(n)) = n
  BY <1>1, <1>2, LenProperties DEF Body!Chunk
<1>4. \A i \in 1..n : Body!Chunk(n)[i] = (came + n) - n + i
  BY DEF Body!Chunk
<1>5. QED
  BY <1>2, <1>3, <1>4 DEF RunUpTo

LEMMA StateUpdates ==
    \A r \in [rewrite : BOOLEAN, buffer : Seq(Nat)], b \in Seq(Nat) :
        /\ [r EXCEPT !.buffer = b] \in [rewrite : BOOLEAN, buffer : Seq(Nat)]
        /\ [r EXCEPT !.buffer = b].buffer = b
        /\ [r EXCEPT !.buffer = b].rewrite = r.rewrite
        /\ [r EXCEPT !.rewrite = FALSE, !.buffer = b] \in [rewrite : BOOLEAN, buffer : Seq(Nat)]
        /\ [r EXCEPT !.rewrite = FALSE, !.buffer = b].buffer = b
        /\ [r EXCEPT !.rewrite = FALSE, !.buffer = b].rewrite = FALSE
OBVIOUS

LEMMA InitBody == Body!Init => BodyInv
<1> SUFFICES ASSUME Body!Init PROVE BodyInv
  OBVIOUS
<1>1. /\ upstream \in Body!Upstream /\ response \in Body!Response /\ retries = 0
      /\ stage = "request" /\ declared = TRUE /\ came = 0 /\ out = <<>>
      /\ state = [rewrite |-> FALSE, buffer |-> <<>>]
  BY DEF Body!Init, Body!NoState
<1>2. /\ <<>> \in Seq(Nat) /\ Len(<<>>) = 0 /\ RunUpTo(<<>>, 0)
  BY EmptyRun
<1>3. state.buffer = <<>> /\ state.rewrite = FALSE
  BY <1>1
<1>4. BodyShape
  BY <1>1, <1>2, <1>3, RewriteAssumption DEF BodyShape
<1>5. Ordered
  BY <1>1, <1>2, <1>3 DEF Ordered
<1>6. Fresh /\ Held /\ LostForCause
  BY <1>1, <1>2, <1>3 DEF Fresh, Held, LostForCause, Complete
<1>7. QED
  BY <1>4, <1>5, <1>6 DEF BodyInv

-----------------------------------------------------------------------------
(* Before the body. *)

LEMMA NothingCame ==
    ASSUME stage \in {"request", "header"}, BodyInv
    PROVE  /\ came = 0 /\ out = <<>> /\ state.buffer = <<>>
           /\ Len(out) = 0 /\ Len(state.buffer) = 0
BY EmptyRun DEF BodyInv, Fresh

\* While nothing came, nothing is out of order or missing.
LEMMA NothingMissing ==
    ASSUME came = 0, out = <<>>, state.buffer = <<>>
    PROVE  Ordered /\ Complete
BY EmptyRun DEF Ordered, Complete

LEMMA PrepareStep == ASSUME BodyInv, Body!Prepare PROVE BodyInv'
<1>1. /\ stage = "request" /\ stage' = "header"
      /\ UNCHANGED <<upstream, retries, response, declared, came, out>>
  BY DEF Body!Prepare
<1>2. /\ came = 0 /\ out = <<>> /\ state.buffer = <<>>
  BY <1>1, NothingCame
<1>3. {upstream.found, upstream.base, upstream.foreign} \subseteq BOOLEAN
  BY DEF BodyInv, BodyShape, Body!Upstream
<1>4. /\ state' \in [rewrite : BOOLEAN, buffer : Seq(Nat)] /\ state'.buffer = <<>>
      /\ Body!Untouched => ~state'.rewrite
  <2>1. CASE Body!Needs(upstream)
    <3>1. state' = [rewrite |-> upstream.base, buffer |-> <<>>]
      BY <2>1 DEF Body!Prepare
    <3>2. upstream.base \in BOOLEAN /\ <<>> \in Seq(Nat)
      BY <1>3, EmptyRun
    <3>3. /\ state' \in [rewrite : BOOLEAN, buffer : Seq(Nat)] /\ state'.buffer = <<>>
          /\ state'.rewrite = upstream.base
      BY <3>1, <3>2
    <3>4. upstream.found
      BY <2>1 DEF Body!Needs
    <3>5. Body!Untouched => ~upstream.base
      BY <3>4 DEF Body!Untouched
    <3>6. QED
      BY <3>3, <3>5
  <2>2. CASE ~Body!Needs(upstream)
    <3>1. state' = state
      BY <2>2 DEF Body!Prepare
    <3>2. QED
      BY <1>1, <1>2, <2>2, <3>1 DEF BodyInv, BodyShape, Fresh
  <2>3. QED
    BY <2>1, <2>2
<1>5. came' = 0 /\ out' = <<>> /\ state'.buffer = <<>>
  BY <1>1, <1>2, <1>4
<1>6. Ordered' /\ Complete'
  BY <1>5, EmptyRun DEF Ordered, Complete
<1>7. BodyShape'
  BY <1>1, <1>4, EmptyRun, RewriteAssumption DEF BodyInv, BodyShape
<1>8. Fresh' /\ Held'
  BY <1>1, <1>5 DEF Fresh, Held
<1>9. LostForCause'
  BY <1>1, <1>4, <1>6 DEF LostForCause
<1>10. QED
  BY <1>6, <1>7, <1>8, <1>9 DEF BodyInv

LEMMA RetryStep == ASSUME BodyInv, Body!Retry PROVE BodyInv'
<1>1. /\ stage = "header" /\ stage' = "request" /\ retries' = retries + 1
      /\ retries < MaxRetries /\ upstream' \in Body!Upstream
      /\ UNCHANGED <<response, declared, state, came, out>>
  BY DEF Body!Retry
<1>2. came = 0 /\ out = <<>> /\ state.buffer = <<>>
  BY <1>1, NothingCame
<1>3. retries \in 0..MaxRetries
  BY DEF BodyInv, BodyShape
<1>4. retries' \in 0..MaxRetries /\ retries' # 0
  BY <1>1, <1>3, RewriteAssumption
<1>5. BodyShape'
  BY <1>1, <1>4 DEF BodyInv, BodyShape
<1>6. Ordered' /\ Complete'
  BY <1>1, <1>2, EmptyRun DEF Ordered, Complete
<1>7. Fresh' /\ Held'
  BY <1>1, <1>2, <1>4 DEF BodyInv, Fresh, Held
<1>8. LostForCause'
  BY <1>1, <1>6 DEF LostForCause
<1>9. QED
  BY <1>5, <1>6, <1>7, <1>8 DEF BodyInv

\* Content-Length stays only where the body is not rewritten, or is no text.
LEMMA ResponseFilterStep == ASSUME BodyInv, Body!ResponseFilter PROVE BodyInv'
<1>1. /\ stage = "header" /\ stage' = "body" /\ declared' = ~(state.rewrite /\ response.text)
      /\ UNCHANGED <<upstream, retries, response, state, came, out>>
  BY DEF Body!ResponseFilter
<1>2. came = 0 /\ out = <<>> /\ state.buffer = <<>>
  BY <1>1, NothingCame
<1>3. BodyShape'
  BY <1>1 DEF BodyInv, BodyShape
<1>4. Ordered' /\ Complete'
  BY <1>1, <1>2, EmptyRun DEF Ordered, Complete
<1>5. Fresh' /\ Held'
  BY <1>1, <1>2 DEF BodyInv, Fresh, Held
<1>6. response.text /\ declared' => ~state.rewrite
  BY <1>1
<1>7. LostForCause'
  BY <1>1, <1>4, <1>6 DEF BodyInv, LostForCause
<1>8. QED
  BY <1>3, <1>4, <1>5, <1>7 DEF BodyInv

-----------------------------------------------------------------------------
(* The body. *)

\* A chunk that comes while the body passes.
LEMMA PassStep ==
    ASSUME BodyInv, NEW n \in 0..MaxBody, NEW last \in BOOLEAN,
           Body!BodyFilter(n, last), ~state.rewrite, Body!Pass(n)
    PROVE  BodyInv'
<1>1. /\ stage = "body" /\ came + n <= MaxBody /\ came' = came + n
      /\ stage' = IF last THEN "end" ELSE "body"
      /\ out' = out \o Body!Chunk(n)
      /\ UNCHANGED <<upstream, retries, response, declared, state>>
  BY DEF Body!BodyFilter, Body!Pass
<1>2. came \in Nat /\ n \in Nat /\ out \in Seq(Nat) /\ MaxBody \in Nat
  BY RewriteAssumption DEF BodyInv, BodyShape
<1>3. state.buffer = <<>> /\ Len(state.buffer) = 0
  BY EmptyRun DEF BodyInv, Held
<1>4. RunUpTo(out, came) /\ Len(out) <= came /\ Len(out) \in Nat
  <2>1. Len(out) \in Nat
    BY <1>2, LenProperties
  <2>2. came - Len(state.buffer) = came /\ Len(out) + Len(state.buffer) = Len(out)
    BY <1>2, <1>3, <2>1
  <2>3. QED
    BY <2>1, <2>2 DEF BodyInv, Ordered
<1>5. /\ Body!Chunk(n) \in Seq(Nat) /\ Len(Body!Chunk(n)) = n /\ RunUpTo(Body!Chunk(n), came + n)
  BY <1>2, ChunkRun
<1>6. out' \in Seq(Nat) /\ Len(out') = Len(out) + n /\ RunUpTo(out', came')
  <2>1. came' - Len(Body!Chunk(n)) = came /\ Len(out) + Len(Body!Chunk(n)) <= came' /\ came' \in Nat
    BY <1>1, <1>2, <1>4, <1>5
  <2>2. QED
    BY <1>1, <1>2, <1>4, <1>5, <2>1, RunsJoin
<1>7. came' \in 0..MaxBody
  BY <1>1, <1>2
<1>8. BodyShape'
  BY <1>1, <1>6, <1>7 DEF BodyInv, BodyShape
<1>9. Ordered'
  <2>1. came' - Len(state'.buffer) = came' /\ Len(out') + Len(state'.buffer) <= came'
    BY <1>1, <1>2, <1>3, <1>4, <1>6
  <2>2. RunUpTo(state'.buffer, came')
    BY <1>1, <1>3, <1>7, EmptyRun
  <2>3. QED
    BY <1>6, <2>1, <2>2 DEF Ordered
<1>10. Fresh' /\ Held'
  BY <1>1, <1>3 DEF Fresh, Held
<1>11. came' <= Limit => came <= Limit
  BY <1>1, <1>2, RewriteAssumption
<1>12. Complete => Complete'
  BY <1>1, <1>2, <1>3, <1>4, <1>6 DEF Complete
<1>13. LostForCause'
  BY <1>1, <1>11, <1>12 DEF BodyInv, LostForCause
<1>14. QED
  BY <1>8, <1>9, <1>10, <1>13 DEF BodyInv

\* What is held back is at most what came, so a body that outgrows the limit came
\* to more than the limit: what it loses it loses for that.
LEMMA OverflowStep ==
    ASSUME BodyInv, NEW n \in 0..MaxBody, NEW last \in BOOLEAN,
           Body!BodyFilter(n, last), state.rewrite, Body!Overflow(n)
    PROVE  BodyInv'
<1>1. /\ stage = "body" /\ came + n <= MaxBody /\ came' = came + n
      /\ stage' = IF last THEN "end" ELSE "body"
      /\ Len(state.buffer) + n > Limit
      /\ state' = [state EXCEPT !.rewrite = FALSE, !.buffer = <<>>]
      /\ out' = out \o Body!Chunk(n)
      /\ UNCHANGED <<upstream, retries, response, declared>>
  BY DEF Body!BodyFilter, Body!Overflow
<1>2. /\ came \in Nat /\ n \in Nat /\ MaxBody \in Nat /\ Limit \in Nat
      /\ state \in [rewrite : BOOLEAN, buffer : Seq(Nat)]
  BY RewriteAssumption DEF BodyInv, BodyShape
<1>3. out = <<>> /\ Len(out) = 0 /\ out \in Seq(Nat) /\ RunUpTo(out, came)
  BY <1>1, <1>2, EmptyRun DEF BodyInv, Held
<1>4. /\ state' \in [rewrite : BOOLEAN, buffer : Seq(Nat)]
      /\ state'.rewrite = FALSE /\ state'.buffer = <<>> /\ Len(state'.buffer) = 0
  <2>1. <<>> \in Seq(Nat) /\ Len(<<>>) = 0
    BY EmptyRun
  <2>2. QED
    BY <1>1, <1>2, <2>1, StateUpdates, Zenon
<1>5. /\ Body!Chunk(n) \in Seq(Nat) /\ Len(Body!Chunk(n)) = n /\ RunUpTo(Body!Chunk(n), came + n)
  BY <1>2, ChunkRun
<1>6. out' \in Seq(Nat) /\ Len(out') = n /\ RunUpTo(out', came')
  <2>1. /\ came' - Len(Body!Chunk(n)) = came /\ Len(out) + Len(Body!Chunk(n)) <= came'
        /\ came' \in Nat /\ Len(out) + Len(Body!Chunk(n)) = n
    BY <1>1, <1>2, <1>3, <1>5
  <2>2. QED
    BY <1>1, <1>2, <1>3, <1>5, <2>1, RunsJoin
<1>7. came' \in 0..MaxBody
  BY <1>1, <1>2
<1>8. ~(came' <= Limit)
  <2>1. Len(state.buffer) \in Nat /\ Len(state.buffer) <= came
    <3>1. Len(state.buffer) \in Nat
      BY <1>2, LenProperties
    <3>2. QED
      BY <1>2, <1>3, <3>1 DEF BodyInv, Ordered
  <2>2. QED
    BY <1>1, <1>2, <2>1
<1>9. BodyShape'
  BY <1>1, <1>2, <1>4, <1>6, <1>7 DEF BodyInv, BodyShape
<1>10. Ordered'
  <2>1. came' - Len(state'.buffer) = came' /\ Len(out') + Len(state'.buffer) <= came'
    BY <1>1, <1>2, <1>4, <1>6
  <2>2. RunUpTo(state'.buffer, came')
    BY <1>4, <1>7, EmptyRun
  <2>3. QED
    BY <1>6, <2>1, <2>2 DEF Ordered
<1>11. Fresh' /\ Held'
  BY <1>1, <1>4 DEF Fresh, Held
<1>12. LostForCause'
  BY <1>1, <1>8 DEF BodyInv, LostForCause
<1>13. QED
  BY <1>9, <1>10, <1>11, <1>12 DEF BodyInv

\* A chunk that is held back, and the end that lets all of it go.
LEMMA HoldStep ==
    ASSUME BodyInv, NEW n \in 0..MaxBody, NEW last \in BOOLEAN,
           Body!BodyFilter(n, last), state.rewrite, Body!Hold(n, last)
    PROVE  BodyInv'
<1> DEFINE held == state.buffer \o Body!Chunk(n)
<1>1. /\ stage = "body" /\ came + n <= MaxBody /\ came' = came + n
      /\ stage' = IF last THEN "end" ELSE "body"
      /\ Len(held) <= Limit
      /\ state' = [state EXCEPT !.buffer = IF last THEN <<>> ELSE held]
      /\ out' = IF last /\ response.utf8 THEN out \o held ELSE out
      /\ UNCHANGED <<upstream, retries, response, declared>>
  BY DEF Body!BodyFilter, Body!Hold
<1>2. /\ came \in Nat /\ n \in Nat /\ MaxBody \in Nat /\ Limit \in Nat
      /\ state \in [rewrite : BOOLEAN, buffer : Seq(Nat)]
  BY RewriteAssumption DEF BodyInv, BodyShape
<1>3. out = <<>> /\ Len(out) = 0 /\ out \in Seq(Nat)
  BY <1>1, EmptyRun DEF BodyInv, Held
<1>4. /\ Body!Chunk(n) \in Seq(Nat) /\ Len(Body!Chunk(n)) = n /\ RunUpTo(Body!Chunk(n), came + n)
  BY <1>2, ChunkRun
<1>5. state.buffer \in Seq(Nat) /\ Len(state.buffer) \in Nat
  BY <1>2, LenProperties
<1>6. Len(state.buffer) <= came /\ RunUpTo(state.buffer, came)
  BY <1>2, <1>3, <1>5 DEF BodyInv, Ordered
<1>7. /\ held \in Seq(Nat) /\ Len(held) = Len(state.buffer) + n /\ RunUpTo(held, came')
  <2>1. /\ came' - Len(Body!Chunk(n)) = came /\ Len(state.buffer) + Len(Body!Chunk(n)) <= came'
        /\ came' \in Nat
    BY <1>1, <1>2, <1>4, <1>5, <1>6
  <2>2. QED
    BY <1>1, <1>4, <1>5, <1>6, <2>1, RunsJoin
<1> HIDE DEF held
<1>8. came' \in 0..MaxBody /\ Len(held) <= came' /\ Len(held) \in Nat /\ came' \in Nat
  BY <1>1, <1>2, <1>5, <1>6, <1>7
<1>9. out \o held = held
  BY <1>3, <1>7, ConcatEmptySeq
<1>10. Complete => came' = Len(held)
  BY <1>1, <1>2, <1>3, <1>5, <1>7 DEF Complete
<1>11. /\ stage' # "request" /\ stage' # "header" /\ (stage' = "end" <=> last)
  BY <1>1
<1>12. /\ came <= Limit => Complete
       /\ ~(Body!Untouched)
       /\ ~(response.text /\ declared)
  BY <1>1 DEF BodyInv, LostForCause
<1>13. came' <= Limit => came' = Len(held)
  BY <1>1, <1>2, <1>10, <1>12
<1>14. CASE last
  <2>1. /\ state'.buffer = <<>> /\ state'.rewrite = TRUE
        /\ state' \in [rewrite : BOOLEAN, buffer : Seq(Nat)] /\ Len(state'.buffer) = 0
    <3>1. <<>> \in Seq(Nat) /\ Len(<<>>) = 0
      BY EmptyRun
    <3>2. state' = [state EXCEPT !.buffer = <<>>]
      BY <1>1, <1>14
    <3>3. QED
      BY <1>2, <3>1, <3>2, StateUpdates, Zenon
  <2>2. /\ out' \in Seq(Nat) /\ Len(out') \in Nat /\ Len(out') <= came' /\ RunUpTo(out', came')
        /\ response.utf8 => Len(out') = Len(held)
    <3>1. CASE response.utf8
      <4>1. out' = held
        BY <1>1, <1>9, <1>14, <3>1
      <4>2. QED
        BY <1>7, <1>8, <4>1
    <3>2. CASE ~response.utf8
      <4>1. out' = <<>>
        BY <1>1, <1>3, <3>2
      <4>2. QED
        BY <1>8, <3>2, <4>1, EmptyRun
    <3>3. QED
      BY <3>1, <3>2
  <2>3. BodyShape'
    BY <1>1, <1>2, <1>8, <2>1, <2>2 DEF BodyInv, BodyShape
  <2>4. Ordered'
    <3>1. came' - Len(state'.buffer) = came' /\ Len(out') + Len(state'.buffer) <= came'
      <4>1. \A a, b, c \in Nat : b = 0 /\ a <= c => c - b = c /\ a + b <= c
        OBVIOUS
      <4>2. Len(out') \in Nat /\ Len(out') <= came' /\ came' \in Nat
        BY <1>8, <2>2
      <4>3. Len(state'.buffer) = 0 /\ 0 \in Nat
        BY <2>1
      <4>4. QED
        BY <4>1, <4>2, <4>3, Zenon
    <3>2. RunUpTo(state'.buffer, came')
      BY <1>8, <2>1, EmptyRun
    <3>3. QED
      BY <2>2, <3>1, <3>2 DEF Ordered
  <2>5. Fresh' /\ Held'
    BY <1>11, <1>14, <2>1 DEF Fresh, Held
  <2>6. response.utf8 /\ came' <= Limit => Complete'
    BY <1>8, <1>13, <2>1, <2>2 DEF Complete
  <2>7. LostForCause'
    BY <1>1, <1>11, <1>12, <1>14, <2>6 DEF LostForCause
  <2>8. QED
    BY <2>3, <2>4, <2>5, <2>7 DEF BodyInv
<1>15. CASE ~last
  <2>1. /\ state'.buffer = held /\ state'.rewrite = TRUE
        /\ state' \in [rewrite : BOOLEAN, buffer : Seq(Nat)]
    BY <1>1, <1>2, <1>7, <1>15
  <2>2. out' = <<>> /\ out' \in Seq(Nat) /\ Len(out') = 0 /\ RunUpTo(out', came' - Len(held))
    BY <1>1, <1>3, <1>8, <1>15, EmptyRun
  <2>3. BodyShape'
    BY <1>1, <1>8, <2>1, <2>2 DEF BodyInv, BodyShape
  <2>4. Ordered'
    <3>1. Len(out') + Len(state'.buffer) <= came'
      BY <1>8, <2>1, <2>2
    <3>2. QED
      BY <1>7, <2>1, <2>2, <3>1 DEF Ordered
  <2>5. Fresh' /\ Held'
    BY <1>11, <1>15, <2>1, <2>2 DEF Fresh, Held
  <2>6. came' <= Limit => Complete'
    BY <1>8, <1>13, <2>1, <2>2 DEF Complete
  <2>7. LostForCause'
    BY <1>1, <1>11, <1>12, <1>15, <2>6 DEF LostForCause
  <2>8. QED
    BY <2>3, <2>4, <2>5, <2>7 DEF BodyInv
<1>16. QED
  BY <1>14, <1>15

LEMMA BodyFilterStep ==
    \A n \in 0..MaxBody, last \in BOOLEAN :
        BodyInv /\ Body!BodyFilter(n, last) => BodyInv'
BY PassStep, OverflowStep, HoldStep DEF Body!BodyFilter

LEMMA NextBody == BodyInv /\ [Body!Next]_bodyVars => BodyInv'
<1> SUFFICES ASSUME BodyInv, [Body!Next]_bodyVars PROVE BodyInv'
  OBVIOUS
<1>1. CASE Body!Prepare \/ Body!Retry \/ Body!ResponseFilter
  BY <1>1, PrepareStep, RetryStep, ResponseFilterStep
<1>2. CASE \E n \in 0..MaxBody, last \in BOOLEAN : Body!BodyFilter(n, last)
  BY <1>2, BodyFilterStep
<1>3. CASE UNCHANGED bodyVars
  BY <1>3 DEF bodyVars, BodyInv, BodyShape, Fresh, Ordered, RunUpTo, Held, LostForCause, Complete
<1>4. QED
  BY <1>1, <1>2, <1>3 DEF Body!Next

-----------------------------------------------------------------------------
(* Both. *)

IInv == RelayInv /\ BodyInv

LEMMA AlwaysIInv == StreamSpec => []IInv
<1>1. StreamInit => IInv
  BY InitRelay, InitBody DEF StreamInit, IInv
<1>2. IInv /\ [StreamNext]_streamVars => IInv'
  <2> SUFFICES ASSUME IInv, [StreamNext]_streamVars PROVE IInv'
    OBVIOUS
  <2>1. [Relay!Next]_relayVars /\ [Body!Next]_bodyVars
    BY DEF StreamNext, ByRelay, ByBody, streamVars
  <2>2. QED
    BY <2>1, NextRelay, NextBody DEF IInv
<1>3. QED
  BY <1>1, <1>2, PTL DEF StreamSpec

\* The types, and the bounds they carry: no direction passes on more than its
\* source sent, and no more of a body leaves or is held back than came, nor more
\* held back than the limit.
THEOREM TypeCorrect == StreamSpec => []StreamsTypeOK
<1>1. IInv => StreamsTypeOK
  BY DEF IInv, RelayInv, BodyInv, BodyShape, Ordered, StreamsTypeOK, Body!TypeOK
<1>2. QED
  BY <1>1, AlwaysIInv, PTL

\* What the access line of a finished relay counts is what the two peers sent, and
\* neither of them is still sending.
THEOREM LineIsFinalAlways == StreamSpec => []Relay!LineIsFinal
<1>1. IInv => Relay!LineIsFinal
  BY Ends DEF IInv, RelayInv, Joined, Over, Relay!LineIsFinal
<1>2. QED
  BY <1>1, AlwaysIInv, PTL

\* What a response loses on its way through the rewriting of paths, for any limit,
\* any length of body and any way it comes in pieces.
THEOREM BodyArrivesAlways == StreamSpec => []BodyArrives
<1>1. ASSUME BodyInv PROVE BodyArrives
  <2>1. out \in Seq(Nat) /\ came \in Nat
    BY RewriteAssumption, <1>1 DEF BodyInv, BodyShape
  <2>2. ASSUME Complete, state.buffer = <<>> PROVE out = Body!Whole
    <3>1. Len(out) \in Nat
      BY <2>1, LenProperties
    <3>2. Len(state.buffer) = 0
      BY <2>2, EmptyRun
    <3>3. came = Len(out) /\ came - Len(state.buffer) = came
      BY <2>1, <2>2, <3>1, <3>2 DEF Complete
    <3>4. \A i \in 1..Len(out) : out[i] = i
      <4>1. \A i \in 1..Len(out) : out[i] = came - Len(out) + i
        BY <1>1, <3>3 DEF BodyInv, Ordered, RunUpTo
      <4>2. QED
        BY <3>1, <3>3, <4>1
    <3>5. out = [i \in 1..Len(out) |-> out[i]]
      BY <2>1, LenProperties
    <3>6. QED
      BY <3>3, <3>4, <3>5 DEF Body!Whole
  <2>3. Body!Untouched /\ stage = "body" => out = Body!Whole
    BY <1>1, <2>2 DEF BodyInv, LostForCause, Held
  <2>4. stage = "end" /\ response.utf8 /\ came <= Limit => out = Body!Whole
    BY <1>1, <2>2 DEF BodyInv, LostForCause, Held
  <2>5. stage = "end" /\ response.text /\ out # Body!Whole => ~declared
    BY <1>1, <2>2 DEF BodyInv, LostForCause, Held
  <2>6. \A i \in 1..Len(out) : out[i] = came - Len(state.buffer) - Len(out) + i
    BY <1>1 DEF BodyInv, Ordered, RunUpTo
  <2>7. QED
    BY <2>3, <2>4, <2>5, <2>6 DEF BodyArrives, Body!BodyArrives
<1>2. QED
  BY <1>1, AlwaysIInv, PTL DEF IInv
=============================================================================
