------------------------------ MODULE BodyRewrite ------------------------------
(***************************************************************************)
(* The body of one response through src/path_rewrite.rs.  An upstream with *)
(* a base path has its links rewritten, so its body is held back until the *)
(* end, or until it outgrows MAX_BODY_BYTES.  Only the headers of text are *)
(* prepared for that, but every body is held back.                         *)
(*                                                                         *)
(* Bytes are numbered in the order they come.  Rewriting a link is left    *)
(* out: what counts is which bytes leave.                                  *)
(***************************************************************************)
EXTENDS StreamBounds, Sequences

\* What prepare looks at: whether the upstream chosen is in the table it reads, a base
\* path, and an origin that is not the public one.
Upstream == [found : BOOLEAN, base : BOOLEAN, foreign : BOOLEAN]
Needs(u) == u.found /\ (u.base \/ u.foreign)

\* A text type without an encoding; bytes that are UTF-8.
Response == [text : BOOLEAN, utf8 : BOOLEAN]

NoState == [rewrite |-> FALSE, buffer |-> <<>>]

VARIABLES upstream,  \* the upstream of the attempt
          retries,   \* attempts that failed before an answer
          phase,     \* "request", "header", "body", "end"
          response,
          declared,  \* Content-Length goes to the client
          state,     \* ctx.path_rewrite
          came,      \* bytes that came
          out        \* the numbers of the bytes that left

vars == <<upstream, retries, phase, response, declared, state, came, out>>

Init ==
    /\ upstream \in Upstream /\ response \in Response
    /\ retries = 0 /\ phase = "request" /\ declared = TRUE
    /\ state = NoState /\ came = 0 /\ out = <<>>

-----------------------------------------------------------------------------
\* Mistake to catch: the state of an earlier attempt is kept.
PrepareOnce ==
    /\ phase = "request" /\ phase' = "header"
    /\ state' = IF Needs(upstream) /\ retries = 0
                THEN [rewrite |-> upstream.base, buffer |-> <<>>]
                ELSE state
    /\ UNCHANGED <<upstream, retries, response, declared, came, out>>

\* An upstream that needs nothing, or that a reload took away, leaves the state of an
\* earlier attempt alone.
Prepare ==
    /\ phase = "request" /\ phase' = "header"
    /\ state' = IF Needs(upstream)
                THEN [rewrite |-> upstream.base, buffer |-> <<>>]
                ELSE state
    /\ UNCHANGED <<upstream, retries, response, declared, came, out>>

\* The attempt fails before an answer, and pingora selects again.
Retry ==
    /\ phase = "header" /\ retries < MaxRetries
    /\ phase' = "request" /\ retries' = retries + 1
    /\ upstream' \in Upstream
    /\ UNCHANGED <<response, declared, state, came, out>>

ResponseFilter ==
    /\ phase = "header" /\ phase' = "body"
    /\ declared' = ~(state.rewrite /\ response.text)
    /\ UNCHANGED <<upstream, retries, response, state, came, out>>

-----------------------------------------------------------------------------
Chunk(n) == [i \in 1..n |-> came + i]

Pass(n) == out' = out \o Chunk(n) /\ UNCHANGED state

\* What was held back is lost.
Overflow(n) ==
    /\ Len(state.buffer) + n > Limit
    /\ state' = [state EXCEPT !.rewrite = FALSE, !.buffer = <<>>]
    /\ out' = out \o Chunk(n)

\* Mistake to catch: each chunk is held against the limit by itself.
HoldChunkwise(n, last) ==
    LET held == state.buffer \o Chunk(n) IN
    /\ n <= Limit
    /\ state' = [state EXCEPT !.buffer = IF last THEN <<>> ELSE held]
    /\ out' = IF last /\ response.utf8 THEN out \o held ELSE out

\* At the end the body leaves at once, an empty one in place of bytes that are
\* not UTF-8.
Hold(n, last) ==
    LET held == state.buffer \o Chunk(n) IN
    /\ Len(held) <= Limit
    /\ state' = [state EXCEPT !.buffer = IF last THEN <<>> ELSE held]
    /\ out' = IF last /\ response.utf8 THEN out \o held ELSE out

BodyFilter(n, last) ==
    /\ phase = "body" /\ came + n <= MaxBody
    /\ \/ ~state.rewrite /\ Pass(n)
       \/ state.rewrite /\ Overflow(n)
       \/ state.rewrite /\ Hold(n, last)
    /\ came' = came + n
    /\ phase' = IF last THEN "end" ELSE "body"
    /\ UNCHANGED <<upstream, retries, response, declared>>

Next ==
    \/ Prepare \/ Retry \/ ResponseFilter
    \/ \E n \in 0..MaxBody, last \in BOOLEAN : BodyFilter(n, last)

Spec == Init /\ [][Next]_vars

-----------------------------------------------------------------------------
(* Properties *)

TypeOK ==
    /\ upstream \in Upstream /\ response \in Response
    /\ retries \in 0..MaxRetries
    /\ phase \in {"request", "header", "body", "end"}
    /\ declared \in BOOLEAN
    /\ state.rewrite \in BOOLEAN
    /\ Len(state.buffer) <= Limit
    /\ came \in 0..MaxBody
    /\ Len(out) + Len(state.buffer) <= came

\* An upstream whose body is not to be rewritten, without a state an earlier attempt
\* left.
Untouched ==
    ~(upstream.found /\ upstream.base) /\ (Needs(upstream) \/ retries = 0)

Whole == [i \in 1..came |-> i]

\* What a response loses on its way.  A body that is not to be rewritten leaves as it
\* comes, byte for byte and never late, whatever an attempt before was to be
\* rewritten (unless this upstream needs no rewriting of any kind, and finds the
\* state of the other).  One that is rewritten leaves complete if it is text within
\* the limit, and beyond the limit it leaves without its beginning but without a
\* hole; Content-Length is then gone if the type is a text type.
BodyArrives ==
    /\ Untouched /\ phase = "body" => out = Whole
    /\ phase = "end" /\ response.utf8 /\ came <= Limit => out = Whole
    /\ \A i \in 1..Len(out) : out[i] = came - Len(state.buffer) - Len(out) + i
    /\ phase = "end" /\ response.text /\ out # Whole => ~declared
=============================================================================
