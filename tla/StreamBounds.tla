----------------------------- MODULE StreamBounds -----------------------------
(***************************************************************************)
(* The constants of TcpRelay and BodyRewrite, which Streams composes.      *)
(***************************************************************************)
EXTENDS Naturals

CONSTANTS MaxBytes,  \* bound on what each peer of a relay sends
          Limit,     \* MAX_BODY_BYTES
          MaxBody,   \* bound on the bytes of a response body
          MaxRetries \* pingora's bound on attempts

ASSUME RelayAssumption == MaxBytes \in Nat
ASSUME RewriteAssumption == {Limit, MaxBody, MaxRetries} \subseteq Nat
=============================================================================
