---------------------------- MODULE SiteAdmission ----------------------------
(***************************************************************************)
(* What filter_valid_sites promises: the files are decided one by one in   *)
(* their order, and a file is served exactly when it is enabled, valid on  *)
(* its own, and shares no (name, listener, kind) with a file served        *)
(* before it.  Nothing is said of claims or of how they are kept.          *)
(***************************************************************************)
EXTENDS SiteValidity

VARIABLES queue,  \* files not decided yet
          valid   \* sites served

vars == <<queue, valid>>

Admissible(site) ==
    /\ site.enabled
    /\ Sound(site)
    /\ \A i \in DOMAIN valid : SiteSlots(site) \cap SiteSlots(valid[i]) = {}

Init == queue \in Directories /\ valid = <<>>

Decide ==
    /\ queue # <<>>
    /\ queue' = Tail(queue)
    /\ valid' = IF Admissible(Head(queue))
                THEN Append(valid, Head(queue))
                ELSE valid

Next == Decide

\* Every file is decided.
Spec == Init /\ [][Next]_vars /\ WF_vars(Next)
=============================================================================
