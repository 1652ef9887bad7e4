--------------------------- MODULE MCCertLifecycle ---------------------------
(***************************************************************************)
(* One setting for each provider and for each way to fall back on another. *)
(***************************************************************************)
EXTENDS CertLifecycle

Setting(provider, token, command) ==
    [off |-> FALSE, provider |-> provider, token |-> token, command |-> command]

AllProviders ==
    {Setting("cloudflare", FALSE, FALSE), Setting("none", TRUE, FALSE),
     Setting("command", FALSE, TRUE), Setting("none", FALSE, FALSE)}
=============================================================================
