---------------------------- MODULE MCSiteClaims ----------------------------
(***************************************************************************)
(* SiteClaims over every directory of at most MaxFiles files taken from a  *)
(* catalogue in which each way two files can meet occurs: same name on     *)
(* other listeners or kinds, in another spelling, under a wildcard, twice  *)
(* in one file, after a file that fails halfway, with a dot before a port. *)
(***************************************************************************)
EXTENDS SiteClaims

CONSTANT MaxFiles

MCLabels == {"*", "www", "shop", ""}
MCParents == {"x.com", "com", ""}
MCDottedParents == {"x.com"}
MCForms == {"canonical", "decorated"}

D(label, parent, form) ==
    [name |-> [label |-> label, parent |-> parent], form |-> form, dots |-> 0]

\* "www.x.com.:443"
Dotted(spelling) == [spelling EXCEPT !.dots = 1]

www == D("www", "x.com", "canonical")
Www == D("www", "x.com", "decorated")
shop == D("shop", "x.com", "canonical")
any == D("*", "x.com", "canonical")

File(domains, listen, traffic) ==
    [enabled |-> TRUE, domains |-> domains, listen |-> listen,
     traffic |-> traffic, redirectHttps |-> FALSE, restValid |-> TRUE]

MCSiteConfigs == {
    File(<<www>>, Listeners, {"http"}),
    File(<<Www>>, {"http"}, {"websocket"}),
    File(<<www, shop>>, {"https"}, Kinds),
    File(<<any>>, Listeners, {"http"}),
    File(<<any, Www>>, {"https"}, {"http"}),
    File(<<www, Www>>, {"http"}, {"http"}),
    [File(<<shop, www>>, Listeners, Kinds) EXCEPT !.restValid = FALSE],
    [File(<<shop>>, {"https"}, {"http"}) EXCEPT !.redirectHttps = TRUE],
    [File(<<shop>>, Listeners, {"http"}) EXCEPT !.redirectHttps = TRUE],
    [File(<<www>>, Listeners, {"http"}) EXCEPT !.enabled = FALSE],
    File(<<shop, D("*", "com", "canonical")>>, Listeners, Kinds),
    File(<<shop, D("", "", "canonical")>>, Listeners, Kinds),
    File(<<D("", "x.com", "canonical"), Dotted(www)>>, Listeners, {"http"}),
    File(<<Dotted(any), shop>>, {"http"}, Kinds),
    File(<<>>, Listeners, Kinds),
    File(<<shop>>, {}, Kinds) }

MCDirectories == UNION {[1..n -> MCSiteConfigs] : n \in 0..MaxFiles}

=============================================================================
