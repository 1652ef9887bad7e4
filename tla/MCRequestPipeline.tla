------------------------- MODULE MCRequestPipeline -------------------------
(***************************************************************************)
(* RequestPipeline over four configurations an administrator may switch    *)
(* between while a request is under way: the same two sites in either      *)
(* order, one of them gone, its internal route gone, the root site there   *)
(* or not.                                                                 *)
(***************************************************************************)
EXTENDS RequestPipeline

MCLabels == {"*", "www", "app", "other", ""}
MCParents == {"x.com", "com", ""}
MCDottedParents == {"x.com"}
MCForms == {"canonical"}
MCPaths == {"/", "/api", "/old", "/away", "/admin", "/back", "/bad"}
MCAddresses == {"shop1", "shop2", "api", "blog", "root1"}
MCFiles == {"shop", "blog"}

Host(label, parent) ==
    [name |-> [label |-> label, parent |-> parent], form |-> "canonical",
     dots |-> 0]

www == Host("www", "x.com")

To(address) == [address |-> address, h3 |-> FALSE]
Over3(address) == [address |-> address, h3 |-> TRUE]

Rewrite(from, to, authority) ==
    [from |-> {from}, rewrite |-> TRUE, parses |-> TRUE, to |-> to,
     authority |-> authority]

\* An exact name, a restricted site with an internal route, a mixed pool.
shop ==
    [file |-> "shop", domains |-> <<www>>, listen |-> Listeners,
     traffic |-> Kinds, redirectHttps |-> FALSE, trusting |-> FALSE,
     rules |-> << Rewrite("/old", "/api", Absent),
                  Rewrite("/back", "/admin", Absent),
                  [Rewrite("/away", "/", Absent) EXCEPT !.rewrite = FALSE],
                  [Rewrite("/bad", "/", Absent) EXCEPT !.parses = FALSE] >>,
     restricted |-> TRUE, open |-> MCPaths \ {"/admin", "/old"},
     routes |-> << [paths |-> {"/api"}, upstream |-> To("api")] >>,
     pool |-> << To("shop1"), Over3("shop2") >>, balanced |-> TRUE]

\* A wildcard behind a proxy that terminates TLS, one upstream.
blog ==
    [file |-> "blog", domains |-> <<Host("*", "x.com")>>,
     listen |-> Listeners, traffic |-> {"http"}, redirectHttps |-> TRUE,
     trusting |-> TRUE, rules |-> << Rewrite("/old", "/admin", www) >>,
     restricted |-> FALSE, open |-> {}, routes |-> <<>>,
     pool |-> << To("blog") >>, balanced |-> FALSE]

Root == [pool |-> << To("root1") >>, balanced |-> FALSE]

Version(sites, hasRoot) == [sites |-> sites, hasRoot |-> hasRoot, root |-> Root]

MCVersions == {
    Version(<<shop, blog>>, FALSE),
    Version(<<blog, shop>>, TRUE),
    Version(<<blog>>, TRUE),
    Version(<<[shop EXCEPT !.routes = <<>>]>>, FALSE) }

MCRequests ==
    {r \in [host : {www, Host("app", "x.com"), Host("other", "com")},
            hostHeader : BOOLEAN, listener : Listeners, kind : Kinds,
            path : MCPaths, own : BOOLEAN, forwardedProto : {"", "https"}] :
        /\ r.own => r.path = "/" /\ r.host = www
        /\ r.forwardedProto # "" => r.host # www
        /\ ~r.hostHeader => r.listener = "https"}
=============================================================================
