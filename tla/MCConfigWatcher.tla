-------------------------- MODULE MCConfigWatcher --------------------------
(***************************************************************************)
(* Two site files that may hold half a file, contest a domain or need a    *)
(* name resolved, two TCP files, and a root.yaml that may be refused.      *)
(***************************************************************************)
EXTENDS ConfigWatcher

MCContents ==
    { [valid |-> FALSE, domain |-> "example.com", named |-> FALSE],
      [valid |-> TRUE, domain |-> "example.com", named |-> TRUE] }

MCRoots ==
    { [needs |-> "nothing", named |-> FALSE],
      [needs |-> "certificate", named |-> FALSE],
      [needs |-> "the impossible", named |-> FALSE] }
=============================================================================
