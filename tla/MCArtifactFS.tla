---------------------------- MODULE MCArtifactFS ----------------------------
(***************************************************************************)
(* artifact-fs with two paths, two commits and two branches.  The second   *)
(* commit renames q to p.                                                  *)
(***************************************************************************)
EXTENDS ArtifactFS, TLC

MCTree == "k1" :> ("p" :> "b1" @@ "q" :> "b2") @@ "k2" :> ("p" :> "b2" @@ "q" :> NoBlob)

S(e, n, ks, m, k) == [env |-> e, ops |-> n, kinds |-> ks, moves |-> m, kills |-> k]

MCTwoWorkers == {S("two", 2, {"read", "write"}, 0, 0)}

MCScopes ==
  { S("plain", 2, {"read", "write", "unlink"}, 0, 0), \* pairs of requests
    S("plain", 2, {"write", "rename", "create"}, 0, 0),
    S("plain", 1, Kinds, 1, 0),                      \* a request and a new HEAD
    S("plain", 0, {}, 3, 0),                         \* the watcher alone
    S("early", 0, {}, 2, 0),
    S("fails", 0, {}, 2, 0),
    S("two", 2, {"read"}, 0, 0),
    S("corrupt", 2, {"read"}, 0, 0),
    S("overlap", 1, {"write", "rename"}, 1, 0),
    S("crash", 1, {"rename", "unlink"}, 1, 1) }
=============================================================================
