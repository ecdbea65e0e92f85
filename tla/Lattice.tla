------------------------------ MODULE Lattice ------------------------------
(***************************************************************************)
(* The lattice shards of a workspace (lib/gen/lattice/lattice.go), the     *)
(* directory var/lattice: lattice.Run splits the lattice into shards and   *)
(* writes them one file at a time, then the manifest _index.json, then     *)
(* _index.sha256, then removes the shards of earlier runs.  MergeShards    *)
(* (lib/spec/spec.go) is the reader.                                       *)
(*                                                                         *)
(* A lattice is a record of two top-level keys: "catalog" stands for the   *)
(* keys taken from the catalog, each a shard, and "tree" is the tree of    *)
(* the workspace, whose root may be split once.  A sha256 is modelled by   *)
(* what it is the digest of.                                               *)
(***************************************************************************)
EXTENDS Integers, Sequences, Functions

CONSTANTS TooLarge(_),   \* a tree node at or above recursionThreshold
          Gzipped(_)     \* a shard at or above gzipThreshold

VARIABLES
  shards,        \* shard files: file name -> content
  index,         \* _index.json
  sha,           \* _index.sha256
  run            \* lattice.Run: its step, its lattice, shards still to write

latticeVars == <<shards, index, sha, run>>

None == [none |-> TRUE]
Torn == [torn |-> TRUE]
Corrupt == [corrupt |-> TRUE]
Idle == [step |-> "off", lattice |-> None, left |-> {}]
NoShards == [f \in {} |-> Torn]

LatticeInit ==
  shards = NoShards /\ index = None /\ sha = None /\ run = Idle

----------------------------------------------------------------------------
(* Shards                                                                  *)

below(path, d) == path \o <<"dirs", d>>

splitTreeNode(path, node) ==
  IF ~TooLarge(node) \/ DOMAIN node.dirs = {}
  THEN {[path |-> path, value |-> node]}
  ELSE {[path |-> path, value |-> [files |-> node.files]]} \cup
       {[path |-> below(path, d), value |-> node.dirs[d]] : d \in DOMAIN node.dirs}

splitIntoShards(lattice) ==
  {[path |-> <<"catalog">>, value |-> lattice.catalog]} \cup
  splitTreeNode(<<"tree">>, lattice.tree)

(* sortShards: they are written in one order, the same at every run.       *)
sortShards(left) == CHOOSE sh \in left : TRUE

shardFilename(sh) == <<sh.path, IF Gzipped(sh) THEN "json.gz" ELSE "json">>

sibling(sh) == <<sh.path, IF Gzipped(sh) THEN "json" ELSE "json.gz">>

Files(lattice) == {shardFilename(sh) : sh \in splitIntoShards(lattice)}

(* What splitting puts apart, grafting puts together.                      *)
graft(parts) ==
  LET at(path) == (CHOOSE sh \in parts : sh.path = path).value
      dirs == {sh.path[3] : sh \in {sh \in parts : Len(sh.path) = 3}}
  IN [catalog |-> at(<<"catalog">>),
      tree |-> IF dirs = {}
               THEN at(<<"tree">>)
               ELSE [files |-> at(<<"tree">>).files,
                     dirs |-> [d \in dirs |-> at(below(<<"tree">>, d))]]]

MergeShards ==
  IF index = None \/ \E e \in index.shards : e.file \notin DOMAIN shards
  THEN Corrupt
  ELSE IF \E e \in index.shards : shards[e.file] # e.sha256
  THEN Corrupt
  ELSE LET root == graft({[path |-> e.path, value |-> shards[e.file]] :
                            e \in index.shards})
       IN IF root = index.lattice_sha256 THEN root ELSE Corrupt

----------------------------------------------------------------------------
(* lattice.Run                                                             *)

(* The digest of the lattice is compared with the one in _index.sha256.    *)
Unchanged(lattice) == sha = lattice

MutBegin(lattice) ==
  /\ run.step = "off"
  /\ run' = [step |-> IF Unchanged(lattice) THEN "off" ELSE "shards",
             lattice |-> lattice,
             left |-> IF Unchanged(lattice) THEN {}
                      ELSE splitIntoShards(lattice)]
  /\ sha' = lattice
  /\ UNCHANGED <<shards, index>>

Begin(lattice) ==
  /\ run.step = "off"
  /\ run' = [step |-> IF Unchanged(lattice) THEN "off" ELSE "shards",
             lattice |-> lattice,
             left |-> IF Unchanged(lattice) THEN {}
                      ELSE splitIntoShards(lattice)]
  /\ UNCHANGED <<shards, index, sha>>

current == sortShards(run.left)

withFile(f, content) ==
  [g \in DOMAIN shards \cup {f} |-> IF g = f THEN content ELSE shards[g]]

written(sh) ==
  Restrict(withFile(shardFilename(sh), sh.value),
           (DOMAIN shards \cup {shardFilename(sh)}) \ {sibling(sh)})

WriteShard ==
  /\ run.step = "shards"
  /\ shards' = written(current)
  /\ run' = [run EXCEPT !.left = @ \ {current},
                        !.step = IF run.left = {current} THEN "manifest"
                                 ELSE "shards"]
  /\ UNCHANGED <<index, sha>>

WriteManifest ==
  /\ run.step = "manifest"
  /\ index' = [lattice_sha256 |-> run.lattice,
               shards |-> {[path |-> sh.path, file |-> shardFilename(sh),
                            sha256 |-> sh.value] :
                              sh \in splitIntoShards(run.lattice)}]
  /\ run' = [run EXCEPT !.step = "sha"]
  /\ UNCHANGED <<shards, sha>>

WriteSha ==
  /\ run.step = "sha"
  /\ sha' = run.lattice
  /\ run' = [run EXCEPT !.step = "prune"]
  /\ UNCHANGED <<shards, index>>

pruneStaleShards ==
  /\ run.step = "prune"
  /\ shards' = Restrict(shards, DOMAIN shards \cap Files(run.lattice))
  /\ run' = [run EXCEPT !.step = "off"]
  /\ UNCHANGED <<index, sha>>

LatticeStep == WriteShard \/ WriteManifest \/ WriteSha \/ pruneStaleShards

(* The process is killed: between two writes, or in the middle of writing  *)
(* a shard, whose file is then neither the old one nor the new one.        *)
LatticeKilled ==
  /\ \/ shards' = shards
     \/ /\ run.step = "shards"
        /\ shards' = withFile(shardFilename(current), Torn)
  /\ run' = Idle
  /\ UNCHANGED <<index, sha>>
============================================================================
