------------------------ MODULE MCPipelineExecution ------------------------
(***************************************************************************)
(* Small instances of PipelineExecution for TLC: a fork (two steps after   *)
(* the first), a chain of three and a preprocessing pipeline on one file,  *)
(* a chain of two and a single step on two files, also on files of which   *)
(* the path of one begins as that of the other.                            *)
(***************************************************************************)
EXTENDS PipelineExecution, TLC

Pipeline(type, parent, files, begins) ==
    [type |-> type, top |-> "a", parent |-> parent, files |-> files, begins |-> begins]

Fork == "a" :> "a" @@ "b" :> "a" @@ "c" :> "a"
Chain == "a" :> "a" @@ "b" :> "a" @@ "c" :> "b"
Pair == "a" :> "a" @@ "b" :> "a"
Single == "a" :> "a"

MCPipelines == {
    Pipeline("inference", Fork, {1}, {}),
    Pipeline("inference", Chain, {1}, {}),
    Pipeline("preprocessing", Fork, {1}, {}),
    Pipeline("inference", Pair, {1, 2}, {}),
    Pipeline("inference", Single, {1, 2}, {<<1, 2>>}),
    Pipeline("preprocessing", Single, {1, 2}, {}) }

=============================================================================
