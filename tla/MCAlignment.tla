----------------------------- MODULE MCAlignment -----------------------------
(* TLC instance of AlignmentPipeline: two recordings, of which one changes its  *)
(* transcript but not its audio, and registries that process one or both.       *)
EXTENDS AlignmentPipeline, TLC

CONSTANTS x, y, x1, x2, y1, audio1, audio2

MCAudioOf == (x1 :> audio1) @@ (x2 :> audio1) @@ (y1 :> audio2)
MCBatch == Run \X BatchNumber
Raw(id, content) == [id |-> id, path |-> id, content |-> content, wellFormed |-> TRUE]
MCSymmetry == Permutations(Run)
Registry(entries, issues) == [hasEntries |-> TRUE, issues |-> issues, entries |-> entries]
MCDocuments == {Registry(<<Raw(x, x1), Raw(y, y1)>>, 0), Registry(<<Raw(x, x2)>>, 0),
                Registry(<<Raw(x, x1), Raw(x, x2)>>, 0), Registry(<<Raw(x, x2)>>, 1)}
=============================================================================
