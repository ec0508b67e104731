--------------------------- MODULE MCRecordReplay ---------------------------
(* Two rounds of two agents, two prompts, one text and one retry.           *)
EXTENDS AttemptEvidence, TLC

Symmetry == Permutations(Prompts)
MCVariants == {"1.1", "1.2"}
MCDifferences == {{}, {"execution_config_hash"}, {"scientific_config_hash"}}
=============================================================================
