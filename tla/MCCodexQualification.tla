------------------------ MODULE MCCodexQualification ------------------------
(* Two cases, so that a turn may follow a turn; bounds in the cfg.          *)
EXTENDS CodexQualification
=============================================================================
