--------------------------- MODULE MCJournalAudit ---------------------------
(* Small instances of JournalAudit, and of the engine it reads, for TLC.   *)
EXTENDS AuditInvariant, MCOrderLifecycle
=============================================================================
