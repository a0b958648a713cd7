-------------------------- MODULE MCMetadataCache --------------------------
(***************************************************************************)
(* Synchronous callers s1, s2, s3 (s1 and s2 on the executor's threads),   *)
(* asynchronous callers a1, a2, and d, which adds metadata.                *)
(***************************************************************************)
EXTENDS MetadataCache, TLC

CONSTANTS s1, s2, s3, a1, a2, d

MCKind == [c \in Callers |-> IF c = d THEN "add"
                             ELSE IF c \in {a1, a2} THEN "async" ELSE "sync"]
MCOnPool == Callers \cap {s1, s2}

=============================================================================
