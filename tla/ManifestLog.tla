---------------------------- MODULE ManifestLog ----------------------------
(***************************************************************************)
(* What a table promises to its transactions: a log of manifests that only *)
(* grows.  A transaction begins at some version of the log, and a commit   *)
(* appends one manifest in one atomic step, or does nothing.               *)
(*                                                                         *)
(* There are no files, listings, caches, retries or processes here; module *)
(* Transaction shows how those implement this.                             *)
(***************************************************************************)
EXTENDS Integers, Sequences

CONSTANTS
    Txns,
    Resolver,   \* "Fail", "Overwrite" or "Rebase"
    None        \* a transaction that has not begun, or is gone

VARIABLES
    log,        \* log[v] is the manifest of version v
    snapshot,   \* the version a transaction reads
    acked       \* the versions whose commit was confirmed to the caller

logVars == <<log, snapshot, acked>>

Init ==
    /\ log = << >>
    /\ snapshot = [t \in Txns |-> None]
    /\ acked = [t \in Txns |-> {}]

\* Version 0 is the table without any manifest.
Existing == {0} \cup DOMAIN log

ManifestOf(v) == IF v = 0 THEN << >> ELSE log[v]

Begin(t, v) ==
    /\ snapshot[t] = None
    /\ snapshot' = [snapshot EXCEPT ![t] = v]
    /\ UNCHANGED <<log, acked>>

\* The version a commit of t at the end of the log may build on.  First
\* committer wins for "Fail": the version it read must still be the last.
MayBuildOn(t, b) ==
    /\ Resolver[t] # "Rebase" => b = snapshot[t]
    /\ Resolver[t] # "Overwrite" => b = Len(log)

Commit(t, b, confirmed) ==
    /\ snapshot[t] # None
    /\ MayBuildOn(t, b)
    /\ log' = Append(log, Append(ManifestOf(b), t))
    /\ acked' = IF confirmed
                THEN [acked EXCEPT ![t] = @ \cup {Len(log) + 1}]
                ELSE acked
    /\ UNCHANGED snapshot

\* Transactions end, any number of them at once.
End(S) ==
    /\ snapshot' = [t \in Txns |-> IF t \in S THEN None ELSE snapshot[t]]
    /\ UNCHANGED <<log, acked>>

Next ==
    \/ \E t \in Txns, v \in Existing : Begin(t, v)
    \/ \E t \in Txns, b \in Existing, confirmed \in BOOLEAN :
          Commit(t, b, confirmed)
    \/ \E S \in SUBSET Txns : End(S)

Spec == Init /\ [][Next]_logVars
=============================================================================
