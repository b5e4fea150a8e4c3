--------------------------- MODULE ContextSnapshots ---------------------------
(***************************************************************************)
(* Where assembled contexts are kept (backend/context): the snapshot row   *)
(* of an assembly key, the cache a process keeps beside it, and the        *)
(* retention that archives and expires snapshots.                          *)
(*                                                                         *)
(* An assembly is several statements of one transaction; its result is     *)
(* cached before the transaction ends, whichever way it ends.              *)
(***************************************************************************)
EXTENDS Integers, FiniteSets

CONSTANTS AssemblyKey,
          Assembler,      \* transactions of the process that assemble
          Retainer,       \* retention runs, each with the row object it loaded
          Budget          \* the token budgets callers ask with

ASSUME ContextAssumption == Budget \subseteq Nat \ {0}

VARIABLES
  snapshot,  \* snapshot[k]: the committed row: its status and its window
  cache,     \* cache[k]: the entry of the process, "stale" once its TTL is over
  assembly,  \* assembly[a]: the transaction of a
  retention, \* retention[r]: the key it means to archive or expire
  spoilt     \* ghost: keys with an entry that no committed row backs

snapshotVars == <<snapshot, cache, assembly, retention, spoilt>>

\* A window is known by the budget it was built for and by who built it.
NoContent  == [budget |-> 0, by |-> "none"]
NoSnapshot == [status |-> "none", window |-> NoContent]
NoEntry    == [window |-> NoContent, stale |-> FALSE]
NoAssembly == [at |-> "none", key |-> "none", window |-> NoContent, own |-> FALSE]
NoTask     == [op |-> "none", key |-> "none"]

SnapshotInit ==
  /\ snapshot = [k \in AssemblyKey |-> NoSnapshot]
  /\ cache = [k \in AssemblyKey |-> NoEntry]
  /\ assembly = [a \in Assembler |-> NoAssembly]
  /\ retention = [r \in Retainer |-> NoTask]
  /\ spoilt = {}

Goes(a, at, k, w, own) ==
  assembly' = [assembly EXCEPT ![a] = [at |-> at, key |-> k, window |-> w, own |-> own]]

\* An uncommitted row with the key makes another insert of it wait.
Inserting(k) == \E a \in Assembler : assembly[a].key = k /\ assembly[a].own

-----------------------------------------------------------------------------
(* ContextAssembler.assemble *)

\* A fresh entry is returned as it is, for whatever budget and layers the
\* caller asks; an expired one is removed.
Lookup(a, k, b) ==
  /\ assembly[a].at = "none"
  /\ IF cache[k].window # NoContent /\ ~ cache[k].stale
     THEN Goes(a, "served", k, cache[k].window, FALSE) /\ UNCHANGED cache
     ELSE /\ Goes(a, "built", k, [budget |-> b, by |-> a], FALSE)
          /\ cache' = [cache EXCEPT ![k] = NoEntry]
  /\ UNCHANGED <<snapshot, retention, spoilt>>

\* create: a committed row, of any status, is returned instead.
FindExisting(a) ==
  LET k == assembly[a].key
  IN /\ assembly[a].at = "built"
     /\ IF snapshot[k] # NoSnapshot THEN Goes(a, "result", k, snapshot[k].window, FALSE)
        ELSE Goes(a, "missing", k, assembly[a].window, FALSE)
     /\ UNCHANGED <<snapshot, cache, retention, spoilt>>

\* Mutant of InsertSnapshot: the key is not unique, nothing is waited for.
InsertSnapshot_Any(a) ==
  /\ assembly[a].at = "missing"
  /\ Goes(a, "result", assembly[a].key, assembly[a].window, TRUE)
  /\ UNCHANGED <<snapshot, cache, retention, spoilt>>

\* The unique key makes it wait for another insert, and fail once that one has
\* committed (then only Rollback is left).
InsertSnapshot(a) ==
  /\ assembly[a].at = "missing"
  /\ ~ Inserting(assembly[a].key) /\ snapshot[assembly[a].key] = NoSnapshot
  /\ Goes(a, "result", assembly[a].key, assembly[a].window, TRUE)
  /\ UNCHANGED <<snapshot, cache, retention, spoilt>>

\* The audit entry is flushed and the result cached.
CacheResult(a) ==
  LET k == assembly[a].key
  IN /\ assembly[a].at = "result"
     /\ cache' = [cache EXCEPT ![k] = [window |-> assembly[a].window, stale |-> FALSE]]
     /\ spoilt' = spoilt \ {k}
     /\ Goes(a, "cached", k, assembly[a].window, assembly[a].own)
     /\ UNCHANGED <<snapshot, retention>>

CommitAssembly(a) ==
  LET k == assembly[a].key
  IN /\ assembly[a].at \in {"cached", "served"}
     /\ IF assembly[a].own
        THEN snapshot' = [snapshot EXCEPT ![k] = [status |-> "active",
                                                  window |-> assembly[a].window]]
        ELSE UNCHANGED snapshot
     /\ Goes(a, "none", "none", NoContent, FALSE)
     /\ UNCHANGED <<cache, retention, spoilt>>

\* Refused by a guardrail, a unique violation, a failure later in the request:
\* the entry stays.
RollbackAssembly(a) ==
  /\ assembly[a].at # "none"
  /\ spoilt' = IF assembly[a].at = "cached" /\ assembly[a].own
               THEN spoilt \cup {assembly[a].key} ELSE spoilt
  /\ Goes(a, "none", "none", NoContent, FALSE)
  /\ UNCHANGED <<snapshot, cache, retention>>

\* 300 seconds pass; the oldest entry makes room for another key; a restart.
EntryExpires(k) ==
  /\ cache[k].window # NoContent /\ ~ cache[k].stale
  /\ cache' = [cache EXCEPT ![k].stale = TRUE]
  /\ UNCHANGED <<snapshot, assembly, retention, spoilt>>

DropEntry(k) ==
  /\ cache[k].window # NoContent
  /\ cache' = [cache EXCEPT ![k] = NoEntry]
  /\ UNCHANGED <<snapshot, assembly, retention, spoilt>>

-----------------------------------------------------------------------------
(* ContextRetentionRuntime *)

FindArchivable(r, k) ==
  /\ retention[r] = NoTask /\ snapshot[k].status = "active"
  /\ retention' = [retention EXCEPT ![r] = [op |-> "archive", key |-> k]]
  /\ UNCHANGED <<snapshot, cache, assembly, spoilt>>

FindExpirable(r, k) ==
  /\ retention[r] = NoTask /\ snapshot[k].status \in {"active", "archived"}
  /\ retention' = [retention EXCEPT ![r] = [op |-> "expire", key |-> k]]
  /\ UNCHANGED <<snapshot, cache, assembly, spoilt>>

\* The status is written without another look.
Retain(r) ==
  /\ retention[r] # NoTask
  /\ snapshot' = [snapshot EXCEPT ![retention[r].key].status =
       IF retention[r].op = "archive" THEN "archived" ELSE "expired"]
  /\ retention' = [retention EXCEPT ![r] = NoTask]
  /\ UNCHANGED <<cache, assembly, spoilt>>

SnapshotNext ==
  \/ \E a \in Assembler :
       \/ \E k \in AssemblyKey, b \in Budget : Lookup(a, k, b)
       \/ FindExisting(a) \/ InsertSnapshot(a) \/ CacheResult(a)
       \/ CommitAssembly(a) \/ RollbackAssembly(a)
  \/ \E k \in AssemblyKey : EntryExpires(k) \/ DropEntry(k)
  \/ \E r \in Retainer :
       \/ \E k \in AssemblyKey : FindArchivable(r, k) \/ FindExpirable(r, k)
       \/ Retain(r)

SnapshotSpec == SnapshotInit /\ [][SnapshotNext]_snapshotVars

-----------------------------------------------------------------------------
(* Properties *)

Content == [budget : Budget, by : Assembler] \cup {NoContent}

SnapshotTypeOK ==
  /\ snapshot \in [AssemblyKey ->
       [status : {"none", "active", "archived", "expired"}, window : Content]]
  /\ cache \in [AssemblyKey -> [window : Content, stale : BOOLEAN]]
  /\ assembly \in [Assembler ->
       [at : {"none", "served", "built", "missing", "result", "cached"},
        key : AssemblyKey \cup {"none"}, window : Content, own : BOOLEAN]]
  /\ retention \in [Retainer ->
       [op : {"none", "archive", "expire"}, key : AssemblyKey \cup {"none"}]]
  /\ spoilt \subseteq AssemblyKey

\* snapshot.py: "Idempotent on assembly_key".  Whoever assembles a key, and
\* however inserts, cache and retention interleave, the cache shows the window
\* of the committed row, or of the row about to be committed, save for an entry
\* whose transaction was rolled back after it was cached.
CacheAgrees ==
  \A k \in AssemblyKey :
    cache[k].window # NoContent /\ k \notin spoilt =>
      \/ snapshot[k].window = cache[k].window
      \/ \E a \in Assembler : /\ assembly[a].key = k /\ assembly[a].own
                              /\ assembly[a].window = cache[k].window
=============================================================================
