---------------------------- MODULE ResearchStore ----------------------------
(***************************************************************************)
(* What the tasks of a research job write down: evidence for one content   *)
(* (backend/research/evidence.py) and the job-scoped memory under one key  *)
(* (memory.py).                                                            *)
(*                                                                         *)
(* Both look for a row first and insert one if there is none; nothing is   *)
(* locked.  No unique index covers evidence, and the one of memory has a   *)
(* task_id that is NULL for the job's own entries, which makes every row   *)
(* distinct.  A row is named after the transaction that inserts it.        *)
(***************************************************************************)
EXTENDS FiniteSets, Naturals

CONSTANTS Scribe    \* transactions; each inserts at most one row of each kind

VARIABLES
  evidence,    \* evidence[w]: the status of the row w inserted, or "none"
  memory,      \* memory[w]: "none", "live" or "expired"
  intent       \* intent[w]: what w has read lets it do

noteVars == <<evidence, memory, intent>>

NoteInit ==
  /\ evidence = [w \in Scribe |-> "none"]
  /\ memory = [w \in Scribe |-> "none"]
  /\ intent = [w \in Scribe |-> <<"none">>]

EvidenceRows == {w \in Scribe : evidence[w] # "none"}
MemoryRows == {w \in Scribe : memory[w] # "none"}

Intend(w, what) ==
  /\ intent[w] = <<"none">>
  /\ intent' = [intent EXCEPT ![w] = what]
  /\ UNCHANGED <<evidence, memory>>

Carried(w) == intent' = [intent EXCEPT ![w] = <<"none">>]

-----------------------------------------------------------------------------
(* Evidence *)

\* get_by_hash finds none; one is returned as a duplicate, more than one raises.
MissEvidence(w) == EvidenceRows = {} /\ evidence[w] = "none" /\ Intend(w, <<"record">>)

RecordEvidence(w) ==
  /\ intent[w] = <<"record">>
  /\ evidence' = [evidence EXCEPT ![w] = "pending"]
  /\ Carried(w)
  /\ UNCHANGED memory

\* accept and reject read the row, and write it later.
ReadEvidence(w, row, verdict) ==
  /\ evidence[row] \in {"pending", "accepted", "rejected"} \ {verdict}
  /\ Intend(w, <<verdict, row>>)

DecideEvidence(w, row, verdict) ==
  /\ intent[w] = <<verdict, row>>
  /\ evidence' = [evidence EXCEPT ![row] = verdict]
  /\ Carried(w)
  /\ UNCHANGED memory

-----------------------------------------------------------------------------
(* Memory *)

\* write() looks the entry up: none, or one; more than one raises.
LookUpMemory(w) ==
  \/ MemoryRows = {} /\ Intend(w, <<"insert">>)
  \/ \E row \in Scribe : MemoryRows = {row} /\ Intend(w, <<"overwrite", row>>)

InsertMemory(w) ==
  /\ intent[w] = <<"insert">> /\ memory[w] = "none"
  /\ memory' = [memory EXCEPT ![w] = "live"]
  /\ Carried(w)
  /\ UNCHANGED evidence

\* An UPDATE of a row that is gone matches nothing, and raises.
OverwriteMemory(w, row) ==
  /\ intent[w] = <<"overwrite", row>> /\ memory[row] # "none"
  /\ memory' = [memory EXCEPT ![row] = "live"]
  /\ Carried(w)
  /\ UNCHANGED evidence

Elapse(row) ==
  /\ memory[row] = "live"
  /\ memory' = [memory EXCEPT ![row] = "expired"]
  /\ UNCHANGED <<evidence, intent>>

\* read() deletes what it finds expired; expire_stale() all of them.
ReadMemory(row) ==
  /\ MemoryRows = {row} /\ memory[row] = "expired"
  /\ memory' = [memory EXCEPT ![row] = "none"]
  /\ UNCHANGED <<evidence, intent>>

ExpireStale ==
  /\ memory' = [w \in Scribe |-> IF memory[w] = "expired" THEN "none" ELSE memory[w]]
  /\ UNCHANGED <<evidence, intent>>

ClearJob ==
  /\ memory' = [w \in Scribe |-> "none"]
  /\ UNCHANGED <<evidence, intent>>

GiveUp(w) ==
  /\ intent[w] # <<"none">>
  /\ Carried(w)
  /\ UNCHANGED <<evidence, memory>>

NoteNext ==
  \/ \E w \in Scribe :
       \/ MissEvidence(w) \/ RecordEvidence(w)
       \/ \E row \in Scribe, verdict \in {"accepted", "rejected"} :
            ReadEvidence(w, row, verdict) \/ DecideEvidence(w, row, verdict)
       \/ LookUpMemory(w) \/ InsertMemory(w) \/ GiveUp(w)
       \/ \E row \in Scribe : OverwriteMemory(w, row)
       \/ Elapse(w) \/ ReadMemory(w)
  \/ ExpireStale \/ ClearJob

NoteSpec == NoteInit /\ [][NoteNext]_noteVars

-----------------------------------------------------------------------------
(* Properties *)

NoteTypeOK ==
  /\ evidence \in [Scribe -> {"none", "pending", "accepted", "rejected"}]
  /\ memory \in [Scribe -> {"none", "live", "expired"}]
  /\ \A w \in Scribe :
       intent[w] \in {<<"none">>, <<"record">>, <<"insert">>}
                       \cup ({"accepted", "rejected", "overwrite"} \X Scribe)

\* evidence.py:4, "same hash within one job = duplicate", and memory.py:35,
\* "Upsert semantics": one row of each at most.
\* The code does not keep this: a claim on record, asked by no run.
OneRowEach == Cardinality(EvidenceRows) <= 1 /\ Cardinality(MemoryRows) <= 1
=============================================================================
