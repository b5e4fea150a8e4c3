-------------------------- MODULE TranscriptRetention --------------------------
(***************************************************************************)
(* Retention of one transcript that is old enough (transcripts/            *)
(* retention.py): finders return ids, and each is archived or soft-deleted *)
(* later, while operators move the transcript through its lifecycle.       *)
(***************************************************************************)
EXTENDS Integers, Sequences

CONSTANTS Archivist,   \* retention runs
          MaxShelfLog  \* bound on the transcript's events

ASSUME RetentionAssumption == MaxShelfLog \in Nat \ {0}

VARIABLES
  shelf,      \* transcript_status and deleted_at of the committed row
  shelfLog,   \* the status each committed event tells
  archivist   \* archivist[a]: the run of a

retentionVars == <<shelf, shelfLog, archivist>>

ShelfStatus == {"created", "active", "paused", "completed", "failed", "archived"}

ShelfMoves ==
  [created |-> {"active", "failed", "archived"},
   active |-> {"paused", "completed", "failed", "archived"},
   paused |-> {"active", "completed", "failed", "archived"},
   completed |-> {"archived"}, failed |-> {"active", "archived"}, archived |-> {}]

Away == [at |-> "none", status |-> "created"]

RetentionInit ==
  /\ shelf = [status |-> "created", deleted |-> FALSE]
  /\ shelfLog = <<"created">>
  /\ archivist = [a \in Archivist |-> Away]

MovesFrom(from, to) ==
  /\ Len(shelfLog) < MaxShelfLog
  /\ to \in ShelfMoves[from]
  /\ shelf' = [shelf EXCEPT !.status = to]
  /\ shelfLog' = Append(shelfLog, to)

\* The lifecycle reads the row FOR UPDATE, deleted or not.
MoveOnShelf(to) == MovesFrom(shelf.status, to) /\ UNCHANGED archivist

Shelves(a, at) ==
  /\ archivist' = [archivist EXCEPT ![a].at = at]
  /\ UNCHANGED <<shelf, shelfLog>>

\* Mutant of FindExpired: failed transcripts are found too.
FindExpired_Failed(a) ==
  /\ archivist[a].at = "none"
  /\ shelf.status \in {"completed", "archived", "failed"} /\ ~ shelf.deleted
  /\ Shelves(a, "expired")

FindExpired(a) ==
  /\ archivist[a].at = "none"
  /\ shelf.status \in {"completed", "archived"} /\ ~ shelf.deleted
  /\ Shelves(a, "expired")

FindArchivableTranscripts(a) ==
  /\ archivist[a].at = "none"
  /\ shelf.status = "completed" /\ ~ shelf.deleted
  /\ Shelves(a, "archivable")

\* soft_delete asks only whether it is deleted already, and logs no event.
SoftDelete(a) ==
  /\ archivist[a].at = "expired"
  /\ shelf' = [shelf EXCEPT !.deleted = TRUE]
  /\ archivist' = [archivist EXCEPT ![a] = Away]
  /\ UNCHANGED shelfLog

\* archive: not found when deleted, nothing to do when archived; the object that
\* is read here is the one the locked read returns.
LoadToArchive(a) ==
  /\ archivist[a].at = "archivable"
  /\ archivist' = [archivist EXCEPT ![a] =
       IF shelf.deleted \/ shelf.status = "archived" THEN Away
       ELSE [at |-> "loaded", status |-> shelf.status]]
  /\ UNCHANGED <<shelf, shelfLog>>

ArchiveLoaded(a) ==
  /\ archivist[a].at = "loaded"
  /\ MovesFrom(archivist[a].status, "archived")
  /\ archivist' = [archivist EXCEPT ![a] = Away]

RetentionNext ==
  \/ \E to \in ShelfStatus : MoveOnShelf(to)
  \/ \E a \in Archivist :
       \/ FindExpired(a) \/ FindArchivableTranscripts(a) \/ SoftDelete(a)
       \/ LoadToArchive(a) \/ ArchiveLoaded(a)

RetentionSpec == RetentionInit /\ [][RetentionNext]_retentionVars

-----------------------------------------------------------------------------
(* Properties *)

RetentionTypeOK ==
  /\ shelf \in [status : ShelfStatus, deleted : BOOLEAN]
  /\ shelfLog \in Seq(ShelfStatus) /\ Len(shelfLog) <= MaxShelfLog
  /\ archivist \in [Archivist ->
       [at : {"none", "expired", "archivable", "loaded"}, status : ShelfStatus]]

\* retention.py: "find transcripts past their retention threshold".  However long
\* ago a run found it, a transcript that is deleted is over, one that is archived
\* a second time was archived already, and the log still tells its status.
RetentionSafe ==
  /\ shelf.deleted => shelf.status \in {"completed", "archived"}
  /\ shelfLog[Len(shelfLog)] = shelf.status
  /\ \A i \in 1 .. Len(shelfLog) - 1 : shelfLog[i] = "archived" => shelfLog[i + 1] = "archived"
=============================================================================
