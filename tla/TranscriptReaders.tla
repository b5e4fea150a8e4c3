--------------------------- MODULE TranscriptReaders ---------------------------
(***************************************************************************)
(* Those who read the chunks of a transcript while they are written: the   *)
(* consumer that resumes after the last checkpoint (checkpointing.py), the *)
(* client that pages through GET /chunks (api/routes/transcripts.py), the  *)
(* reconstruction of the text (reconstruction.py) and the metadata index   *)
(* (search_index.py).  A chunk is its chunk_index.                         *)
(***************************************************************************)
EXTENDS Integers, FiniteSets

CONSTANTS Penman,      \* transactions that write a chunk
          Consumer,    \* transactions that read and set a checkpoint
          MaxIndex,    \* bound on chunk indexes
          FetchLimit,  \* the limit of chunks_since
          PageSize

ASSUME ReadersAssumption == MaxIndex \in Nat /\ FetchLimit \in Nat \ {0} /\ PageSize \in Nat \ {0}

VARIABLES
  audience,   \* the kind of reader in this behaviour: they have no effect on each other
  rows,       \* the committed chunks
  pen,        \* pen[w]: the chunk being written
  marks,      \* the committed checkpoints
  consumer,   \* consumer[c]: the transaction of c
  consumed,   \* ghost: the chunks some committed transaction has worked on
  misplaced,  \* ghost: the chunks that were committed below another
  placed,     \* ghost: a caller has chosen an index
  index,      \* the chunks the metadata index has counted, and whether it is being built
  pager,      \* the client that pages: next page, what it has, what it is owed
  text        \* a reconstruction somebody was told: its chunks, read in index order

readersVars ==
  <<audience, rows, pen, marks, consumer, consumed, misplaced, placed, index, pager, text>>

Unwritten == [at |-> "idle", index |-> 0]
Unread    == [at |-> "idle", batch |-> {}, mark |-> -1]

ReadersInit ==
  /\ audience \in {"consumer", "client", "indexer"}
  /\ rows = {} /\ pen = [w \in Penman |-> Unwritten]
  /\ marks = {} /\ consumer = [c \in Consumer |-> Unread] /\ consumed = {}
  /\ misplaced = {} /\ placed = FALSE
  /\ index = [at |-> "idle", counted |-> {}]
  /\ pager = [page |-> 0, seen |-> {}, owed |-> {}]
  /\ text = {}

FirstOf(set, n) == {i \in set : Cardinality({j \in set : j < i}) < n}

-----------------------------------------------------------------------------
(* Writers *)

HoldsShare(w) == pen[w].at = "inserted"

writersUnchanged == <<audience, marks, consumer, consumed, index, pager, text>>

Appears(i) ==
  /\ rows' = rows \cup {i}
  /\ misplaced' = IF \E j \in rows : j > i THEN misplaced \cup {i} ELSE misplaced

\* A stream reads MAX(chunk_index) + 1 without a lock on the transcript.
PickIndex(w, i) ==
  /\ pen[w].at = "idle"
  /\ (i = 0 \/ i - 1 \in rows) /\ \A j \in rows : j < i
  /\ pen' = [pen EXCEPT ![w] = [at |-> "picked", index |-> i]]
  /\ UNCHANGED <<rows, misplaced, placed, writersUnchanged>>

\* The foreign key takes a share of the transcript; the unique index waits for
\* the other writer of this index.
InsertRow(w) ==
  /\ pen[w].at = "picked" /\ pen[w].index \notin rows
  /\ index.at = "idle"
  /\ \A o \in Penman : HoldsShare(o) => pen[o].index # pen[w].index
  /\ pen' = [pen EXCEPT ![w].at = "inserted"]
  /\ UNCHANGED <<rows, misplaced, placed, writersUnchanged>>

CommitRow(w) ==
  /\ HoldsShare(w)
  /\ Appears(pen[w].index)
  /\ pen' = [pen EXCEPT ![w] = Unwritten]
  /\ UNCHANGED <<placed, writersUnchanged>>

DropRow(w) ==
  /\ pen[w].at # "idle"
  /\ pen' = [pen EXCEPT ![w] = Unwritten]
  /\ UNCHANGED <<rows, misplaced, placed, writersUnchanged>>

TranscriptFree == index.at = "idle" /\ \A w \in Penman : ~ HoldsShare(w)

\* POST /chunks with an index of the caller's, under FOR UPDATE of the transcript.
PlaceChunk(i) ==
  /\ TranscriptFree /\ i \notin rows
  /\ Appears(i) /\ placed' = TRUE
  /\ UNCHANGED <<pen, writersUnchanged>>

-----------------------------------------------------------------------------
(* The consumer: get_latest, chunks_since, its work, set, commit *)

consumersUnchanged == <<audience, rows, pen, misplaced, placed, index, pager, text>>

LatestMark(set) == CHOOSE m \in set \cup {-1} : \A n \in set : n <= m

\* Mutant of AfterIndex: the newest come first.
AfterIndex_Newest(after, limit) ==
  {i \in rows : i > after /\ Cardinality({j \in rows : j > i}) < limit}

\* get_after_index: ascending, up to the limit
AfterIndex(after, limit) == FirstOf({i \in rows : i > after}, limit)

GetLatestMark(c) ==
  /\ consumer[c].at = "idle"
  /\ consumer' = [consumer EXCEPT ![c].at = "marked", ![c].mark = LatestMark(marks)]
  /\ UNCHANGED <<marks, consumed, consumersUnchanged>>

ChunksSince(c) ==
  /\ consumer[c].at = "marked"
  /\ AfterIndex(consumer[c].mark, FetchLimit) # {}
  /\ consumer' = [consumer EXCEPT ![c].at = "fetched",
                    ![c].batch = AfterIndex(consumer[c].mark, FetchLimit)]
  /\ UNCHANGED <<marks, consumed, consumersUnchanged>>

Reached(c) == LatestMark(consumer[c].batch)

\* The checkpoint that exists is returned.
FindMark(c) ==
  /\ consumer[c].at = "fetched"
  /\ consumer' = [consumer EXCEPT ![c].at =
       IF Reached(c) \in marks THEN "marked twice" ELSE "unmarked"]
  /\ UNCHANGED <<marks, consumed, consumersUnchanged>>

\* The insert waits for another of the same position; if that one commits, the
\* session is rolled back, and the work on the batch with it.
InsertMark(c) ==
  /\ consumer[c].at = "unmarked"
  /\ \A d \in Consumer : consumer[d].at = "inserted" => Reached(d) # Reached(c)
  /\ consumer' = [consumer EXCEPT ![c] =
       IF Reached(c) \in marks THEN Unread ELSE [@ EXCEPT !.at = "inserted"]]
  /\ UNCHANGED <<marks, consumed, consumersUnchanged>>

CommitMark(c) ==
  /\ consumer[c].at \in {"inserted", "marked twice"}
  /\ consumed' = consumed \cup consumer[c].batch
  /\ marks' = marks \cup {Reached(c)}
  /\ consumer' = [consumer EXCEPT ![c] = Unread]
  /\ UNCHANGED consumersUnchanged

\* The consumer stops or fails: its session rolls back.
ForgetChunks(c) ==
  /\ consumer[c].at # "idle"
  /\ consumer' = [consumer EXCEPT ![c] = Unread]
  /\ UNCHANGED <<marks, consumed, consumersUnchanged>>

-----------------------------------------------------------------------------
(* Paging, reconstruction and the metadata index *)

othersUnchanged == <<audience, rows, pen, marks, consumer, consumed, misplaced, placed>>

GetByTranscript(page) ==
  {i \in rows : LET before == Cardinality({j \in rows : j < i})
                IN (page - 1) * PageSize <= before /\ before < page * PageSize}

\* A page that is not full is the last.
GetChunks ==
  /\ LET page == pager.page + 1
         rest == GetByTranscript(page)
         owed == IF page = 1 THEN rows ELSE pager.owed
         seen == pager.seen \cup rest
     IN pager' = IF Cardinality(rest) = PageSize
                 THEN [page |-> page, seen |-> seen, owed |-> owed]
                 ELSE [page |-> 0, seen |-> {}, owed |-> owed \ seen]
  /\ UNCHANGED <<othersUnchanged, index, text>>

Reconstruct(after, upto) == {i \in rows : after < i /\ i <= upto}

ReadText ==
  /\ text' = Reconstruct(-1, MaxIndex)
  /\ UNCHANGED <<othersUnchanged, index, pager>>

\* Mutant of LockIndexed: the transcript is read without FOR UPDATE.
LockIndexed_Unlocked ==
  /\ index.at = "idle"
  /\ index' = [index EXCEPT !.at = "locked"]
  /\ UNCHANGED <<othersUnchanged, pager, text>>

\* build_index reads the transcript FOR UPDATE.
LockIndexed ==
  /\ TranscriptFree
  /\ index' = [index EXCEPT !.at = "locked"]
  /\ UNCHANGED <<othersUnchanged, pager, text>>

CountChunks ==
  /\ index.at = "locked"
  /\ index' = [at |-> "counted", counted |-> rows]
  /\ UNCHANGED <<othersUnchanged, pager, text>>

CommitIndex ==
  /\ index.at = "counted"
  /\ index' = [index EXCEPT !.at = "idle"]
  /\ UNCHANGED <<othersUnchanged, pager, text>>

ReadersNext ==
  \/ \E w \in Penman : InsertRow(w) \/ CommitRow(w) \/ DropRow(w)
  \/ \E i \in 0..MaxIndex : PlaceChunk(i) \/ \E w \in Penman : PickIndex(w, i)
  \/ /\ audience = "consumer"
     /\ \E c \in Consumer :
          \/ GetLatestMark(c) \/ ChunksSince(c) \/ FindMark(c) \/ InsertMark(c)
          \/ CommitMark(c) \/ ForgetChunks(c)
  \/ audience = "client" /\ (GetChunks \/ ReadText)
  \/ audience = "indexer" /\ (LockIndexed \/ CountChunks \/ CommitIndex)

ReadersSpec == ReadersInit /\ [][ReadersNext]_readersVars

-----------------------------------------------------------------------------
(* Properties *)

ReadersTypeOK ==
  /\ rows \subseteq 0..MaxIndex /\ marks \subseteq rows
  /\ pen \in [Penman -> [at : {"idle", "picked", "inserted"}, index : 0..MaxIndex]]
  /\ consumer \in [Consumer ->
       [at : {"idle", "marked", "fetched", "unmarked", "inserted", "marked twice"},
        batch : SUBSET (0..MaxIndex), mark : -1..MaxIndex]]
  /\ consumed \subseteq rows /\ misplaced \subseteq rows /\ placed \in BOOLEAN
  /\ index \in [at : {"idle", "locked", "counted"}, counted : SUBSET (0..MaxIndex)]
  /\ pager \in [page : 0..MaxIndex + 1, seen : SUBSET (0..MaxIndex),
                owed : SUBSET (0..MaxIndex)]
  /\ text \subseteq 0..MaxIndex

\* models/transcript_checkpoint.py: "callers always resume from the latest".  With
\* several consumers, of whom some fail and some lose the race for a checkpoint
\* and their work with it, and with concurrent writers, no chunk up to the latest
\* checkpoint has been skipped, and the index that writers choose by themselves
\* is never below another: only a caller's explicit index can be overtaken.
NothingSkipped ==
  /\ \A i \in rows : i <= LatestMark(marks) => i \in consumed \cup misplaced
  /\ misplaced # {} => placed

\* One text begins another: what the other has more comes after it.
Begins(told, now) == told \subseteq now /\ \A i \in now \ told, j \in told : j < i

\* A client that has paged to the end has every chunk that was there when it
\* began; a text told earlier begins every text told later; and the metadata
\* index counts no chunk that is not there, and misses none, when it commits.
ReadersAgree ==
  /\ pager.page = 0 => pager.owed = {}
  /\ misplaced = {} => Begins(text, Reconstruct(-1, MaxIndex))
  /\ index.at = "counted" => index.counted = rows

ReadersSound == NothingSkipped /\ ReadersAgree
=============================================================================
