------------------------------ MODULE Transcripts ------------------------------
(***************************************************************************)
(* One transcript (backend/transcripts): its lifecycle and chunks          *)
(* (runtime/runtime.py), the streams that write to it (stream.py), and the *)
(* event log they share, from which replay() and a reader derive it all.   *)
(*                                                                         *)
(* Lifecycle operations lock the transcript's row, a stream's operations   *)
(* only the stream's, and both number their events MAX(sequence) + 1 of    *)
(* what is committed: no index makes (transcript, sequence) unique.  An    *)
(* inserted chunk or stream holds a share of the transcript's row through  *)
(* its foreign key, so that lifecycle operations wait for it to commit.    *)
(***************************************************************************)
EXTENDS Integers, FiniteSets

CONSTANTS Stream,         \* stream keys
          MaxSequence,    \* bound on the sequence numbers of events
          MaxChunkIndex   \* bound on chunk indexes

ASSUME TranscriptAssumption ==
  MaxSequence \in Nat /\ MaxChunkIndex \in Nat /\ "transcript" \notin Stream

VARIABLES
  transcript,       \* transcript_status
  chunks,           \* the indexes of the committed chunks
  transcriptLog,    \* the committed transcript_events
  streams,          \* streams[s]: the committed row
  streamWork        \* streamWork[s]: the open transaction that holds the row

transcriptVars == <<transcript, chunks, transcriptLog, streams, streamWork>>

TranscriptStatus == {"created", "active", "paused", "completed", "failed", "archived"}
StreamStatus == {"absent", "pending", "active", "interrupted", "completed", "cancelled",
                 "failed"}
StreamTerminal == {"completed", "cancelled", "failed"}

StreamRow == [status : StreamStatus, last : -1 .. MaxChunkIndex]
IdleWork == [at |-> "idle"]

TranscriptTransitions(from) ==
  CASE from = "created" -> {"active", "failed", "archived"}
    [] from = "active" -> {"paused", "completed", "failed", "archived"}
    [] from = "paused" -> {"active", "completed", "failed", "archived"}
    [] from = "completed" -> {"archived"}
    [] from = "failed" -> {"active", "archived"}
    [] from = "archived" -> {}

TranscriptInit ==
  /\ transcript = "created"
  /\ chunks = {}
  /\ transcriptLog = {[sequence |-> 0, of |-> "transcript",
                      row |-> [status |-> "created", last |-> -1]]}
  /\ streams = [s \in Stream |-> [status |-> "absent", last |-> -1]]
  /\ streamWork = [s \in Stream |-> IdleWork]

\* Mutant of NextSequence: MAX(sequence), without the one after it.
NextSequence_Same(n) ==
  (\E e \in transcriptLog : e.sequence = n) /\ (\A e \in transcriptLog : e.sequence <= n)

\* n is MAX(sequence) + 1
NextSequence(n) ==
  (\E e \in transcriptLog : e.sequence = n - 1) /\ (\A e \in transcriptLog : e.sequence < n)

\* i is COALESCE(MAX(chunk_index) + 1, 0)
NextChunkIndex(i) == (i = 0 \/ i - 1 \in chunks) /\ (\A c \in chunks : c < i)

LogTranscript(status) ==
  \E n \in 0 .. MaxSequence :
    /\ NextSequence(n)
    /\ transcriptLog' = transcriptLog \cup
         {[sequence |-> n, of |-> "transcript", row |-> [status |-> status, last |-> -1]]}

-----------------------------------------------------------------------------
(* The transcript: each operation commits under FOR UPDATE of its row *)

SharesTranscript(s) ==
  /\ streamWork[s].at \in {"flushed", "numbered"}
  /\ streamWork[s].type \in {"stream.created", "stream.chunk_committed"}

TranscriptLocked == \A s \in Stream : ~SharesTranscript(s)

TransitionTranscript(to) ==
  /\ TranscriptLocked
  /\ to \in TranscriptTransitions(transcript)
  /\ transcript' = to
  /\ LogTranscript(to)
  /\ UNCHANGED <<chunks, streams, streamWork>>

\* start() takes a paused transcript too, and resume() one that never started.
StartTranscript    == TransitionTranscript("active")
ResumeTranscript   == TransitionTranscript("active")
PauseTranscript    == TransitionTranscript("paused")
CompleteTranscript == TransitionTranscript("completed")
FailTranscript     == TransitionTranscript("failed")
ArchiveTranscript  == TransitionTranscript("archived")

\* append_chunk: at the next index, or at the caller's
AppendChunk(i, explicit) ==
  /\ TranscriptLocked /\ transcript = "active"
  /\ IF explicit THEN i \notin chunks ELSE NextChunkIndex(i)
  /\ chunks' = chunks \cup {i}
  /\ LogTranscript("chunk_added")
  /\ UNCHANGED <<transcript, streams, streamWork>>

-----------------------------------------------------------------------------
(* Streams: a transaction locks the row and writes it, inserts the chunk if *)
(* there is one, reads the next sequence, and inserts its event and commits *)

streamUnchanged == <<transcript, chunks, transcriptLog, streams>>

BeginWork(s, at, type, row, index) ==
  /\ streamWork[s] = IdleWork
  /\ streamWork' = [streamWork EXCEPT ![s] =
       [at |-> at, type |-> type, row |-> row, index |-> index, sequence |-> -1]]
  /\ UNCHANGED streamUnchanged

MoveStream(s, from, type, to) ==
  /\ streams[s].status \in from
  /\ BeginWork(s, "flushed", type, [streams[s] EXCEPT !.status = to], -1)

OpenStreams == StreamStatus \ ({"absent"} \cup StreamTerminal)

CreateStream(s)    == MoveStream(s, {"absent"}, "stream.created", "pending")
StartStream(s)     == MoveStream(s, {"pending"}, "stream.started", "active")
CompleteStream(s)  == MoveStream(s, {"active"}, "stream.completed", "completed")
InterruptStream(s) == MoveStream(s, {"active"}, "stream.interrupted", "interrupted")
ResumeStream(s)    == MoveStream(s, {"interrupted"}, "stream.resumed", "active")
CancelStream(s)    == MoveStream(s, OpenStreams, "stream.cancelled", "cancelled")
FailStream(s)      == MoveStream(s, OpenStreams, "stream.failed", "failed")

\* partial_text is replaced, which no one reads back; the event is numbered.
ReceivePartial(s) ==
  /\ streams[s].status = "active"
  /\ BeginWork(s, "flushed", "stream.partial_updated", streams[s], -1)

\* commit_chunk asks nothing of the transcript, and holds no lock on it here.
CommitChunk(s, i) ==
  /\ streams[s].status = "active"
  /\ NextChunkIndex(i)
  /\ BeginWork(s, "indexed", "stream.chunk_committed",
               [streams[s] EXCEPT !.last = i], i)

\* The unique index on (transcript, chunk_index) makes it wait, or fail.
InsertChunk(s) ==
  /\ streamWork[s].at = "indexed"
  /\ streamWork[s].index \notin chunks
  /\ \A o \in Stream \ {s} : SharesTranscript(o) => streamWork[o].index # streamWork[s].index
  /\ streamWork' = [streamWork EXCEPT ![s].at = "flushed"]
  /\ UNCHANGED streamUnchanged

ReadSequence(s, n) ==
  /\ streamWork[s].at = "flushed"
  /\ NextSequence(n)
  /\ streamWork' = [streamWork EXCEPT ![s].at = "numbered", ![s].sequence = n]
  /\ UNCHANGED streamUnchanged

CommitStream(s) ==
  /\ streamWork[s].at = "numbered"
  /\ LET work == streamWork[s]
     IN  /\ transcriptLog' = transcriptLog \cup
              {[sequence |-> work.sequence, of |-> s, row |-> work.row]}
         /\ streams' = [streams EXCEPT ![s] = work.row]
         /\ chunks' = chunks \cup ({work.index} \ {-1})
  /\ streamWork' = [streamWork EXCEPT ![s] = IdleWork]
  /\ UNCHANGED transcript

RollbackStream(s) ==
  /\ streamWork[s] # IdleWork
  /\ streamWork' = [streamWork EXCEPT ![s] = IdleWork]
  /\ UNCHANGED streamUnchanged

TranscriptNext ==
  \/ StartTranscript \/ ResumeTranscript \/ PauseTranscript \/ CompleteTranscript
  \/ FailTranscript \/ ArchiveTranscript
  \/ \E i \in 0 .. MaxChunkIndex :
       \/ \E explicit \in BOOLEAN : AppendChunk(i, explicit)
       \/ \E s \in Stream : CommitChunk(s, i)
  \/ \E s \in Stream :
       \/ CreateStream(s) \/ StartStream(s) \/ CompleteStream(s) \/ InterruptStream(s)
       \/ ResumeStream(s) \/ CancelStream(s) \/ FailStream(s) \/ ReceivePartial(s)
       \/ InsertChunk(s) \/ CommitStream(s) \/ RollbackStream(s)
       \/ \E n \in 0 .. MaxSequence : ReadSequence(s, n)

TranscriptSpec == TranscriptInit /\ [][TranscriptNext]_transcriptVars

-----------------------------------------------------------------------------
(* Properties *)

TranscriptTypeOK ==
  /\ transcript \in TranscriptStatus
  /\ chunks \subseteq 0 .. MaxChunkIndex
  /\ streams \in [Stream -> StreamRow]
  /\ \A s \in Stream :
       streamWork[s] = IdleWork
         \/ /\ streamWork[s].at \in {"indexed", "flushed", "numbered"}
            /\ streamWork[s].row \in StreamRow
            /\ streamWork[s].index \in -1 .. MaxChunkIndex
            /\ streamWork[s].sequence \in -1 .. MaxSequence

\* Events of different writers may share a sequence number, and ties are read
\* in no particular order.
LastOf(events) == {e \in events : \A f \in events : f.sequence <= e.sequence}

\* runtime.py, "Derive transcript state from event log ... Deterministic", and
\* "resume(): restores stream from last_chunk_index": in whatever order ties
\* are read, the last status event is the transcript's status, a stream's last
\* event is its row, and the chunk a stream resumes after is there, with every
\* chunk of its own at or before it.
LogTellsState ==
  /\ \A e \in LastOf({f \in transcriptLog : f.of = "transcript" /\ f.row.status # "chunk_added"}) :
       e.row.status = transcript
  /\ \A s \in Stream :
       /\ \A e \in LastOf({f \in transcriptLog : f.of = s}) : e.row = streams[s]
       /\ streams[s].last \in chunks \cup {-1}
       /\ \A e \in transcriptLog : e.of = s => e.row.last <= streams[s].last
=============================================================================
