-------------------------------- MODULE LeadDesk --------------------------------
(***************************************************************************)
(* What operators do with leads (backend/api/routes/leads.py): requests    *)
(* that read one lead, change a field of the object and commit, none of    *)
(* them under a lock; and the creation of a lead from a source record      *)
(* (services/lead_creation.py) or from a message (services/instantdm.py),  *)
(* under the advisory lock of its key, with its conversion                 *)
(* (api/routes/social_leads.py).                                           *)
(*                                                                         *)
(* An UPDATE names the columns whose value differs from the one that was   *)
(* read.  A note is its author, who writes it again only when it is gone:  *)
(* two notes are never the same text.                                      *)
(***************************************************************************)
EXTENDS Integers, FiniteSets

CONSTANTS Desk,        \* requests on the lead
          Taker,       \* requests that create
          Payload,     \* what they create it from
          MaxConverted \* bound on the leads converted from one row

VARIABLES
  lead,      \* the committed lead: its status, its follow-up, its notes
  editing,   \* editing[d]: the request of d
  kept,      \* ghost: confirmed notes that no request on the notes has overtaken
  records,   \* the committed rows with the key: payload, and leads converted from it
  answers,   \* ghost: the payload and the row of every answer
  taker      \* taker[t]: the creation of t

deskVars  == <<lead, editing, kept>>
takerVars == <<records, answers, taker>>

LeadStatus == {"new", "contacted"}
FollowUp   == {"none", "date"}

NewLead == [status |-> "new", followup |-> "none", notes |-> {}]
NoEdit  == [field |-> "none", seen |-> NewLead, asked |-> NewLead]
NoTake == [at |-> "idle", payload |-> "none"]

DeskInit ==
  /\ lead = NewLead
  /\ editing = [d \in Desk |-> NoEdit]
  /\ kept = {}

TakerInit ==
  /\ records = {} /\ answers = {}
  /\ taker = [t \in Taker |-> NoTake]

-----------------------------------------------------------------------------
(* The fields of a lead *)

\* The request reads the lead and holds it, with its field changed, to its commit.
Opens(d, field, asked) ==
  /\ editing[d] = NoEdit
  /\ editing' = [editing EXCEPT ![d] = [field |-> field, seen |-> lead, asked |-> asked]]
  /\ UNCHANGED <<lead, kept>>

UpdateLeadStatus(d, status) == Opens(d, "status", [lead EXCEPT !.status = status])
UpdateFollowup(d, date)     == Opens(d, "followup", [lead EXCEPT !.followup = date])
UpdateLeadNotes(d)          == Opens(d, "rewrite", [lead EXCEPT !.notes = {}])

AddLeadNote(d) ==
  d \notin lead.notes /\ Opens(d, "notes", [lead EXCEPT !.notes = @ \cup {d}])

\* Mutant of Flushed: the row is written as the object has it.
Flushed_Row(d) == editing[d].asked

\* The columns that differ from what was read are written.
Flushed(d) ==
  LET Column(now, read, new) == IF new = read THEN now ELSE new
      seen == editing[d].seen  asked == editing[d].asked
  IN [status   |-> Column(lead.status, seen.status, asked.status),
      followup |-> Column(lead.followup, seen.followup, asked.followup),
      notes    |-> Column(lead.notes, seen.notes, asked.notes)]

\* Notes that a request on the notes did not read are overtaken by it.
CommitDesk(d) ==
  /\ editing[d] # NoEdit
  /\ lead' = Flushed(d)
  /\ kept' = CASE editing[d].field = "notes"   -> (kept \cap editing[d].seen.notes) \cup {d}
               [] editing[d].field = "rewrite" -> {}
               [] OTHER -> kept
  /\ editing' = [editing EXCEPT ![d] = NoEdit]

-----------------------------------------------------------------------------
(* Creation under an advisory lock, which commit and rollback give up *)

\* Mutant of LockKey: without the advisory lock.
LockKey_Open(t, payload) ==
  /\ taker[t].at = "idle"
  /\ taker' = [taker EXCEPT ![t] = [at |-> "locked", payload |-> payload]]
  /\ UNCHANGED <<records, answers>>

LockKey(t, payload) ==
  /\ taker[t].at = "idle"
  /\ \A o \in Taker : taker[o].at \notin {"locked", "missing"}
  /\ taker' = [taker EXCEPT ![t] = [at |-> "locked", payload |-> payload]]
  /\ UNCHANGED <<records, answers>>

\* The one row with the key is returned if it has the same fingerprint; anything
\* else that is found is a conflict.
FindRecord(t) ==
  /\ taker[t].at = "locked"
  /\ IF records = {}
     THEN taker' = [taker EXCEPT ![t].at = "missing"] /\ UNCHANGED answers
     ELSE /\ taker' = [taker EXCEPT ![t] = NoTake]
          /\ answers' = answers \cup
               {<<r.payload, r.id>> : r \in {q \in records : records = {q}
                                                            /\ q.payload = taker[t].payload}}
  /\ UNCHANGED records

CommitRecord(t) ==
  /\ taker[t].at = "missing"
  /\ LET new == [id |-> Cardinality(records) + 1, payload |-> taker[t].payload, lead |-> 0]
     IN  /\ records' = records \cup {new}
         /\ answers' = answers \cup {<<new.payload, new.id>>}
  /\ taker' = [taker EXCEPT ![t] = NoTake]

DropRecord(t) ==
  /\ taker[t].at \in {"locked", "missing"}
  /\ taker' = [taker EXCEPT ![t] = NoTake]
  /\ UNCHANGED <<records, answers>>

\* convert_to_lead asks neither for a lock nor whether it is converted already.
LoadToConvert(t) ==
  /\ taker[t].at = "idle" /\ records # {}
  /\ taker' = [taker EXCEPT ![t].at = "converting"]
  /\ UNCHANGED <<records, answers>>

\* The lead is inserted and the record names it, in one transaction.
ConvertToLead(t, r) ==
  /\ taker[t].at = "converting" /\ r \in records /\ r.lead < MaxConverted
  /\ records' = (records \ {r}) \cup {[r EXCEPT !.lead = @ + 1]}
  /\ taker' = [taker EXCEPT ![t] = NoTake]
  /\ UNCHANGED answers

DeskNext ==
  \E d \in Desk :
    \/ \E status \in LeadStatus : UpdateLeadStatus(d, status)
    \/ \E date \in FollowUp : UpdateFollowup(d, date)
    \/ AddLeadNote(d) \/ UpdateLeadNotes(d) \/ CommitDesk(d)

TakerNext ==
  \E t \in Taker :
    \/ \E payload \in Payload : LockKey(t, payload)
    \/ FindRecord(t) \/ CommitRecord(t) \/ DropRecord(t) \/ LoadToConvert(t)
    \/ \E r \in records : ConvertToLead(t, r)

-----------------------------------------------------------------------------
(* Properties *)

DeskTypeOK ==
  /\ lead \in [status : LeadStatus, followup : FollowUp, notes : SUBSET Desk]
  /\ kept \subseteq Desk
  /\ \A d \in Desk : editing[d] = NoEdit \/ editing[d].field \in {"status", "followup", "notes", "rewrite"}

TakerTypeOK ==
  /\ taker \in [Taker -> [at : {"idle", "locked", "missing", "converting"},
                          payload : Payload \cup {"none"}]]
  /\ answers \subseteq Payload \X Nat

\* leads.py confirms a note with its content.  Requests on other fields that had
\* read the lead before do not undo it: only a request on the notes that had not
\* read it can.
FieldsKeepApart == kept \subseteq lead.notes

\* lead_creation.py and instantdm.py: a repeated request is answered with the row
\* of the first.  However the requests of one key race, fail and are repeated,
\* there is one row, and everybody who was answered was given that row.
OneRowPerKey ==
  /\ Cardinality(records) <= 1
  /\ \A a \in answers : \E r \in records : a = <<r.payload, r.id>>
=============================================================================
