---------------------------- MODULE VoiceIngest ------------------------------
(***************************************************************************)
(* The call events of the voice source (backend/api/routes/ingest.py,      *)
(* services/voice_ingest.py) for one provider call.                        *)
(*                                                                         *)
(* The source sends at least once and in any order.  Every handler takes   *)
(* the call's advisory lock first, looks for a receipt of its event key,   *)
(* and commits its writes with a new receipt: one step each.               *)
(***************************************************************************)
EXTENDS Integers, FiniteSets

CONSTANTS Speaker, TurnIndex,   \* the turns the source reports
          Body,                 \* the contents an event of one key can have
          MaxReceipts           \* receipts per call (5000)

ASSUME IngestAssumption ==
  TurnIndex \subseteq Nat /\ IsFiniteSet(TurnIndex) /\ MaxReceipts \in Nat

VARIABLES
  ingested,     \* ingest_receipts: event key and body fingerprint
  callStatus,   \* calls.call_status, "none" before the first event
  conversation  \* the sophia_sessions row of the call: status, turn_count, turns

ingestVars == <<ingested, callStatus, conversation>>

TurnKey == Speaker \X TurnIndex
EndKey  == {"complete", "ended", "failed"}
Once(name) == <<name>>     \* the event keys without a speaker and an index
EventKey == TurnKey \cup {Once(name) : name \in EndKey \cup {"call", "transcript"}}

IngestInit ==
  /\ ingested = {}
  /\ callStatus = "none"
  /\ conversation = [status |-> "none", count |-> 0, turns |-> {}]

Known(key) == \E r \in ingested : r.key = key

\* Mutant of Fresh: the event is looked up with its contents, so that a second
\* version of it is taken for another event.
Fresh_ByBody(key, body) == [key |-> key, body |-> body] \notin ingested

\* replay: a known key is answered from its receipt, or with 409 when the
\* contents differ; acknowledge stores a receipt while the budget lasts.
Fresh(key, body) == ~ Known(key) /\ Cardinality(ingested) < MaxReceipts

Acknowledge(key, body) == ingested' = ingested \cup {[key |-> key, body |-> body]}

\* find_call: the one call of the provider's id, which is locked.
FindCall == callStatus # "none"

\* exact_session and start_session: the call has one session.
ExactSession == conversation.status # "none"
StartSession == conversation' = [conversation EXCEPT !.status = "active"]

-----------------------------------------------------------------------------
IngestCall(body) ==
  /\ callStatus = "none"
  /\ Fresh(Once("call"), body)
  /\ Acknowledge(Once("call"), body)
  /\ callStatus' = "connected"
  /\ StartSession

\* Mutant of IngestTurn: the count follows the turn that came last.
IngestTurn_Last(speaker, index, body) ==
  /\ FindCall /\ ExactSession
  /\ Fresh(<<speaker, index>>, body)
  /\ Acknowledge(<<speaker, index>>, body)
  /\ conversation' = [conversation EXCEPT !.count = index + 1,
                                          !.turns = @ \cup {<<speaker, index>>}]
  /\ UNCHANGED callStatus

IngestTurn(speaker, index, body) ==
  /\ FindCall /\ ExactSession
  /\ Fresh(<<speaker, index>>, body)
  /\ Acknowledge(<<speaker, index>>, body)
  /\ conversation' = [conversation EXCEPT !.count = IF index + 1 > @ THEN index + 1 ELSE @,
                                          !.turns = @ \cup {<<speaker, index>>}]
  /\ UNCHANGED callStatus

\* Mutant of Ended: a completion that comes after a failure replaces it.
Ended_Replaces(key) == IF key = "failed" THEN "failed" ELSE "completed"

\* finish: a failed call stays failed.
Ended(key) == IF key = "failed" \/ callStatus = "failed" THEN "failed" ELSE "completed"

Finish(key, body) ==
  /\ FindCall /\ ExactSession
  /\ Fresh(Once(key), body)
  /\ Acknowledge(Once(key), body)
  /\ callStatus' = Ended(key)
  /\ conversation' = [conversation EXCEPT !.status = Ended(key)]

IngestTranscript(body) ==
  /\ FindCall
  /\ Fresh(Once("transcript"), body)
  /\ Acknowledge(Once("transcript"), body)
  /\ UNCHANGED <<callStatus, conversation>>

IngestNext ==
  \E body \in Body :
    \/ IngestCall(body)
    \/ \E speaker \in Speaker, index \in TurnIndex : IngestTurn(speaker, index, body)
    \/ \E key \in EndKey : Finish(key, body)
    \/ IngestTranscript(body)

IngestSpec == IngestInit /\ [][IngestNext]_ingestVars

-----------------------------------------------------------------------------
(* Properties *)

IngestTypeOK ==
  /\ ingested \subseteq [key : EventKey, body : Body]
  /\ callStatus \in {"none", "connected", "completed", "failed"}
  /\ conversation \in [status : {"none", "active", "completed", "failed"},
                       count : {0} \cup {i + 1 : i \in TurnIndex}, turns : SUBSET TurnKey]

\* Events may come in any order and again: what the dashboard ends up with
\* depends only on the set of events it acknowledged.  A failure that was
\* reported counts whatever else was, the conversation agrees with the call,
\* and the turn count is that of the highest turn seen.
OutcomeIsOrderFree ==
  /\ callStatus = IF Known(Once("failed")) THEN "failed"
                  ELSE IF Known(Once("complete")) \/ Known(Once("ended")) THEN "completed"
                  ELSE IF Known(Once("call")) THEN "connected" ELSE "none"
  /\ conversation.status = IF callStatus = "connected" THEN "active" ELSE callStatus
  /\ conversation.turns = {k \in TurnKey : Known(k)}
  /\ \A k \in conversation.turns : k[2] < conversation.count
  /\ conversation.count > 0 => \E k \in conversation.turns : k[2] + 1 = conversation.count
  /\ \A r, s \in ingested : r.key = s.key => r = s
=============================================================================
