----------------------------- MODULE VerdictLoop -----------------------------
(***************************************************************************)
(* The poll of /verdicts that tells the MixController which submissions    *)
(* were rewarded.  A submission is known by its root, which is new for     *)
(* every finalisation because signatures are randomised: the roots are     *)
(* numbered in the order in which they are recorded.  The validator judges *)
(* each of them once, at a time of its own, and may fill in `rewarded`     *)
(* later than the rest of the verdict.                                     *)
(***************************************************************************)
EXTENDS SlotAllocation, SequencesExt, SequenceFilter

CONSTANTS
  MAX_SUBMITTED,     \* entries kept in _submitted_env
  NOT_YET,           \* rewarded is None
  MaxSent            \* bound: submissions

ASSUME VerdictAssumption ==
  MAX_SUBMITTED \in Nat \ {0} /\ MaxSent \in Nat /\ NOT_YET \notin BOOLEAN

VARIABLES
  sent,              \* number of submissions, of all processes of the miner
  submitted_env,     \* _submitted_env: root -> environment
  ring,              \* the validator's verdicts; ts is the place in the ring
  reply,             \* the verdicts fetched and not yet applied
  verdicts_since,    \* _verdicts_since, 0 before the first
  fed,               \* the roots whose outcome the mix was given, in order
  unripe             \* the roots that were seen without an outcome

verdict_vars ==
  <<total_slots, slot_floor, yield, sent, submitted_env, ring, reply, verdicts_since, fed, unripe>>

NobodySubmitted == [root \in {} |-> 0]

VerdictInit ==
  /\ total_slots \in SlotTotals /\ slot_floor \in SlotFloors
  /\ yield = [e \in EnvIdx |-> NO_YIELD]
  /\ sent = 0
  /\ submitted_env = NobodySubmitted
  /\ ring = <<>> /\ reply = <<>>
  /\ verdicts_since = 0
  /\ fed = <<>> /\ unripe = {}

\* _submit_entry: the entry is signed, and not yet posted.
RecordSubmission(e) ==
  /\ sent < MaxSent
  /\ sent' = sent + 1
  /\ submitted_env' = [root \in DOMAIN submitted_env \cup {sent + 1} |->
                         IF root = sent + 1 THEN e ELSE submitted_env[root]]
  /\ UNCHANGED <<total_slots, slot_floor, yield, ring, reply, verdicts_since, fed, unripe>>

\* The validator decides on a submission.
Judge(root) ==
  /\ root \notin {ring[i].root : i \in DOMAIN ring}
  /\ \E rewarded \in BOOLEAN \cup {NOT_YET} :
       ring' = Append(ring, [root |-> root, ts |-> Len(ring) + 1, rewarded |-> rewarded])
  /\ UNCHANGED <<total_slots, slot_floor, yield, sent, submitted_env, reply, verdicts_since, fed, unripe>>

Enrich(i) ==
  /\ ring[i].rewarded = NOT_YET
  /\ \E rewarded \in BOOLEAN : ring' = [ring EXCEPT ![i].rewarded = rewarded]
  /\ UNCHANGED <<total_slots, slot_floor, yield, sent, submitted_env, reply, verdicts_since, fed, unripe>>

\* A poll that fails, or that is answered with nothing, changes nothing.
fetch_verdicts ==
  /\ reply = <<>>
  /\ reply' = Filtered(ring, {v \in ToSet(ring) : v.ts > verdicts_since})
  /\ reply' # <<>>
  /\ UNCHANGED <<total_slots, slot_floor, yield, sent, submitted_env, ring, verdicts_since, fed, unripe>>

HasOutcome(v) == v.root \in DOMAIN submitted_env /\ v.rewarded # NOT_YET

\* _apply_verdicts, the cursor, and the oldest entries beyond MAX_SUBMITTED.
TickWith(cursor) ==
  /\ reply # <<>>
  /\ LET outcomes == Filtered(reply, {v \in ToSet(reply) : HasOutcome(v)})
         Learn(yields, v) == record_outcome(yields, submitted_env[v.root], v.rewarded)
     IN  /\ yield' = FoldLeft(Learn, yield, outcomes)
         /\ fed' = fed \o [i \in DOMAIN outcomes |-> outcomes[i].root]
  /\ unripe' = unripe \cup {v.root : v \in {v \in ToSet(reply) : v.rewarded = NOT_YET}}
  /\ verdicts_since' = cursor
  /\ LET roots == DOMAIN submitted_env
         kept == {root \in roots : Cardinality({r \in roots : r > root}) < MAX_SUBMITTED}
     IN  submitted_env' = [root \in kept |-> submitted_env[root]]
  /\ reply' = <<>>
  /\ UNCHANGED <<total_slots, slot_floor, sent, ring>>

\* Slip: the cursor is left where it was.
_tick_verdicts_again == TickWith(verdicts_since)

_tick_verdicts == TickWith(Max({v.ts : v \in ToSet(reply)} \cup {verdicts_since}))

\* The miner starts again: nothing of this is persisted.
RestartMiner ==
  /\ sent > 0
  /\ submitted_env' = NobodySubmitted
  /\ yield' = [e \in EnvIdx |-> NO_YIELD]
  /\ verdicts_since' = 0
  /\ reply' = <<>> /\ fed' = <<>> /\ unripe' = {}
  /\ UNCHANGED <<total_slots, slot_floor, sent, ring>>

VerdictNext ==
  \/ \E e \in EnvIdx : RecordSubmission(e)
  \/ \E root \in 1..sent : Judge(root)
  \/ \E i \in DOMAIN ring : Enrich(i)
  \/ fetch_verdicts \/ _tick_verdicts
  \/ RestartMiner

VerdictSpec == VerdictInit /\ [][VerdictNext]_verdict_vars

-----------------------------------------------------------------------------
\* The outcome of a submission is counted at most once, in the order of the
\* verdicts, over polls, restarts and outcomes that are filled in late; and once
\* the cursor is past the verdict of a submission the miner still knows, it has
\* been counted, unless the poll that read it came before its outcome.
OutcomesCountOnce ==
  LET TsOf(root) == CHOOSE i \in DOMAIN ring : ring[i].root = root
      counted == ToSet(fed)
  IN  /\ \A i, j \in DOMAIN fed : i < j => TsOf(fed[i]) < TsOf(fed[j])
      /\ \A i \in DOMAIN ring :
           HasOutcome(ring[i]) /\ i <= verdicts_since => ring[i].root \in counted \cup unripe
=============================================================================
