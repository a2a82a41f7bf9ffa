---------------------------- MODULE MCAlgorithms ----------------------------
(***************************************************************************)
(* The computations that one coroutine or one thread does by itself.  Each *)
(* behaviour is about one of them, its topic; the variables of the others  *)
(* stay at one value.                                                      *)
(*   batch    a list of submissions grows, over every cooldown map;        *)
(*   group    a prompt is baked, phase after phase;                        *)
(*   root     a list of rollouts grows;                                    *)
(*   mix      submissions, verdicts and polls, for all budgets of slots;   *)
(*   prompt   a draw, from every slice, bias and cooldown.                 *)
(***************************************************************************)
EXTENDS BatchSelection, RolloutSelection, RolloutMerkle, VerdictLoop, PromptPick

CONSTANTS
  MaxSubmissions,   \* bound: length of the list of submissions
  Slots,            \* b
  CurrentWindow,
  Leaves,           \* the rollouts of the lists whose roots are compared
  MaxLeaves,        \* bound: their length
  Universe          \* prompts of the environment that is drawn from

\* A rollout of a list is its text, its reward and its signature.
ASSUME AlgorithmsAssumption ==
  /\ Slots \in Nat /\ CurrentWindow \in Nat /\ Universe \in Nat \ {0} /\ MaxLeaves \in Nat
  /\ \A r, s \in Leaves :
       r.tokens = s.tokens /\ r.reward = s.reward /\ r.signature = s.signature => r = s

VARIABLES topic, submissions, cooldown_map, list, draw

own_vars == <<submissions, cooldown_map, list, draw>>
topic_vars == <<topic, own_vars, selection_vars, verdict_vars>>

-----------------------------------------------------------------------------
\* Prompt p has the digests 2p and 2p + 1: the digest of two different
\* prompts differs, as that of a collision-free hash does.
Submission ==
  {[prompt_idx |-> p, arrived_at |-> at, digest |-> 2 * p + d] :
     p \in 1..3, at \in 1..2, d \in 0..1}

Arrive ==
  /\ Len(submissions) < MaxSubmissions
  /\ \E s \in Submission : submissions' = Append(submissions, s)
  /\ UNCHANGED <<cooldown_map, list, draw, selection_vars, verdict_vars>>

AddRollout ==
  /\ Len(list) < MaxLeaves
  /\ \E leaf \in Leaves : list' = Append(list, leaf)
  /\ UNCHANGED <<submissions, cooldown_map, draw, selection_vars, verdict_vars>>

NoPrompt == -1

DrawOne ==
  /\ draw.prompt = NoPrompt
  /\ \E p \in pick_prompt_idx(draw.eligible, draw.cooldown, draw.prompt_range, Universe) :
       draw' = [draw EXCEPT !.prompt = p]
  /\ UNCHANGED <<submissions, cooldown_map, list, selection_vars, verdict_vars>>

\* The slices of all seeds, of every size, and none.
Draws ==
  LET slices == {_active_prompt_range(armed, seed, Universe, size) :
                   armed \in BOOLEAN, seed \in 0..Universe, size \in 1..(Universe + 1)}
  IN  {[eligible |-> e, cooldown |-> c, prompt_range |-> r, prompt |-> NoPrompt] :
         e \in (SUBSET (0..(Universe - 1))) \ {{}}, c \in SUBSET (0..(Universe - 1)), r \in slices}

NoDraw == [eligible |-> {0}, cooldown |-> {}, prompt_range |-> NO_RANGE, prompt |-> NoPrompt]

\* The one initial state of the topics that a behaviour is not about.
StillBatch == submissions = <<>> /\ cooldown_map = NoPrompts
StillGroup ==
  /\ env = "openmathinstruct" /\ budget = 0 /\ phase = 0
  /\ rollouts = {} /\ outcome = "dropped" /\ group = <<>>
StillMix ==
  /\ total_slots = 0 /\ slot_floor = 0 /\ yield = [e \in EnvIdx |-> NO_YIELD]
  /\ sent = MaxSent /\ submitted_env = NobodySubmitted
  /\ ring = <<>> /\ reply = <<>> /\ verdicts_since = 0 /\ fed = <<>> /\ unripe = {}

TopicInit ==
  \/ /\ topic = "batch" /\ StillGroup /\ list = <<>> /\ StillMix /\ draw = NoDraw
     /\ submissions = <<>>
     /\ \E prompts \in SUBSET {1, 2} : cooldown_map \in [prompts -> 0..CurrentWindow]
  \/ topic = "group" /\ SelectionInit /\ StillBatch /\ list = <<>> /\ StillMix /\ draw = NoDraw
  \/ topic = "root" /\ StillBatch /\ StillGroup /\ list = <<>> /\ StillMix /\ draw = NoDraw
  \/ topic = "mix" /\ VerdictInit /\ StillBatch /\ StillGroup /\ list = <<>> /\ draw = NoDraw
  \/ topic = "prompt" /\ draw \in Draws /\ StillBatch /\ StillGroup /\ list = <<>> /\ StillMix

TopicNext ==
  /\ UNCHANGED topic
  /\ \/ topic = "batch" /\ Arrive
     \/ topic = "group" /\ SelectionNext /\ UNCHANGED <<own_vars, verdict_vars>>
     \/ topic = "root" /\ AddRollout
     \/ topic = "mix" /\ VerdictNext /\ UNCHANGED <<own_vars, selection_vars>>
     \/ topic = "prompt" /\ DrawOne

TopicSpec == TopicInit /\ [][TopicNext]_topic_vars

-----------------------------------------------------------------------------
\* The loop of select_batch returns, for any list of submissions and any
\* cooldown map, the first Slots leaders of the prompts out of cooldown, and
\* returns them in arrival order.
LoopSelectsLeaders ==
  LET batch == select_batch(submissions, Slots, CurrentWindow, cooldown_map)
  IN  /\ ToSet(batch) = BatchOf(ToSet(submissions), Slots, CurrentWindow, cooldown_map)
      /\ \A i, j \in DOMAIN batch : i < j => Before(batch[i], batch[j])

\* The root of a list of signed rollouts is that of no other list, whatever
\* their lengths and though a node without a neighbour is paired with itself,
\* in both versions of the wire; so a signed root admits the rollouts it was
\* computed from and no others, and an entry that is signed again has another
\* root.  Two lists have one selection digest exactly when their tokens agree.
RootBindsGroup ==
  LET Others == UNION {[1..n -> Leaves] : n \in 1..MaxLeaves}
      Signed(l, wire_v2) ==
        _finalize_pool_entry([rollouts |-> l, env_name |-> Environments[1]], 0,
                             [i \in DOMAIN l |-> l[i].signature], wire_v2)
      Streams(l) == [i \in DOMAIN l |-> l[i].tokens]
  IN  list # <<>> =>
        LET old == Signed(list, FALSE)
            new == Signed(list, TRUE)
        IN  \A other \in Others :
              LET theirs == Signed(other, TRUE)
              IN  /\ old.merkle_root = Signed(other, FALSE).merkle_root <=> list = other
                  /\ submission_merkle_matches(new.merkle_root, theirs.rollouts) <=> list = other
                  /\ compute_rollouts_selection_digest(new.rollouts)
                       = compute_rollouts_selection_digest(theirs.rollouts)
                     <=> Streams(list) = Streams(other)

\* A prompt that is drawn lies in the slice the validator enforces and is not in
\* cooldown, whatever bias the environment has; and a slice has all the prompts
\* it should.
PicksAreInRange ==
  LET Slices(size) == {window_prompt_range(seed, Universe, size) : seed \in 0..Universe}
  IN  /\ draw.prompt # NoPrompt =>
           draw.prompt \in Slice(draw.prompt_range, Universe) \ draw.cooldown
      /\ topic = "prompt" => \A size \in 1..(Universe + 1) : \A r \in Slices(size) :
           Cardinality(Slice(r, Universe)) = Min({size, Universe})

-----------------------------------------------------------------------------
\* Rollouts that differ in what the selection and the validator look at: two
\* texts of reward 0 and two of reward 1, one worth a half, two whose EOS is
\* improbable, one cut at the cap and one with an EOS in its middle.
Rollout(completion, p_stop, reward, copy) ==
  [completion |-> completion, p_stop |-> p_stop, reward |-> reward, copy |-> copy]

Ends == <<FALSE, TRUE>>
EndsTwice == <<TRUE, TRUE>>
IsCut == <<FALSE, FALSE>>

MCRollouts ==
  << Rollout(Ends, TRUE, 0, 1), Rollout(Ends, TRUE, 0, 2), Rollout(Ends, TRUE, 1, 1),
     Rollout(Ends, TRUE, 2, 1), Rollout(Ends, TRUE, 2, 2),
     Rollout(Ends, FALSE, 0, 1), Rollout(Ends, FALSE, 2, 1),
     Rollout(IsCut, FALSE, 0, 1), Rollout(EndsTwice, TRUE, 2, 1) >>

\* Two texts, and one of them signed another time.
MCLeaves ==
  {[tokens |-> l[1], reward |-> 1, signature |-> l[2]] : l \in {<<1, 1>>, <<1, 2>>, <<2, 1>>}}

MCEnvironments == <<"openmathinstruct", "opencodeinstruct">>
=============================================================================
