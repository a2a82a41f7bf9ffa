-------------------------- MODULE RolloutSelection --------------------------
(***************************************************************************)
(* How the miner composes the group of M_ROLLOUTS rollouts that it submits *)
(* for a prompt.  A bake generates M_ROLLOUTS of them per phase and keeps  *)
(* those of the earlier phases; after each phase the prompt is dropped,    *)
(* generated once more or turned into an entry of the pool.  A rollout is  *)
(* known by what the selection and the validator look at: where its        *)
(* completion has an EOS, whether the last token was probable, its reward, *)
(* and copy, which tells apart texts that agree on the rest.               *)
(***************************************************************************)
EXTENDS Integers, Sequences, SequencesExt, FiniteSets, FiniteSetsExt

CONSTANTS
  M_ROLLOUTS,
  K_MIN, K_MAX,             \* the band of correct rollouts, binary rewards
  MAX_PHASES,
  DROP_BTOK0_PHASE1,
  max_truncated_allowed,
  UNIT,                     \* a reward of 1.0
  Rollouts,                 \* what the model may generate, in some order
  Budgets                   \* the values of MAX_NON_BTOK_IN_SUBMISSION

Envs == {"openmathinstruct", "opencodeinstruct"}

ASSUME SelectionAssumption ==
  /\ M_ROLLOUTS \in Nat \ {0} /\ MAX_PHASES \in Nat \ {0} /\ UNIT \in Nat \ {0}
  /\ K_MIN \in 1..K_MAX /\ K_MAX \in 1..(M_ROLLOUTS - 1)
  /\ DROP_BTOK0_PHASE1 \in BOOLEAN /\ max_truncated_allowed \in Nat
  /\ Budgets \subseteq 0..M_ROLLOUTS
  /\ Rollouts \in Seq(Range(Rollouts))
  /\ \A r \in Range(Rollouts) :
       r.reward \in 0..UNIT /\ r.completion \in Seq(BOOLEAN) \ {<<>>} /\ r.p_stop \in BOOLEAN

\* A group of the band is one that the validator takes, see is_in_zone.  With the
\* 8 rollouts of the code this is so for each k of 1..7, 3..5 by default.
ASSUME BandAssumption ==
  \A k \in K_MIN..K_MAX :
    10000 * (k * (M_ROLLOUTS - k)) >= 33 * 33 * (M_ROLLOUTS * M_ROLLOUTS)

VARIABLES
  env,        \* of the prompt
  budget,     \* MAX_NON_BTOK_IN_SUBMISSION
  phase,      \* phases so far
  rollouts,   \* existing_rollouts_per_idx, without its duplicates
  outcome,    \* "baking", "dropped", "composed", or "entry" for the per-prompt path
  group       \* the rollouts of the entry

selection_vars == <<env, budget, phase, rollouts, outcome, group>>

bft_applicable(name) == name = "openmathinstruct"
continuous_reward(name) == name = "opencodeinstruct"

-----------------------------------------------------------------------------
(***************************************************************************)
(* A rollout.  completion tells of each token whether it is an EOS.        *)
(***************************************************************************)
EndsWithEos(r) == r.completion[Len(r.completion)]

\* Exactly one EOS, and at the last position.
validator_termination_ok(completion) ==
  {i \in DOMAIN completion : completion[i]} = {Len(completion)}

in_eos(r) == validator_termination_ok(r.completion)

\* p_stop: the last token had at least P_STOP_LOCAL_MIN.
bt_ok(r) == in_eos(r) /\ r.p_stop

\* The validator's own look at the end of a rollout.
verify_termination(r) == EndsWithEos(r) /\ r.p_stop

-----------------------------------------------------------------------------
(***************************************************************************)
(* rewards_std, squared and scaled: the variance of a list of n rewards    *)
(* times (n * UNIT) ^ 2, compared with a threshold in hundredths.          *)
(***************************************************************************)
Variance(list) ==
  LET total == SumFunctionOnSet([i \in DOMAIN list |-> list[i].reward], DOMAIN list)
      squares == [i \in DOMAIN list |-> list[i].reward * list[i].reward]
  IN  Len(list) * SumFunctionOnSet(squares, DOMAIN list) - total * total

StdAtLeast(list, hundredths) ==
  LET scale == Len(list) * UNIT
  IN  10000 * Variance(list) >= hundredths * hundredths * scale * scale

\* The validator's threshold in this repository, and the one the miner aims at.
is_in_zone(list) == Variance(list) > 0 /\ StdAtLeast(list, 33)
_skip_for_out_of_zone(list) == ~ StdAtLeast(list, 43)

-----------------------------------------------------------------------------
(***************************************************************************)
(* _try_select.  Where the code orders rollouts by their probabilities,    *)
(* which of the equals it takes is left open: each operator is the set of  *)
(* the groups the code may return, and none stands for None.               *)
(***************************************************************************)
terminating_rollouts(S) ==
  IF bft_applicable(env) THEN S ELSE {r \in S : in_eos(r)}

WithinBudget(S) == Cardinality({r \in S : ~ bt_ok(r)}) <= budget

\* n rollouts of S, those of good, a subset, first.
Preferring(good, n, S) ==
  IF Cardinality(good) >= n THEN kSubset(n, good)
  ELSE {good \cup extra : extra \in kSubset(n - Cardinality(good), S \ good)}

\* Slip: a rollout that is not bt_ok never fills a gap.
Picked_bt_ok_only(n, S) == kSubset(n, {r \in S : bt_ok(r)})

\* Those that are bt_ok, then those that at least have their EOS.
Picked(n, S) ==
  LET ok == {r \in S : bt_ok(r)}
      ended == {r \in S \ ok : in_eos(r)}
  IN  IF Cardinality(ok) >= n THEN kSubset(n, ok)
      ELSE {ok \cup extra : extra \in Preferring(ended, n - Cardinality(ok), S \ ok)}

Right(S) == {r \in S : r.reward = UNIT}
Wrong(S) == {r \in S : r.reward = 0}

\* k correct rollouts and the rest wrong.
Composed(k, S) ==
  {correct \cup wrong : correct \in Picked(k, Right(S)), wrong \in Picked(M_ROLLOUTS - k, Wrong(S))}

\* k_order: from the middle of the band outwards, the lower k first.
Precedes(j, k) ==
  LET mid == (K_MIN + K_MAX) \div 2
      Distance(n) == IF n < mid THEN mid - n ELSE n - mid
  IN  Distance(j) < Distance(k) \/ (Distance(j) = Distance(k) /\ j < k)

BinaryGroups(S) ==
  LET Fits(k) == {g \in Composed(k, S) : WithinBudget(g)}
      feasible == {k \in K_MIN..K_MAX : Fits(k) # {}}
  IN  UNION {Fits(k) : k \in {k \in feasible : \A j \in feasible : j = k \/ Precedes(k, j)}}

\* The n rollouts of the lowest, or of the highest, rewards.
Lowest(n, S) == {L \in kSubset(n, S) : \A r \in L, t \in S \ L : r.reward <= t.reward}
Highest(n, S) == {H \in kSubset(n, S) : \A r \in H, t \in S \ H : r.reward >= t.reward}

Extremes(S) ==
  LET lo == M_ROLLOUTS \div 2
  IN  {g \in {L \cup H : L \in Lowest(lo, S), H \in Highest(M_ROLLOUTS - lo, S)} :
         Cardinality(g) = M_ROLLOUTS}

\* Slip: the spread of what was chosen is not looked at.
_select_continuous_subset_unmeasured(S) == Extremes(S)

_select_continuous_subset(S) == {g \in Extremes(S) : StdAtLeast(SetToSeq(g), 46)}

ContinuousGroups(S) ==
  LET ok == {r \in S : bt_ok(r)}
      pool == IF Cardinality(ok) >= M_ROLLOUTS THEN ok ELSE S
  IN  {g \in _select_continuous_subset(pool) : WithinBudget(g)}

_try_select(S) ==
  LET kept == terminating_rollouts(S)
  IN  IF Cardinality(kept) < M_ROLLOUTS THEN {}
      ELSE IF continuous_reward(env) THEN ContinuousGroups(kept) ELSE BinaryGroups(kept)

-----------------------------------------------------------------------------
(***************************************************************************)
(* A bake of the prompt.                                                   *)
(***************************************************************************)
\* What one call generates: the order of its completions is of no account.
Lists ==
  LET Sorted(f) == \A i, j \in DOMAIN f : i < j => f[i] <= f[j]
  IN  {[i \in DOMAIN f |-> Rollouts[f[i]]] :
         f \in {f \in [1..M_ROLLOUTS -> DOMAIN Rollouts] : Sorted(f)}}

\* Once graded: a reward is binary in math.
Generated ==
  {list \in Lists : continuous_reward(env) \/ \A i \in DOMAIN list : list[i].reward \in {0, UNIT}}

too_many_truncated(list) ==
  LET terminated == Cardinality({i \in DOMAIN list : bt_ok(list[i])})
  IN  IF bft_applicable(env) THEN terminated = 0
      ELSE Len(list) - terminated > max_truncated_allowed

\* What phase 1 alone can tell: equal rewards, no EOS at all, too few ends.
DropInPhase1(list) ==
  \/ \A i, j \in DOMAIN list : list[i].reward = list[j].reward
  \/ DROP_BTOK0_PHASE1 /\ \A i \in DOMAIN list : ~ EndsWithEos(list[i])
  \/ DROP_BTOK0_PHASE1 /\ too_many_truncated(list)

\* One call of _pre_bake_batch, as it goes for this prompt.
PhaseWith(list) ==
  /\ outcome = "baking" /\ phase < MAX_PHASES
  /\ phase' = phase + 1
  /\ rollouts' = rollouts \cup Range(list)
  /\ UNCHANGED <<env, budget>>

PhaseDrops ==
  \E list \in Generated :
    /\ PhaseWith(list)
    /\ phase = 0 /\ DropInPhase1(list)
    /\ outcome' = "dropped"
    /\ UNCHANGED group

PhaseSelects ==
  \E list \in Generated :
    /\ PhaseWith(list)
    /\ ~ (phase = 0 /\ DropInPhase1(list))
    /\ \E g \in _try_select(rollouts') : group' = SetToSeq(g)
    /\ outcome' = "composed"

PhaseRetries ==
  \E list \in Generated :
    /\ PhaseWith(list)
    /\ ~ (phase = 0 /\ DropInPhase1(list))
    /\ _try_select(rollouts') = {}
    /\ outcome' = IF phase' < MAX_PHASES THEN "baking" ELSE "dropped"
    /\ UNCHANGED group

\* Too few completions: the prompt is left out of the retries as well.
UnderGenerated ==
  /\ outcome = "baking" /\ phase < MAX_PHASES
  /\ outcome' = "lost"
  /\ UNCHANGED <<env, budget, phase, rollouts, group>>

\* _pre_bake_entry, the path of a prompt when there is no vLLM backend and under
\* FORCED_SEED_ENFORCE: the group is what was generated.
BakeEntry ==
  /\ outcome = "baking" /\ phase = 0
  /\ \E list \in Generated :
       IF _skip_for_out_of_zone(list)
         THEN outcome' = "dropped" /\ UNCHANGED group
         ELSE outcome' = "entry" /\ group' = list
  /\ UNCHANGED <<env, budget, phase, rollouts>>

SelectionInit ==
  /\ env \in Envs
  /\ budget \in Budgets
  /\ phase = 0
  /\ rollouts = {}
  /\ outcome = "baking"
  /\ group = <<>>

SelectionNext ==
  \/ PhaseDrops \/ PhaseSelects \/ PhaseRetries
  \/ UnderGenerated
  \/ BakeEntry

SelectionSpec == SelectionInit /\ [][SelectionNext]_selection_vars

-----------------------------------------------------------------------------
\* Whatever the path and the phase it comes from, a group has its size and a
\* spread of rewards the validator takes; one that was composed has no rollout
\* twice, no more unfinished ones than the budget, counted as the validator
\* judges the end of a rollout, and in code none that lacks its EOS.
SelectionIsAccepted ==
  group # <<>> =>
    /\ Len(group) = M_ROLLOUTS
    /\ is_in_zone(group)
    /\ outcome = "composed" =>
         /\ IsInjective(group)
         /\ Cardinality({i \in DOMAIN group : ~ verify_termination(group[i])}) <= budget
         /\ ~ bft_applicable(env) => \A i \in DOMAIN group : in_eos(group[i])

\* A math prompt is never dropped, nor generated once more, while its rollouts
\* hold a group that could be submitted: neither the early drops of phase 1 nor
\* the order in which _try_select fills a group miss one.
NoGroupIsMissed ==
  bft_applicable(env) /\ outcome \in {"baking", "dropped"} =>
    ~ \E g \in kSubset(M_ROLLOUTS, rollouts) :
        /\ Cardinality(Right(g)) \in K_MIN..K_MAX
        /\ WithinBudget(g)

=============================================================================
