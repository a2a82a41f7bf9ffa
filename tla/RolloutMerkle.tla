---------------------------- MODULE RolloutMerkle ----------------------------
(***************************************************************************)
(* The root that a submission claims for its rollouts.  A hash is a term   *)
(* over what was hashed, as that of a collision-free function: two of them *)
(* are equal when the terms are.                                           *)
(***************************************************************************)
EXTENDS Integers, Sequences, Folds, SequencesExt

Node(left, right) == <<"node", left, right>>

\* One level up: a last node without a neighbour is paired with itself.
Parents(level) ==
  [i \in 1..((Len(level) + 1) \div 2) |->
     Node(level[2 * i - 1], IF 2 * i <= Len(level) THEN level[2 * i] ELSE level[2 * i - 1])]

RootOf(leaves) ==
  LET Up(level, leaf) == IF Len(level) = 1 THEN level ELSE Parents(level)
  IN  FoldLeft(Up, leaves, leaves)[1]

\* Slip: the place of a rollout is not part of its leaf.
Leaf_without_index(rollouts, i) ==
  <<"leaf", rollouts[i].tokens, rollouts[i].claim, rollouts[i].env_name>>

\* claim is the reward with the GRAIL commit.
Leaf(rollouts, i) ==
  <<"leaf", i, rollouts[i].tokens, rollouts[i].claim, rollouts[i].env_name>>

compute_rollouts_merkle_root(rollouts) ==
  RootOf([i \in DOMAIN rollouts |-> Leaf(rollouts, i)])

\* The root of wire version 1 leaves the environment out.
_compute_merkle_root(rollouts) ==
  RootOf([i \in DOMAIN rollouts |-> <<"leaf", i, rollouts[i].tokens, rollouts[i].claim>>])

submission_merkle_root(rollouts, wire_v2) ==
  IF wire_v2 THEN compute_rollouts_merkle_root(rollouts) ELSE _compute_merkle_root(rollouts)

\* An entry of the pool is signed for a window: its rollouts are committed to
\* under the randomness of that window, each with a signature of its own, and
\* the root is computed of the result.
_finalize_pool_entry(entry, randomness, signatures, wire_v2) ==
  LET subs == [i \in DOMAIN entry.rollouts |->
                 [tokens |-> entry.rollouts[i].tokens,
                  claim |-> <<entry.rollouts[i].reward, randomness, signatures[i]>>,
                  env_name |-> entry.env_name]]
  IN  [rollouts |-> subs, merkle_root |-> submission_merkle_root(subs, wire_v2)]

submission_merkle_matches(root, rollouts) ==
  rollouts # <<>> /\ root = compute_rollouts_merkle_root(rollouts)

\* What the choice of a representative may depend on: no claim.
compute_rollouts_selection_digest(rollouts) ==
  [i \in DOMAIN rollouts |-> <<i, rollouts[i].tokens, rollouts[i].env_name>>]
=============================================================================
