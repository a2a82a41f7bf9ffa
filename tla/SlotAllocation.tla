--------------------------- MODULE SlotAllocation ---------------------------
(***************************************************************************)
(* MixController: how many of the slots of a window each environment gets, *)
(* from an EMA of the share of its submissions that were rewarded.         *)
(***************************************************************************)
EXTENDS Integers, Sequences, FiniteSets, FiniteSetsExt

CONSTANTS
  Environments,   \* the environments, in their order
  SlotTotals,     \* the values of total_slots
  SlotFloors,     \* the values of slot_floor
  NO_YIELD,       \* no outcome yet
  FULL            \* the fixed-point unit of a yield of 1

EnvIdx == DOMAIN Environments

ASSUME SlotAssumption ==
  /\ Environments \in Seq({Environments[e] : e \in EnvIdx}) /\ EnvIdx # {}
  /\ FULL \in Nat \ {0} /\ NO_YIELD \notin 0..FULL
  /\ SlotTotals \subseteq Nat /\ SlotFloors \subseteq Nat

VARIABLES
  total_slots, slot_floor,
  yield           \* _yield: [EnvIdx -> 0..FULL or NO_YIELD]

\* alpha is one tenth.
record_outcome(yields, e, rewarded) ==
  [yields EXCEPT ![e] =
     LET x == IF rewarded THEN FULL ELSE 0
     IN  IF @ = NO_YIELD THEN x ELSE (9 * @ + x) \div 10]

\* An environment without outcomes counts as one that is rewarded half the time.
_effective_yield(e) == IF yield[e] = NO_YIELD THEN FULL \div 2 ELSE yield[e]

\* Floors that ask for more than there is: an even split.
EvenSplit ==
  LET n == Cardinality(EnvIdx)
      base == total_slots \div n
  IN  [e \in EnvIdx |-> base + (IF e <= total_slots - base * n THEN 1 ELSE 0)]

\* Slip: what the rounding leaves is given to nobody.
Proportional_rounded_down(remaining, weight) ==
  [e \in EnvIdx |-> (remaining * weight[e]) \div SumFunctionOnSet(weight, EnvIdx)]

\* The rest in proportion to the weights: rounded down, and what that leaves to
\* the largest remainders, the first of equals first.
Proportional(remaining, weight) ==
  LET wsum == SumFunctionOnSet(weight, EnvIdx)
      base == [e \in EnvIdx |-> (remaining * weight[e]) \div wsum]
      rest == [e \in EnvIdx |-> (remaining * weight[e]) % wsum]
      Sooner(f, e) == rest[f] > rest[e] \/ (rest[f] = rest[e] /\ f < e)
      leftover == remaining - SumFunctionOnSet(base, EnvIdx)
  IN  [e \in EnvIdx |->
         base[e] + (IF Cardinality({f \in EnvIdx : Sooner(f, e)}) < leftover THEN 1 ELSE 0)]

target_slots ==
  LET remaining == total_slots - slot_floor * Cardinality(EnvIdx)
      \* a thousandth of a unit stands for the 1e-9 no weight is below
      weight == [e \in EnvIdx |-> Max({1000 * _effective_yield(e), 1})]
      share == Proportional(remaining, weight)
  IN  IF remaining < 0 THEN EvenSplit ELSE [e \in EnvIdx |-> slot_floor + share[e]]

-----------------------------------------------------------------------------
\* Whatever the outcomes so far, the slots of a window are all handed out and no
\* more, every environment gets its floor or, when the floors ask for too much,
\* an even part, and one that was rewarded more often gets no fewer than one
\* that was rewarded less.
SlotsAddUp ==
  LET n == Cardinality(EnvIdx)
      fits == slot_floor * n <= total_slots
      least == IF fits THEN slot_floor ELSE total_slots \div n
  IN  /\ SumFunctionOnSet(target_slots, EnvIdx) = total_slots
      /\ \A e \in EnvIdx : target_slots[e] >= least
      /\ fits => \A e, f \in EnvIdx :
           _effective_yield(e) > _effective_yield(f) => target_slots[e] >= target_slots[f]
=============================================================================
