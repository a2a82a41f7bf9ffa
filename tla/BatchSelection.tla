--------------------------- MODULE BatchSelection ---------------------------
(***************************************************************************)
(* select_batch of validator/batch_selection.py: which of a window's valid *)
(* submissions enter the training batch.  A submission is a record with    *)
(* prompt_idx, arrived_at and digest, where digest stands for the SHA-256  *)
(* of (hotkey, prompt_idx, merkle_root) that _tiebreak_key returns.        *)
(***************************************************************************)
EXTENDS CooldownMap, FiniteSets

(***************************************************************************)
(* _order_key: by arrival time, then by the tie-break digest.              *)
(***************************************************************************)
Before(s, t) ==
  \/ s.arrived_at < t.arrived_at
  \/ s.arrived_at = t.arrived_at /\ s.digest < t.digest

(***************************************************************************)
(* sorted(submissions, key=_order_key), which leaves equals as they are.   *)
(***************************************************************************)
Place(submissions, i) ==
  1 + Cardinality({j \in DOMAIN submissions :
        \/ Before(submissions[j], submissions[i])
        \/ ~ Before(submissions[i], submissions[j]) /\ j < i})

Sorted(submissions) ==
  [k \in DOMAIN submissions |->
     submissions[CHOOSE i \in DOMAIN submissions : Place(submissions, i) = k]]

(***************************************************************************)
(* The loop over the sorted list: take a submission unless the batch is    *)
(* full, its prompt is in the batch already or its prompt is in cooldown.  *)
(***************************************************************************)
TakeFrom(ordered, b, current_window, last_batched) ==
  LET Skip(batch, sub) ==
        \/ Len(batch) >= b
        \/ \E i \in DOMAIN batch : batch[i].prompt_idx = sub.prompt_idx
        \/ is_in_cooldown(last_batched, sub.prompt_idx, current_window)
      Take(batch, sub) == IF Skip(batch, sub) THEN batch ELSE Append(batch, sub)
  IN  FoldLeft(Take, <<>>, ordered)

TakeInOrder(submissions, b, current_window, last_batched) ==
  TakeFrom(Sorted(submissions), b, current_window, last_batched)

\* Slip: one slot too many.
select_batch_one_more(submissions, b, current_window, last_batched) ==
  TakeInOrder(submissions, b + 1, current_window, last_batched)
select_batch(submissions, b, current_window, last_batched) ==
  TakeInOrder(submissions, b, current_window, last_batched)

(***************************************************************************)
(* The same batch as a set, with no loop in it: of the submissions whose   *)
(* prompt is not in cooldown, the first of each prompt (its leader), and   *)
(* of the leaders the b that come first.  MCAlgorithms checks, and         *)
(* ValidatorWindow_proofs proves, that the sort and the loop compute this; *)
(* the modules and the proofs that only need to know WHO is in the batch   *)
(* use it.                                                                 *)
(***************************************************************************)
Eligible(submissions, current_window, last_batched) ==
  {s \in submissions : ~ is_in_cooldown(last_batched, s.prompt_idx, current_window)}

Leaders(eligible) ==
  {s \in eligible : \A t \in eligible :
     t.prompt_idx = s.prompt_idx => t = s \/ Before(s, t)}

FirstOf(leaders, b) ==
  {s \in leaders : Cardinality({t \in leaders : Before(t, s)}) < b}

BatchOf(submissions, b, current_window, last_batched) ==
  FirstOf(Leaders(Eligible(submissions, current_window, last_batched)), b)
=============================================================================
