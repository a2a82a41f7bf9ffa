---------------------------- MODULE ForcedStream ----------------------------
(***************************************************************************)
(* The tokens of a rollout under FORCED_SEED_ENFORCE.  Each of them must   *)
(* be the pick of the public stream of its own prompt and rollout, at its  *)
(* own position, but for a span injected at one known place: the validator *)
(* replays the rollout to see it.  Phase 1 runs in the batch of a vLLM     *)
(* engine, whose rows come, go and move at every step, and the logits      *)
(* processor must follow them; phase 2 resumes the unfinished rollouts of  *)
(* a prompt on the proof model.  A position counts from the end of the     *)
(* prompt, and a pick, whose arithmetic is left out, is any token.         *)
(***************************************************************************)
EXTENDS Integers, Sequences, SequencesExt, FiniteSets

CONSTANTS
  BatchPrompts,
  M_ROLLOUTS,
  ROWS,                 \* max_num_seqs
  BFT_THINKING_BUDGET,
  BFT_ANSWER_BUDGET,
  PAD,                  \* min(eos_ids)
  PRIMARY_EOS           \* what is restored when the engine does not name its stop

ASSUME StreamAssumption ==
  /\ M_ROLLOUTS \in Nat \ {0} /\ ROWS \in Nat \ {0}
  /\ BFT_THINKING_BUDGET \in Nat \ {0} /\ BFT_ANSWER_BUDGET \in Nat \ {0}
  \* an EOS is no token of the text, and None is no token
  /\ {PAD, PRIMARY_EOS} \cap {"text", "close", "boxed", "none"} = {}

EosIds == {PAD, PRIMARY_EOS}
Tokens == {"text", "close"} \cup EosIds
force_ids == <<"close", "boxed">>

Requests == BatchPrompts \X (0..M_ROLLOUTS - 1)
Group(p) == {p} \X (0..M_ROLLOUTS - 1)

VARIABLES
  stage,    \* of each prompt
  waiting,  \* the requests of the engine that have no row yet
  rows,     \* the batch of the engine: the request of each row
  slots,    \* ForcedRowsState._slots: whose pick is forced on each row
  out,      \* of each request: the tokens of phase 1
  answer,   \* of each request: what phase 2 resumes, and its tokens so far
  rollout,  \* of each request: the tokens and the injected span of the end
  picks     \* of each request: the picks it was given (history)

stream_vars == <<stage, waiting, rows, slots, out, answer, rollout, picks>>

NoSpan == <<0, 0>>
NoAnswer == [primed |-> <<>>, span |-> NoSpan, tail |-> <<>>, row |-> -1]
NoRollout == [tokens |-> <<>>, span |-> NoSpan]

\* A pick is made with the identity of a stream and a position in it.
u_at(request, t) == [stream |-> request, t |-> t]
Picked(id, u) == [id |-> id, u |-> u]

-----------------------------------------------------------------------------
(***************************************************************************)
(* Phase 1: the engine and its logits processor.                           *)
(***************************************************************************)
Stopped(r) ==
  out[r] # <<>> /\ (Last(out[r]) \in EosIds \/ Len(out[r]) = BFT_THINKING_BUDGET)

\* One call of generate_forced_phase1: a request per rollout.
generate_forced_phase1(p) ==
  /\ stage[p] = "new"
  /\ stage' = [stage EXCEPT ![p] = "phase1"]
  /\ waiting' = waiting \o [k \in 1..M_ROLLOUTS |-> <<p, k - 1>>]
  /\ UNCHANGED <<rows, slots, out, answer, rollout, picks>>

\* Between two steps, requests that stopped leave their rows, as many as fit
\* enter, and the batch is packed again.
Repack ==
  LET kept == {r \in Range(rows) : ~ Stopped(r)}
      free == ROWS - Cardinality(kept)
      n == IF Len(waiting) < free THEN Len(waiting) ELSE free
      running == kept \cup Range(SubSeq(waiting, 1, n))
  IN  /\ running # Range(rows)
      /\ rows' \in SetToSeqs(running)
      /\ waiting' = SubSeq(waiting, n + 1, Len(waiting))

\* The state of the processor is built again from the rows, if they changed.
rebuild(changed) == slots' = IF changed THEN rows' ELSE slots

\* Slip: the rows are bound again only when their number changes.
Schedule_by_count ==
  Repack /\ rebuild(Len(rows') # Len(rows)) /\ UNCHANGED <<stage, out, answer, rollout, picks>>

\* update_state: process_dict_updates tells whether the rows changed.
Schedule ==
  Repack /\ rebuild(rows' # rows) /\ UNCHANGED <<stage, out, answer, rollout, picks>>

\* What is forced on row i: a pick by the stream and the number of tokens so far of
\* the request the processor has for the row.
force_row(i, id) == Picked(id, u_at(slots[i], Len(out[slots[i]])))

\* One step of the engine: every row gets a token.
Decode ==
  /\ rows # <<>> /\ \A r \in Range(rows) : ~ Stopped(r)
  /\ \E ids \in [DOMAIN rows -> Tokens] :
       LET RowOf(r) == CHOOSE i \in DOMAIN rows : rows[i] = r
       IN  /\ out' = [r \in Requests |->
                        IF r \in Range(rows) THEN Append(out[r], ids[RowOf(r)]) ELSE out[r]]
           /\ picks' = [r \in Requests |->
                          IF r \in Range(rows)
                            THEN picks[r] \cup {force_row(RowOf(r), ids[RowOf(r)])}
                            ELSE picks[r]]
  /\ UNCHANGED <<stage, waiting, rows, slots, answer, rollout>>

-----------------------------------------------------------------------------
(***************************************************************************)
(* Phase 2: bft_assemble_rollouts, for one prompt.                         *)
(***************************************************************************)
\* The engine takes the token it stopped on out of a completion, or does not, and
\* names it as its stop_reason; one that ran to its budget has none.
Completion(r, included) ==
  LET eos == Last(out[r])
  IN  IF eos \in EosIds
        THEN [token_ids |-> IF included THEN out[r] ELSE Front(out[r]), stop_reason |-> eos]
        ELSE [token_ids |-> out[r], stop_reason |-> "none"]

_with_stop_token(completion) ==
  LET ids == completion.token_ids
      stop == completion.stop_reason
  IN  IF stop = "none" \/ (ids # <<>> /\ Last(ids) = stop) THEN ids
      ELSE Append(ids, stop)

HasEos(ids) == \E i \in DOMAIN ids : ids[i] \in EosIds
truncate_at_first_eos(ids) ==
  IF HasEos(ids) THEN SubSeq(ids, 1, SelectInSeq(ids, LAMBDA id : id \in EosIds)) ELSE ids

\* Completions are padded to the longest of the group.
Padded(ids, width) == ids \o [i \in 1..(width - Len(ids)) |-> PAD]

Unfinished(ids, row) ==
  LET closed == \E i \in DOMAIN ids : ids[i] = "close"
  IN  IF closed THEN [NoAnswer EXCEPT !.primed = ids, !.row = row]
      ELSE [primed |-> ids \o force_ids, span |-> <<Len(ids), Len(ids) + Len(force_ids)>>,
            tail |-> <<>>, row |-> row]

\* Rows that met an EOS are kept up to it; the others are primed, the ones that
\* did not close their thinking with the forced close, and get a row each.
Assemble(p) ==
  /\ stage[p] = "phase1"
  /\ \A r \in Group(p) : Stopped(r) /\ r \notin Range(rows)
  /\ \E included \in [Group(p) -> BOOLEAN] :
       LET ids == [r \in Group(p) |->
                     truncate_at_first_eos(_with_stop_token(Completion(r, included[r])))]
           width == CHOOSE n \in {Len(ids[r]) : r \in Group(p)} : \A r \in Group(p) : n >= Len(ids[r])
           gen == [r \in Group(p) |-> Padded(ids[r], width)]
           open == {r \in Group(p) : ~ HasEos(gen[r])}
           RowOf(r) == Cardinality({q \in open : q[2] < r[2]})
       IN  /\ rollout' = [r \in Requests |->
                            IF r \in Group(p) \ open
                              THEN [tokens |-> truncate_at_first_eos(gen[r]), span |-> NoSpan]
                              ELSE rollout[r]]
           /\ answer' = [r \in Requests |->
                           IF r \in open THEN Unfinished(gen[r], RowOf(r)) ELSE answer[r]]
           /\ stage' = [stage EXCEPT ![p] = IF open = {} THEN "done" ELSE "phase2"]
  /\ UNCHANGED <<waiting, rows, slots, out, picks>>

InAnswer(p) == {r \in Group(p) : answer[r] # NoAnswer}
Ended(r) == HasEos(answer[r].tail) \/ Len(answer[r].tail) = BFT_ANSWER_BUDGET

\* One step of generate on the proof model: the rows that met an EOS get the pad,
\* the others the pick of the stream that index names, at the offset of what they
\* resume.
AnswerWith(p, index) ==
  /\ stage[p] = "phase2" /\ \E r \in InAnswer(p) : ~ Ended(r)
  /\ \E ids \in [InAnswer(p) -> Tokens] :
       LET offset(r) == Len(answer[r].primed) + Len(answer[r].tail)
           open == {r \in InAnswer(p) : ~ HasEos(answer[r].tail)}
       IN  /\ answer' = [r \in Requests |->
                           IF r \in InAnswer(p)
                             THEN [answer[r] EXCEPT !.tail = Append(@, IF r \in open THEN ids[r] ELSE PAD)]
                             ELSE answer[r]]
           /\ picks' = [r \in Requests |->
                          IF r \in InAnswer(p) /\ r \in open
                            THEN picks[r] \cup {Picked(ids[r], u_at(<<p, index[r]>>, offset(r)))}
                            ELSE picks[r]]
  /\ UNCHANGED <<stage, waiting, rows, slots, out, rollout>>

\* Slip: a row draws from the stream of its row number.
Answer_by_row(p) == AnswerWith(p, [r \in Requests |-> answer[r].row])
Answer(p) == AnswerWith(p, [r \in Requests |-> r[2]])

Finish(p) ==
  /\ stage[p] = "phase2" /\ \A r \in InAnswer(p) : Ended(r)
  /\ rollout' = [r \in Requests |->
                   IF r \in InAnswer(p)
                     THEN [tokens |-> answer[r].primed \o truncate_at_first_eos(answer[r].tail),
                           span |-> answer[r].span]
                     ELSE rollout[r]]
  /\ answer' = [r \in Requests |-> IF r \in Group(p) THEN NoAnswer ELSE answer[r]]
  /\ stage' = [stage EXCEPT ![p] = "done"]
  /\ UNCHANGED <<waiting, rows, slots, out, picks>>

\* The rollouts are handed over, and the prompt may be generated again.
HandOver(p) ==
  /\ stage[p] = "done"
  /\ stage' = [stage EXCEPT ![p] = "new"]
  /\ out' = [r \in Requests |-> IF r \in Group(p) THEN <<>> ELSE out[r]]
  /\ rollout' = [r \in Requests |-> IF r \in Group(p) THEN NoRollout ELSE rollout[r]]
  /\ picks' = [r \in Requests |-> IF r \in Group(p) THEN {} ELSE picks[r]]
  /\ UNCHANGED <<waiting, rows, slots, answer>>

-----------------------------------------------------------------------------
StreamInit ==
  /\ stage = [p \in BatchPrompts |-> "new"]
  /\ waiting = <<>> /\ rows = <<>> /\ slots = <<>>
  /\ out = [r \in Requests |-> <<>>]
  /\ answer = [r \in Requests |-> NoAnswer]
  /\ rollout = [r \in Requests |-> NoRollout]
  /\ picks = [r \in Requests |-> {}]

StreamNext ==
  \/ Schedule \/ Decode
  \/ \E p \in BatchPrompts :
       generate_forced_phase1(p) \/ Assemble(p) \/ Answer(p) \/ Finish(p) \/ HandOver(p)

StreamSpec == StreamInit /\ [][StreamNext]_stream_vars

-----------------------------------------------------------------------------
\* The replay of the validator: outside the span every token is the pick of the
\* rollout's own stream at the token's own position, the span is the forced close
\* at the end of the thinking budget, and an EOS is the last token or nowhere.
\* So it is whatever rows the request had in the batch of the engine and however
\* many of its siblings went to phase 2 with it.
RolloutsReplay ==
  \A p \in BatchPrompts : stage[p] = "done" =>
    \A r \in Group(p) :
      LET tokens == rollout[r].tokens
          span == rollout[r].span
          InSpan(i) == span[1] < i /\ i <= span[2]
      IN  /\ \A i \in DOMAIN tokens : InSpan(i) \/ Picked(tokens[i], u_at(r, i - 1)) \in picks[r]
          /\ span # NoSpan => /\ span[1] = BFT_THINKING_BUDGET
                              /\ SubSeq(tokens, span[1] + 1, span[2]) = force_ids
          /\ \A i \in DOMAIN tokens : tokens[i] \in EosIds => i = Len(tokens)

\* No pick is drawn twice, and none in the name of another rollout: what the
\* processor forces on a row is for the request that has the row.
PicksAreOwn ==
  \A r \in Requests : \A d, e \in picks[r] :
    d.u.stream = r /\ (d.u = e.u => d = e)
=============================================================================
