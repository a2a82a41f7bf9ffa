---------------------------- MODULE PromptLedger ----------------------------
(***************************************************************************)
(* What the windows of a validator promise about prompts, with no batcher, *)
(* lock, queue or map in it: windows open one after the other, and each    *)
(* closes at most once, on at most B_BATCH prompts none of which a window  *)
(* of the last COOLDOWN_WINDOWS closed on.                                 *)
(***************************************************************************)
EXTENDS Integers, FiniteSets

CONSTANTS Prompts, B_BATCH, COOLDOWN_WINDOWS, MaxWindow

Windows == 1..MaxWindow

VARIABLES
  opened,   \* the number of the last window
  closed,   \* the windows that closed on a batch, empty or not
  ledger    \* [Windows -> SUBSET Prompts]: the prompts a window closed on

vars == <<opened, closed, ledger>>

Recent(w) ==
  IF COOLDOWN_WINDOWS = 0 THEN {}
  ELSE UNION {ledger[v] : v \in {u \in closed : w - u < COOLDOWN_WINDOWS}}

Open ==
  /\ opened < MaxWindow
  /\ opened' = opened + 1
  /\ UNCHANGED <<closed, ledger>>

CloseOn(prompts) ==
  /\ opened \in Windows \ closed
  /\ Cardinality(prompts) <= B_BATCH
  /\ prompts \cap Recent(opened) = {}
  /\ closed' = closed \cup {opened}
  /\ ledger' = [ledger EXCEPT ![opened] = prompts]
  /\ UNCHANGED opened

Init ==
  /\ opened = 0
  /\ closed = {}
  /\ ledger = [w \in Windows |-> {}]

Next == Open \/ \E prompts \in SUBSET Prompts : CloseOn(prompts)

Spec == Init /\ [][Next]_vars
=============================================================================
