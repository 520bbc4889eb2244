---------------------------- MODULE ImportPromise ----------------------------
(***************************************************************************)
(* What the import slot promises whoever asks for an import: one at least  *)
(* as thorough as the request begins after the request was made, and no    *)
(* later than when the import that was running then ends.                  *)
(*                                                                         *)
(* Requests have a strength.  A catch-up (1) looks for new files; a        *)
(* re-read (2) also reads the recorded failures again; a rebuild (3) reads *)
(* everything.  One import runs at a time, so the requests that arrive in  *)
(* the meantime are owed, and the strongest of them stands for all.        *)
(***************************************************************************)
EXTENDS Naturals

VARIABLES
  running,  \* strength of the running import, 0 when none runs
  owed      \* strength of the strongest request made since it began, 0 when none

promiseVars == <<running, owed>>

Strength == 1 .. 3

PromiseTypeOK == running \in 0 .. 3 /\ owed \in 0 .. 3

Init == running = 0 /\ owed = 0

Stronger(a, b) == IF a < b THEN b ELSE a

\* A free slot serves the request at once, and at least as thoroughly.
AskFree(k) ==
  /\ running = 0
  /\ running' \in k .. 3
  /\ owed' = 0

\* A request made while an import runs is owed: exactly it, or what was owed before.
AskBusy(k) ==
  /\ running # 0
  /\ owed' = Stronger(owed, k)
  /\ UNCHANGED running

\* The slot passes on to an import that covers everything owed; it may also run
\* one that nobody is owed.
Continue ==
  /\ running # 0
  /\ running' \in Stronger(owed, 1) .. 3
  /\ owed' = 0

Rest ==
  /\ running # 0
  /\ owed = 0
  /\ running' = 0
  /\ UNCHANGED owed

Next == (\E k \in Strength : AskFree(k) \/ AskBusy(k)) \/ Continue \/ Rest

\* Imports end, so nothing stays owed for ever.
Fairness == WF_promiseVars(Continue \/ Rest)

Spec == Init /\ [][Next]_promiseVars
FairSpec == Spec /\ Fairness
=============================================================================
