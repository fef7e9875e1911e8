----------------------------- MODULE MCDispatch ------------------------------
(* Small instances of Dispatch for TLC. *)
EXTENDS Dispatch, TLC

CONSTANTS t1, t2, c1, c2

MCTokens == Permutations(Tokens) \cup Permutations(Callers)

\* Bound: the reply to CreateTask is lost only while no other task is left.
OneLostReply ==
  \A c \in Callers :
    call[c].pc = "send" /\ call'[c].pc = "undo" /\ task' # task =>
      \A t \in Tokens : task[t].st = "gone"
MCFairSpec == Init /\ [][Next /\ OneLostReply]_vars /\ Fairness
=============================================================================
