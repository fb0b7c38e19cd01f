------------------------------- MODULE MCTalkTo -------------------------------
(* TalkTo as TLC checks it: the environment does one thing much or another.  *)
EXTENDS TalkTo

Budget(lines, lives, presses, resizes) ==
    [lines |-> lines, lives |-> lives, presses |-> presses, resizes |-> resizes]

\* Frames against a key; a daemon that goes and comes; one of each; keys and
\* triggers against the agent; resizes.
MCBudgets == {Budget(4, 0, 1, 0), Budget(1, 2, 0, 0), Budget(1, 1, 1, 0),
              Budget(0, 0, 3, 0), Budget(0, 0, 0, 2)}
==============================================================================
