----------------------------- MODULE MCSession -----------------------------
EXTENDS Session

\* "4k", "10s", "10", "1.5m" and "3x".
MCTexts ==
  {[number |-> 4, whole |-> TRUE, word |-> "k"], [number |-> 10, whole |-> TRUE, word |-> "s"],
   [number |-> 10, whole |-> TRUE, word |-> ""], [number |-> 1, whole |-> FALSE, word |-> "m"],
   [number |-> 3, whole |-> TRUE, word |-> "x"]}
=============================================================================
