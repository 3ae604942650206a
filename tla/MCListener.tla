------------------------------- MODULE MCListener -------------------------------
(* Instances of Listener for TLC.                                            *)
EXTENDS Listener, TLC

Once(acts) == [a \in Acts |-> IF a \in acts THEN 1 ELSE 0]

\* Subscribing and unsubscribing around one event of the network, and one call
\* around a broken connection and a Relocate or a dial that fails.
ListenBudgets ==
  {Once({"subscribe", "unsubscribe", "added", act}) : act \in {"drop", "relocate", "close"}}
  \cup {Once({"subscribe", "drop", "fail"}), Once({"unsubscribe", "drop", "relocate"})}
===============================================================================
