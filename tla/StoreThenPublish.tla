-------------------------- MODULE StoreThenPublish --------------------------
(***************************************************************************)
(* What the engine and the semantic connector promise about their output   *)
(* topics: an item is stored first and published after, never twice.  Both *)
(* read at-least-once from Kafka, so the same item may be processed any    *)
(* number of times, by several workers at once.  Nothing is promised about *)
(* a stored item being published at all.                                   *)
(***************************************************************************)
EXTENDS Naturals

CONSTANT Items     \* what is stored and published: readings, mappings

VARIABLES stored,  \* the items in the database
          sent     \* sent[x]: how often x was put on the output topic

relayVars == <<stored, sent>>

RelayInit ==
  /\ stored = {}
  /\ sent = [x \in Items |-> 0]

\* A transaction adds items.
Store ==
  /\ \E X \in SUBSET Items : stored' = stored \cup X
  /\ UNCHANGED sent

\* Stored items that were never published are published.
Publish ==
  \E X \in SUBSET stored :
    /\ \A x \in X : sent[x] = 0
    /\ sent' = [x \in Items |-> IF x \in X THEN 1 ELSE sent[x]]
    /\ UNCHANGED stored

RelayNext == Store \/ Publish

RelaySpec == RelayInit /\ [][RelayNext]_relayVars
=============================================================================
