--------------------------- MODULE MCOutboxRelay ---------------------------
(* OutboxRelay with one relay, and with two.                               *)
EXTENDS OutboxRelay

MCDeployments == {{"a"}, {"a", "b"}}
MCMaxTx == [d \in MCDeployments |-> IF Cardinality(d) = 1 THEN 3 ELSE 2]
=============================================================================
