--------------------------- MODULE MCDurableChild ---------------------------
(* Instances of DurableChild for TLC. *)
EXTENDS DurableChild

CONSTANTS m1, m2

\* A child that may not be replayed, and one that may.
MCChildren == { [effect |-> "side-effect", hasKey |-> TRUE],
                [effect |-> "idempotent-write", hasKey |-> TRUE] }
=============================================================================
