------------------------------ MODULE MCMT4Sync ------------------------------
(* MT4Sync for TLC: two terminals with one tag, with two tags, and one of  *)
(* them with a tag that holds an apostrophe.                               *)
EXTENDS MT4Sync

CONSTANTS t1, t2, g1, g2, g3

TaggedForTLC == {[t \in {t1, t2} |-> IF t = t1 THEN g1 ELSE g] : g \in {g1, g2, g3}}
==============================================================================
