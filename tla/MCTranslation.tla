---- MODULE MCTranslation ----
(* Instances of the translation runs for TLC. *)
EXTENDS TranslationProperties, TLC

CONSTANTS t1, t2, r1, r2, c1, c2, e1, e2, noConfig, noRun

OneTask == [r \in Runs |-> t1]
Symmetric == Permutations({r1, r2})
====
