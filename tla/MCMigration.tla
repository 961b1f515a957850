----------------------------- MODULE MCMigration -----------------------------
(* Two files, which may be there from the beginning or come later, two texts *)
(* and a malformed one. Two edits are enough to add a file after the review  *)
(* and to remove or spoil one before it is read again. Files, migrations and *)
(* the two texts are interchangeable.                                        *)
EXTENDS Migration, TLC

CONSTANTS f1, f2, t1, t2, t3, m1, m2

MCFiles == {f1, f2}
MCTexts == {t1, t2, t3}
MCMalformed == {t3}
MCIds == {m1, m2}
MCSymmetry == Permutations(MCFiles) \union Permutations(MCIds) \union Permutations({t1, t2})
=============================================================================
