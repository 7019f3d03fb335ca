---------------------------- MODULE MCDeadLetters ----------------------------
EXTENDS DeadLetters, TLC

MCIds == 1..3

\* Two events of one type, and one of another between them.
MCTypeOf == << "granted", "login", "granted" >>

MCSymmetry == Permutations(Operators)
=============================================================================
