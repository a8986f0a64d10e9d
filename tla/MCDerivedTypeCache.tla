-------------------------- MODULE MCDerivedTypeCache --------------------------
(* An instance of DerivedTypeCache for TLC: two bases that share a derived  *)
(* type, two salts.                                                         *)
EXTENDS DerivedTypeCache, TLC

CONSTANTS t1, t2, content, person, address, user, salt0, salt1

MCThreads == {t1, t2}
MCSymmetry == Permutations(MCThreads)
MCBases == {content, person}
MCTypes == {address, user}
MCDerived == [b \in MCBases |-> IF b = content THEN <<address, user>> ELSE <<user>>]
=============================================================================
