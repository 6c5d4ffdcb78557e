-------------------------- MODULE MCSessionStore --------------------------
EXTENDS SessionStore, TLC
CONSTANTS a, b
MCSymmetry == Permutations({a, b})
=============================================================================
