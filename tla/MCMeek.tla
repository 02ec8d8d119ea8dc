------------------------------- MODULE MCMeek -------------------------------
EXTENDS Meek, TLC

MeekSymmetry == Permutations(Handler)

=============================================================================
