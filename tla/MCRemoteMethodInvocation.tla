---------------------- MODULE MCRemoteMethodInvocation ----------------------
(* RemoteMethodInvocation for TLC: the threads that invoke are alike.        *)
EXTENDS RemoteMethodInvocation, TLC

Symmetry == Permutations(Threads)
=============================================================================
