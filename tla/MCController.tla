---------------------------- MODULE MCController ----------------------------
(* Instances of Controller for TLC.                                        *)
EXTENDS Controller

\* Tunnels, servers and workers are interchangeable (safety runs only).
ControllerSymmetry ==
    Permutations(Tunnel) \cup Permutations(Server) \cup Permutations(Worker)
=============================================================================
