------------------------------- MODULE MCLwac -------------------------------
(* Lwac for TLC.  The tasks are interchangeable; only the runs that check    *)
(* nothing temporal may use that.                                            *)
EXTENDS Lwac

Symmetry == Permutations(Task)
=============================================================================
