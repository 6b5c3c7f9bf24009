---------------------------- MODULE MCHomeFigures ---------------------------
(* Instances of HomeFigures for TLC: a schedule that runs past its overflow. *)
EXTENDS HomeFigures
=============================================================================
