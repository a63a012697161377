------------------------------ MODULE MCCleanQa ------------------------------
(* Two sessions that may want the one Clean QA window, beside the user.      *)
EXTENDS CleanQa

CONSTANTS s1, s2

MCSession == {s1, s2}
=============================================================================
