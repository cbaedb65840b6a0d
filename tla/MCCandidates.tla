---------------------------- MODULE MCCandidates ----------------------------
(* Two job ids, two templates, two blocks: a job id moves on while answers,
   asked for or not, are under way. *)
EXTENDS Candidates
=============================================================================
