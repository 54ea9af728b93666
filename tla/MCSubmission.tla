---------------------------- MODULE MCSubmission ----------------------------
(* Two conversations, two questions and three Runs: a question and its Retries,
   or two questions, in one conversation while the tab switches to the other. *)
EXTENDS Submission, TLC
=============================================================================
