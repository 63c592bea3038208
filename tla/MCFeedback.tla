----------------------------- MODULE MCFeedback -----------------------------
(* Two users and one reply at a time. *)
EXTENDS Feedback
=============================================================================
