----------------------------- MODULE MCPageFrame -----------------------------
(* Three threads, two parts: a closure can be interrupted halfway.         *)
EXTENDS PageFrame
=============================================================================
