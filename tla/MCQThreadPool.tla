---------------------------- MODULE MCQThreadPool ----------------------------
(* QThreadPool with priorities that a .cfg cannot write.                   *)
EXTENDS QThreadPool

NegativeToo == {-1, 0}
=============================================================================
