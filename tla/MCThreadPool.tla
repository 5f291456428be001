---------------------------- MODULE MCThreadPool ----------------------------
(* ThreadPool for TLC: the first thread, then resizes to two threads or to  *)
(* more than the hardware has, with tasks before, between and after.        *)
EXTENDS ThreadPool

MCSizes == {2, 3}
=============================================================================
