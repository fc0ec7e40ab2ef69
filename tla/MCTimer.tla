------------------------------ MODULE MCTimer ------------------------------
(* Two timers; ev has as many entries as read returns bytes, so that the   *)
(* loop meets the entries that epoll_wait left alone.                      *)
EXTENDS Timer, TLC

Symmetry == Permutations(Timer)
=============================================================================
