---------------------------- MODULE MCWaitingRoom ----------------------------
(* Instances of WaitingRoom for TLC.                                        *)
EXTENDS WaitingRoom, TLC

(* Websockets are told apart only by their states, rooms by who refused.   *)
Alike == Permutations(Socks) \cup Permutations(Rooms)
=============================================================================
