---------------------------- MODULE MCMatchmaking ----------------------------
(* Instances of Matchmaking for TLC.                                        *)
EXTENDS Matchmaking

CONSTANTS a, b, c, a1, a2, b1

(* Everybody is alike and asks for anybody. *)
Alike  == [d \in Conns |-> UserData(1, {1}, None)]
Anyone == [d \in Conns |-> Sent([gender_id |-> 0, language_id |-> 0, min_age |-> 0, max_age |-> 0])]

(* User a asks for a language that b speaks in one tab, and in the other   *)
(* for an age that b, whose birth date is known, has not: a scan there is  *)
(* refused by the conversion of the birth date.  b asks for a's gender.    *)
TabsData == [d \in Conns |-> IF d = b1 THEN UserData(2, {1, 2}, 20) ELSE UserData(1, {1, 3}, None)]
TabsFilters ==
    a1 :> Sent([gender_id |-> 0, language_id |-> 2, min_age |-> 0, max_age |-> 0]) @@
    a2 :> Sent([gender_id |-> 0, language_id |-> 0, min_age |-> 40, max_age |-> 80]) @@
    b1 :> Sent([gender_id |-> 1, language_id |-> 0, min_age |-> 0, max_age |-> 0])

(* Every user connects once, and the connection is named by its user. *)
SoloOwner == [u \in Users |-> u]
SoloSymmetry == Permutations(Users)

(* One user with a second tab, or who reconnects. *)
TabsOwner == a1 :> a @@ a2 :> a @@ b1 :> b
==============================================================================
