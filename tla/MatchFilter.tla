----------------------------- MODULE MatchFilter -----------------------------
(***************************************************************************)
(* is_match of the call server (ws_service.py) and the filters a client    *)
(* asks with (useCallWebSocket.ts).  What is absent is None.               *)
(***************************************************************************)
EXTENDS Naturals

CONSTANT None

(* What of a client's choice reaches the server: 0 is no choice, and is    *)
(* left out of the websocket's address.                                    *)
Sent(choice) == [k \in DOMAIN choice |-> IF choice[k] = 0 THEN None ELSE choice[k]]

(* The user as handle_connect describes him, a birth date as his age.      *)
UserData(gender, languages, age) ==
    [gender_id |-> gender, languages |-> languages, birth_date |-> age]

(* birth_date is the text of a DateTime, which the parser of dates refuses *)
(* with an exception that is caught: whoever has one fails any age filter, *)
(* and whoever has none passes.                                            *)
IsMatch(user, filters) ==
    /\ filters.gender_id # None => user.gender_id = filters.gender_id
    /\ filters.language_id # None => filters.language_id \in user.languages
    /\ user.birth_date # None => filters.min_age = None /\ filters.max_age = None

(* What the filters ask for: the gender, a language among the user's, and  *)
(* an age within the bounds if it is known.                                *)
Wants(filters, user) ==
    /\ filters.gender_id \in {None, user.gender_id}
    /\ filters.language_id \in {None} \cup user.languages
    /\ filters.min_age = None \/ user.birth_date = None \/ filters.min_age <= user.birth_date
    /\ filters.max_age = None \/ user.birth_date = None \/ user.birth_date <= filters.max_age
==============================================================================
