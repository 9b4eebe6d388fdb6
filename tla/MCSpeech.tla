------------------------------ MODULE MCSpeech ------------------------------
(***************************************************************************)
(* Speech with a view: of a speech that is done only what later steps and  *)
(* the properties still look at.                                           *)
(***************************************************************************)
EXTENDS Speech

View ==
    <<[h \in Speeches |->
         IF speech[h].stage = "done"
         THEN <<speech[h].allow, speech[h].authorized, speech[h].interrupted, speech[h].gen>>
         ELSE speech[h]],
      act, turn, sess>>
=============================================================================
