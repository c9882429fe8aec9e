----------------------------- MODULE MCEventBus -----------------------------
(***************************************************************************)
(* Small instances of EventBus: two events, of one type or of two, the      *)
(* second also the reply a callback may publish to the first.               *)
(***************************************************************************)
EXTENDS EventBus, TLC

CONSTANTS m1, m2, T1, T2

OneType == m1 :> T1 @@ m2 :> T1
TwoTypes == m1 :> T1 @@ m2 :> T2
NoReply == m1 :> nil @@ m2 :> nil
Answer == m1 :> m2 @@ m2 :> nil
=============================================================================
