------------------------------ MODULE MCSignOn ------------------------------
(* Instances of SignOn for TLC.                                            *)
EXTENDS SignOn

Setting(happen, played, said) ==
  [disturbances |-> happen, levels |-> played, says |-> said]

MCSettings ==
  {Setting({}, 3, 0),
   Setting({"reorder", "early", "timeout", "fast", "slow"}, 3, 1)}
MCEarly == {Setting({"early"}, 2, 0)}
MCTalk == {Setting({}, 2, 1)}
=============================================================================
