---------------------------- MODULE MCOpalSession ----------------------------
(* OpalSession on a drive that hands out two session numbers. *)
EXTENDS OpalSession

MCTSNs      == {<<0, 0, 16, 1>>, <<0, 0, 0, 130>>}
MCSetErrors == {"NOT_AUTHORIZED", "NoMethodStatus"}
===============================================================================
