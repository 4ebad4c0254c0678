------------------------------- MODULE MCCray -------------------------------
(***************************************************************************)
(* An instance of Cray: a grid of four blocks, a cluster of two nodes in   *)
(* which this one may change its place from run to run, and a              *)
(* configuration that is refused.                                          *)
(***************************************************************************)
EXTENDS Cray

MCConfigs == {<<0, 2>>, <<1, 2>>, <<2, 2>>}
=============================================================================
