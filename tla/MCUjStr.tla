------------------------------- MODULE MCUjStr ------------------------------
(***************************************************************************)
(* Hashes of one or two entries for UjStr, with headers as wide as those   *)
(* of sds.h as far as the strings written here reach.                      *)
(***************************************************************************)
EXTENDS UjStr, TLC

MCCap == 0 :> 31 @@ 1 :> 255 @@ 2 :> 65535 @@ 3 :> 1000000 @@ 4 :> 100000000

MCKeys    == {<<97>>}
MCValues  == {[k \in 1 .. n |-> 49] : n \in {1, 20, 28}}
MCFormats == {}
MCTexts   == {}
MCEnds    == {}
=============================================================================
