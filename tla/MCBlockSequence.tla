---------------------------- MODULE MCBlockSequence ----------------------------
(***************************************************************************)
(* The programs of two blocks that are checked.                            *)
(***************************************************************************)
EXTENDS BlockSequence

(***************************************************************************)
(* All pairs of one style.                                                 *)
(***************************************************************************)
AllPairs ==
  ({"dynamic", "static"} \X {"dynamic", "static"})
    \cup ({"oldDynamic", "oldStatic"} \X {"oldDynamic", "oldStatic"})

StaticFirst == {<<"static", "dynamic">>, <<"static", "static">>}
================================================================================
