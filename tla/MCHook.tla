-------------------------------- MODULE MCHook --------------------------------
(***************************************************************************)
(* Three Hook objects on two functions.  h1 and h2 compete for f1: the     *)
(* hook function of h1 is close, that of h2 needs the padding of f1 or a   *)
(* long jump.  The prolog of f2 can only be copied for a short jump, so h3 *)
(* is refused when its auxiliary prolog is.                                *)
(***************************************************************************)
EXTENDS Hook, TLC

CONSTANTS f1, f2, h1, h2, h3, t1, t2, t3, c1

MCFuncs == {f1, f2}
MCHooks == {h1, h2, h3}
MCFuncOrig == h1 :> f1 @@ h2 :> f1 @@ h3 :> f2
MCNear == {h1}
MCAuxSpots == f1 :> 1 @@ f2 :> 1
MCDecodable == f1 :> {"short", "near", "abs"} @@ f2 :> {"short"}
MCSlots == {t1, t2, t3}
SlotSymmetry == Permutations(MCSlots)
=============================================================================
