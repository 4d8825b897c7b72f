------------------------------ MODULE MCRouting ------------------------------
(* Three routes over two connections; two actions of one type, of which one *)
(* needs a stronger model.                                                  *)
EXTENDS FallbackSearch, TLC

CONSTANTS r1, r2, r3, c1, c2, plan, build, work

MCConnOf == r1 :> c1 @@ r2 :> c2 @@ r3 :> c2
MCTypeOf == plan :> work @@ build :> work
MCMeets == {<<"full", plan>>, <<"full", build>>, <<"weak", plan>>}
MCOffers == r1 :> {"full"} @@ r2 :> {"full"} @@ r3 :> {"weak", "full"}
=============================================================================
