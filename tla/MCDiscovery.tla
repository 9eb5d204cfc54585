------------------------------ MODULE MCDiscovery ------------------------------
(* A small router: one group, of a device of another router
   and a load on the last subnet; its last scene is at the end of a block, and
   the last place of the load's table has a level too. *)
EXTENDS Discovery, TLC

CONSTANTS g1, light, other

MCSubnetOf == light :> 4 @@ other :> 0
MCRouterMembers == g1 :> <<other, light>>
MCRouterLastScene == g1 :> <<2, 16>>
MCRouterNames == g1 :> {<<1, 1>>, <<200, 3>>}
MCRouterLevel == light :> 20 @@ other :> 20
MCTable == [place \in 0..TableLength - 1 |-> CASE place = 32 -> 100 [] place = 135 -> 50
                                               [] OTHER -> Ignore]
MCTableLevel == light :> MCTable @@ other :> MCTable
=============================================================================
