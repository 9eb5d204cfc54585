---------------------------- MODULE MCSceneTracking ----------------------------
(* Small instances of SceneTracking: two groups that share a device. *)
EXTENDS SceneTracking, TLC

CONSTANTS g1, g2, d1, d2, d3, d4, d5, a, b, c, u, f1, f2

MCGroups == {g1, g2}
MCDevices == {d1, d2, d3, d4, d5}
MCScenes == {a, b, c, u}
MCGroupOf == a :> g1 @@ b :> g1 @@ c :> g2 @@ u :> NoGroup

(* d3 is no load, d4 is not registered; a recall may stop at d2 and d5. *)
MCMembers == g1 :> <<d1, d2, d5>> @@ g2 :> <<d3, d4, d2>>
MCRegistered == MCDevices \ {d4}
MCLoads == MCDevices \ {d3}
MCSubscribers == [x \in MCGroups \union MCDevices |->
                    CASE x = d2 -> <<f1, f2>> [] x = g2 -> <<f2>>
                      [] x = d5 -> <<f1>> [] OTHER -> <<>>]
MCFickle == {<<d2, f1>>}
MCRaising == {d5}

(* d5 has no entry for scene a *)
MCEntry ==
    d1 :> (a :> 100 @@ b :> -1 @@ c :> -1 @@ u :> -1) @@
    d2 :> (a :> 0 @@ b :> -2 @@ c :> 100 @@ u :> -1) @@
    d3 :> (a :> -1 @@ b :> -1 @@ c :> -1 @@ u :> -1) @@
    d4 :> (a :> -1 @@ b :> -1 @@ c :> 100 @@ u :> -1) @@
    d5 :> (a :> -3 @@ b :> 100 @@ c :> -1 @@ u :> -1)
MCLevels == {0, 100}
MCSent == {<<d1, 100>>, <<d2, 0>>, <<d4, 100>>}
PairSent == {<<d2, 0>>}

(* One group of two loads: the first has a subscriber and ignores scene b. *)
PairScenes == {a, b}
PairGroups == {g1}
PairDevices == {d1, d2}
PairGroupOf == a :> g1 @@ b :> g1
PairMembers == g1 :> <<d1, d2>>
PairSubscribers == d1 :> <<f1>> @@ d2 :> <<>> @@ g1 :> <<>>
PairEntry == d1 :> (a :> 100 @@ b :> -1) @@ d2 :> (a :> 100 @@ b :> 0)
=============================================================================
