------------------------------- MODULE Addresses -------------------------------
(***************************************************************************)
(* The numbers HelvarNet uses for scenes.  Within a group a scene is a      *)
(* block and a scene number, here <<block, scene>>.                         *)
(***************************************************************************)
EXTENDS Integers

Blocks == 1..8
SceneNumbers == 1..16

(* What a router answers to QUERY_LAST_SCENE_IN_GROUP (C:109). *)
LastSceneReply(block, scene) == (block - 1) * 16 + scene
LAST_SCENE_NONE_SENTINEL == 256

(* Mutant: scene 16 of a block decodes as scene 0 of the next. *)
ScenesFromZero(block_scene) ==
    IF block_scene < 1 \/ block_scene >= LAST_SCENE_NONE_SENTINEL THEN <<>>
    ELSE <<block_scene \div 16 + 1, block_scene % 16>>

(* <<>> stands for None. *)
blockscene_to_block_and_scene(block_scene) ==
    IF block_scene < 1 \/ block_scene >= LAST_SCENE_NONE_SENTINEL THEN <<>>
    ELSE <<(block_scene - 1) \div 16 + 1, ((block_scene - 1) % 16) + 1>>

(* SceneAddress.to_device_int: the place of a scene in a device's table; its
   max(0, ...) is for blocks below 1, which SceneAddress does not allow *)
to_device_int(block, scene) == (block - 1) * 16 + scene
TableLength == 136
=============================================================================
