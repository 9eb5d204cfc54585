-------------------------------- MODULE Levels --------------------------------
(***************************************************************************)
(* Brightness, 0 to 255, and load levels, 0 to 100 in the code and tenths   *)
(* of that here.  255 is 2.55 * 100, but not in binary floating point.      *)
(***************************************************************************)
EXTENDS Integers

(* set_device_brightness: rounded to a tenth; no level is half-way between two *)
LevelOf(brightness) == (brightness * 1000 + 127) \div 255

(* Device.brightness: int(load_level * 2.55); 2.55 is a little less than that,
   which shows at level 100 only. *)
BrightnessOf(level) == (IF level = 1000 THEN 254999 ELSE level * 255) \div 1000

(* set_group_level and Device._set_level *)
Clamped(level) == IF level < 0 THEN 0 ELSE IF level > 1000 THEN 1000 ELSE level
=============================================================================
