---------------------------- MODULE MCResources ----------------------------
(* Images 1 and 2 and the wallpaper 3; the set 4, cut from image 1, and the sprite 5
   with it.  The atlas 6 is the one of empty images: one texture, 8, even of one file.
   The atlas 7 lists its two files twice, as after the data was loaded twice: there is
   no texture if only one can be read, and there are two of the same name, 9, if one
   has room for two images.  The numbers are the order of the identifiers in the maps. *)
EXTENDS Resources

MCImageOf == [s \in {4} |-> 1]
MCTiles == [s \in {4} |-> 2]
MCSetOf == [s \in {5} |-> 4]
MCFilesOf == [a \in {6, 7} |-> IF a = 6 THEN <<1>> ELSE <<1, 2, 1, 2>>]
MCLayouts == [a \in {6, 7} |-> IF a = 6 THEN {<<1, 8>>} ELSE {<<>>, <<1, 2, 9, 1, 2, 9>>}]
=============================================================================
