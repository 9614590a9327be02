------------------------- MODULE StationDimensions --------------------------
(* The tiles of a station, which are counted from 1, and their FPGAs.        *)
EXTENDS Naturals

CONSTANT NofTiles

Fpgas == (1 .. NofTiles) \X {1, 2}
=============================================================================
