------------------------------ MODULE MCSurfaces ------------------------------
(* Two surfaces, one with a dot in its id, and one frame.                    *)
EXTENDS Surfaces

CONSTANT u

MCSurfaceIds == {<<"board">>, <<"board", "side">>}
MCConfigurations == {Grants, {}}
MCFrameIds == {<<"maps", "show">>}
=============================================================================
