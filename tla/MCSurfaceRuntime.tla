-------------------------- MODULE MCSurfaceRuntime --------------------------
EXTENDS SurfaceRuntime

MCDte == {1, 2, 3}
=============================================================================
