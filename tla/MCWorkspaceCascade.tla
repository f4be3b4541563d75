------------------------- MODULE MCWorkspaceCascade -------------------------
(* Instances of WorkspaceCascade for TLC.                                  *)
EXTENDS WorkspaceCascade

CONSTANTS a1, a2, a3

Silence == <<>>
=============================================================================
