--------------------------- MODULE MCCameraWatch ----------------------------
(* A small instance of the page that watches, with its handlers, for TLC.  *)
EXTENDS CameraWatch, TLC

Symm == Permutations(Requests)
=============================================================================
