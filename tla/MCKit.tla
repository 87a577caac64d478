------------------------------- MODULE MCKit -------------------------------
(* A small instance of CudaKit: four releases, of which the third goes back *)
(* to the torch of the first and the last does not say its version.         *)
EXTENDS CudaKit

ReleaseTorch == <<1, 2, 1, 2>>
=============================================================================
