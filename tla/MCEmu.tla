-------------------------------- MODULE MCEmu -------------------------------
(***************************************************************************)
(* The two values stand for processes, and for channels, in every device.  *)
(***************************************************************************)
EXTENDS TLC, Emu

CONSTANTS c1, c2

Both == {c1, c2}
Symmetric == Permutations(Both)

=============================================================================
