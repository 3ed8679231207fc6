--------------------------- MODULE MCMCP23008Pins ---------------------------
(* A model-checking instance of MCP23008Pins.                              *)
EXTENDS MCP23008Pins, TLC

Symmetry == Permutations(Devices) \cup Permutations(Bits) \cup Permutations(OpenDrainPins)
=============================================================================
