---- MODULE MCSupport ----
(* The first U-proc prints strings of two characters and empty ones, the     *)
(* second writes a character to its terminal.                                *)
EXTENDS Support

MCStrings == {<<1, "IL_PRINTER", 0>>, <<1, "IL_PRINTER", 2>>, <<2, "IL_TERMINAL", 1>>}
=============================================================================
