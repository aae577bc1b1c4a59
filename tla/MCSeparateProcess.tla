--------------------------- MODULE MCSeparateProcess ---------------------------
(* A small instance of SeparateProcess.                                    *)
EXTENDS SeparateProcess

MCExitCodes == {1, 3}
===============================================================================
