----------------------------- MODULE InstallMC -----------------------------
(* An archive of three files, of which one takes several writes.           *)
EXTENDS Install

MCArchive == <<"echo", "pi", "ps">>
MCPieces == [f \in Names |-> IF f = "pi" THEN 2 ELSE 1]
=============================================================================
