----------------------------- MODULE MCAoqServer -----------------------------
(***************************************************************************)
(* AoqServer as it is; Server.cfg gives the constants their values.        *)
(***************************************************************************)
EXTENDS AoqServer
=============================================================================
