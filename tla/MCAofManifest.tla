---------------------------- MODULE MCAofManifest ----------------------------
(***************************************************************************)
(* TLC instances of AofManifest.                                           *)
(***************************************************************************)
EXTENDS AofManifest
=============================================================================
