---------------------------- MODULE MCAssetBatches ----------------------------
(* TLC instance of AssetBatches: two uploads of the same manual, of up to  *)
(* two files, and a page rendered for the first of them.                   *)
EXTENDS AssetBatches, TLC

CONSTANTS u1, u2, r1

MCUploads == {u1, u2}
MCRenders == {r1}
MCManualOf == (r1 :> u1)
MCSize == (u1 :> 2 @@ u2 :> 1)
MCSource == (u1 :> "game" @@ u2 :> "game")
=============================================================================
