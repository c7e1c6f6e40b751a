----------------------------- MODULE MCAssetPager -----------------------------
(***************************************************************************)
(* Instances of AssetPager for TLC.                                        *)
(***************************************************************************)
EXTENDS AssetPager
=============================================================================
