--------------------------- MODULE MCAssetClient ---------------------------
(***************************************************************************)
(* The two interleaved replies of MCConnectionReceive, to a get and to an  *)
(* upload in either order.                                                 *)
(***************************************************************************)
EXTENDS AssetClient, MCConnectionReceive

GetAndUpload == <<"get", "upload">>
=============================================================================
