--------------------------- MODULE MCStorageAccess ---------------------------
(* StorageAccess with small memories *)
EXTENDS StorageAccess, TLC
CONSTANTS a, b, c
MCArea == a :> 3 @@ b :> 2 @@ c :> 3
MCCcBlocks == c :> 1
MCBlocks == c :> 3
==============================================================================
