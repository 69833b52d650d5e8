-------------------------- MODULE MCNvmeFileSystem --------------------------
(* Instances of NvmeFileSystem for TLC.                                    *)
EXTENDS NvmeFileSystem, TLC

CONSTANTS a, b, c     \* database names

OneConfigured == <<a>>
NoneConfigured == <<>>

OneLbaEach == [n \in Configured |-> 1]
ThreeLbasEach == [n \in Configured |-> 3]

\* Databases that db_configs does not name are alike.
Unconfigured == Permutations({b, c})
=============================================================================
