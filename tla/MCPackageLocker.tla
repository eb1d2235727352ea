--------------------------- MODULE MCPackageLocker ----------------------------
(* Two carriers before two compartments of one size, for TLC.                *)
EXTENDS PackageLocker

OneSize == [c \in {1, 2} |-> "small"]
=============================================================================
