---------------------------- MODULE MCRegistryApi ----------------------------
(* RegistryApi for TLC: three tasks, two of which run the same file.        *)
EXTENDS RegistryApi

CONSTANTS t1, t2, t3, fileA, fileB

MCModuleName == (t1 :> fileA) @@ (t2 :> fileA) @@ (t3 :> fileB)

\* Names that fit the field, and a fileB whose name does not.
FittingNames == (fileA :> fileA) @@ (fileB :> fileB)
LongName == (fileA :> fileA) @@ (fileB :> "prefix of fileB")
=============================================================================
