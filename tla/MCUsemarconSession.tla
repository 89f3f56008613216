------------------------ MODULE MCUsemarconSession ------------------------
(* Instances of UsemarconSession: two configurations and one that cannot   *)
(* be loaded, records with errors and one that cannot be read.             *)
EXTENDS UsemarconSession, TLC

CONSTANTS a, b, bad, f1, f2, f3

AllCalls == {"SetIniFileName", "SetConfigOverrides", "SetDisableCharacterConversion",
             "SetMarcFileNames", "SetMarcRecord", "Convert"}
\* The calls of the example in program/usemarcon.cpp.
ExampleCalls == {"SetIniFileName", "SetMarcRecord", "Convert"}

\* f3 is not there: as an output file it is new, as an input file missing.
MCInput == f1 :> <<1, 2>> @@ f2 :> <<2, 4, 1>>
\* Record 3 has too many errors, 4 cannot be read.
MCErrors == 1 :> 0 @@ 2 :> 1 @@ 3 :> 2 @@ 4 :> 0
=============================================================================
