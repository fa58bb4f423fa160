--------------------------- MODULE MCSourceReplay ---------------------------
(***************************************************************************)
(* A small instance of SourceReplay: a Craft whose replacement makes fewer *)
(* observations of a record.                                               *)
(***************************************************************************)
EXTENDS SourceReplay, TLC

TwoLens == "v1" :> 3 @@ "v2" :> 2
=============================================================================
