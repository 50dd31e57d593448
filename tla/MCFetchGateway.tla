--------------------------- MODULE MCFetchGateway ---------------------------
(* The instance of FetchGateway that TLC checks. *)
EXTENDS FetchGateway
=============================================================================
