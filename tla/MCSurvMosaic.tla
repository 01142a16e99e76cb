---------------------------- MODULE MCSurvMosaic ----------------------------
(* SurvMosaic for TLC: one wall, a viewer and a configuration. *)
EXTENDS SurvMosaic
=============================================================================
