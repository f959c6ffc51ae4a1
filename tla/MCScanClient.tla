---------------------------- MODULE MCScanClient ----------------------------
(* Model checking ScanClient.                                              *)
EXTENDS ScanClient
=============================================================================
