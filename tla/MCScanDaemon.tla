---------------------------- MODULE MCScanDaemon ----------------------------
(* ScanDaemon on small instances.                                          *)
EXTENDS ScanDaemon
=============================================================================
