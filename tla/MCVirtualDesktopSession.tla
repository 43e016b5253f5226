----------------------- MODULE MCVirtualDesktopSession -----------------------
(* VirtualDesktopSession for TLC: the constants get their values in the     *)
(* session_*.cfg files, one per question.                                   *)
EXTENDS VirtualDesktopSession
=============================================================================
