--------------------------- MODULE HostShutdownMC ---------------------------
(* Small instances of HostShutdown for TLC. *)
EXTENDS HostShutdown

Key   == <<<<"TX", TRUE>>>>
Unkey == <<<<"TX", FALSE>>>>
PttRequests == {Key, Unkey}
=============================================================================
