--------------------------- MODULE MCTelnetSession --------------------------
(* One Telnet session and its tasks, for TLC. *)
EXTENDS TelnetSession

=============================================================================
