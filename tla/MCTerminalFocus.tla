--------------------------- MODULE MCTerminalFocus --------------------------
(* The terminal input focus over one Telnet and one SSH session, for TLC. *)
EXTENDS TerminalFocus

=============================================================================
