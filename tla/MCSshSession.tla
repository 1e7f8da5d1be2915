---------------------------- MODULE MCSshSession ----------------------------
(* The life of an SSH session, for TLC. *)
EXTENDS SshSession

=============================================================================
