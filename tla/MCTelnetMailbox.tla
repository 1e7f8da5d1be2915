--------------------------- MODULE MCTelnetMailbox --------------------------
(* The waits between Telnet actor, owners and clients, for TLC. *)
EXTENDS TelnetMailbox, SequencesExt

(* AbortOwners is the filter of the sequence of waiting messages. *)
ASSUME AbortOwnersFilters ==
    \A S \in SUBSET {1, 2}, w \in BoundedSeq([from : 1..3], 4) :
        AbortOwners(S, w) = SelectSeq(w, LAMBDA m : m.from \notin S)

=============================================================================
