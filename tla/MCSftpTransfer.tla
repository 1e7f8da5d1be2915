--------------------------- MODULE MCSftpTransfer ---------------------------
(* One SFTP session and the transfers of its queue, for TLC. *)
EXTENDS SftpTransfer, TLC

\* Without is the filter it stands for.
ASSUME WithoutFilters ==
    \A s \in BoundedSeq(1..3, 4), t \in 1..3 :
      Without(s, t) = SelectSeq(s, LAMBDA p : p # t)

\* Transfers of one direction are interchangeable.
Symmetry == Permutations(Uploads) \cup Permutations(Downloads)

=============================================================================
