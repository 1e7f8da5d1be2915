----------------------------- MODULE SecretCustody -----------------------------
(* What every two-store saga of NoriShell promises about a secret whose         *)
(* metadata is a SQLite row and whose value is a vault entry: the value is      *)
(* written only while the row is an unfinished intent, erased only while the    *)
(* row is being cleaned up, present and fixed for as long as the row offers it, *)
(* and gone once the row says so, unless a loss of power brings back an erased  *)
(* file.  A saved record that uses it may have the value replaced by another,   *)
(* never taken away, until it gives the reference up.                           *)
CONSTANTS Refs, Values, Absent, PowerLoss

VARIABLES phase,     \* where the row of each reference stands
          kept       \* the value the vault file holds under it

vars == <<phase, kept>>

Phases == {"None", "Pending", "Live", "Used", "Released", "Retiring", "Gone"}

Init ==
    /\ phase = [r \in Refs |-> "None"]
    /\ kept = [r \in Refs |-> Absent]

(* The row moves and the vault does not. *)
Move(r) ==
    /\ kept'[r] = kept[r]
    /\ \/ phase[r] = "None" /\ phase'[r] = "Pending"
       \/ phase[r] = "Pending" /\ phase'[r] = "Live" /\ kept[r] # Absent
       \/ phase[r] = "Live" /\ phase'[r] = "Used"
       \/ phase[r] = "Used" /\ phase'[r] = "Released"
       \/ phase[r] \in {"Pending", "Live"} /\ phase'[r] = "Retiring"
       \/ phase[r] \in {"Pending", "Retiring"} /\ phase'[r] = "Gone" /\ kept[r] = Absent

(* The vault may move and the row does not. *)
Store(r) ==
    /\ phase'[r] = phase[r]
    /\ kept'[r] # kept[r] =>
          \/ phase[r] \in {"Pending", "Retiring", "Released"}
          \/ phase[r] = "Used" /\ kept'[r] # Absent
          \/ PowerLoss /\ phase[r] = "Gone"

(* One step of the program may touch several references: a persist writes them  *)
(* all, and recovery at start moves every unfinished row.                       *)
Next ==
    /\ \A r \in Refs : Move(r) \/ Store(r)
    /\ phase' \in [Refs -> Phases]
    /\ kept' \in [Refs -> Values \union {Absent}]

Spec == Init /\ [][Next]_vars

================================================================================
