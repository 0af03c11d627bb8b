----------------------------- MODULE MCDelegation -----------------------------
(* Instances of Delegation for TLC. *)
EXTENDS Delegation

MCSupervisors == {[name |-> "lead", role |-> "SUPERVISOR"],
                  [name |-> "dev", role |-> "SUPERVISOR"],
                  [name |-> "tester", role |-> "OTHER"]}

\* A Worker that shares its name with a supervisor, one that shares it with
\* none, and one with a wrong role.
MCRegistry == {[name |-> "dev", role |-> "DEVELOPER"],
               [name |-> "tester", role |-> "OTHER"],
               [name |-> "helper", role |-> "DEVELOPER"]}
=============================================================================
