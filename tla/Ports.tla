------------------------------- MODULE Ports -------------------------------
(***************************************************************************)
(* The ports tests are given: pt_get_port (jobs.cpp).  The runner keeps no *)
(* record of them: that two tests running at the same time never have the  *)
(* same port rests on how the number is put together from the slot and the *)
(* index, in 16 bits, and on Jobs, which reuses slots.                     *)
(***************************************************************************)
EXTENDS Jobs

CONSTANTS
  Port,      \* -p
  Index,     \* the indices a test may ask for, of type uint8_t
  Width      \* 2^16

ASSUME PortsAssumption ==
  /\ Width \in Nat \ {0} /\ Port \in 0 .. Width - 1
  /\ Index \subseteq Nat

(* env_->id_ of slot j.                                                    *)
Id(j) == j - 1

(* pt_get_port of a test in slot j.                                        *)
GetPortUnstrided(j, i) == ((Port + Id(j)) + i) % Width
GetPort(j, i) == ((Port + Id(j)) + (i * NJobs)) % Width

(* All ports given are unique amongst all tests (README) that are alive at *)
(* the same time, and those of one test are all different.                 *)
PortsUnique ==
  LET Live == {t \in Test : proc[t] \in Alive}
  IN  \A t, u \in Live : \A i, n \in Index :
        GetPort(home[t], i) = GetPort(home[u], n) => t = u /\ i = n
=============================================================================
