-------------------------- MODULE AdmissionRegister --------------------------
(***************************************************************************)
(* What tenant admission promises, whatever carries a configuration from   *)
(* the file to the handler: the configuration in force is always one the   *)
(* file has held, valid, and never an older one than before.               *)
(***************************************************************************)
EXTENDS Naturals, Sequences

CONSTANTS Tenants,      \* tenant ids
          Bad           \* contents that are no configuration

VARIABLES hist,         \* what the file has held, in order
          inForce       \* index of the configuration in force, 0: none yet

Contents == SUBSET Tenants \cup {Bad}

Init ==
    /\ \E c \in SUBSET Tenants : hist = <<c>>
    /\ inForce = 0

Write ==
    /\ \E c \in Contents : hist' = Append(hist, c)
    /\ UNCHANGED inForce

Apply ==
    /\ \E i \in 1..Len(hist) :
          /\ i > inForce
          /\ hist[i] # Bad
          /\ inForce' = i
    /\ UNCHANGED hist

Next == Write \/ Apply

Spec == Init /\ [][Next]_<<hist, inForce>>
=============================================================================
