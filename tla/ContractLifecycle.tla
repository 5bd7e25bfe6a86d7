-------------------------- MODULE ContractLifecycle --------------------------
(***************************************************************************)
(* What a program that runs contracts promises, with nothing said about    *)
(* processes, connections or the checks in between.  The replay authority  *)
(* admits a trace id; a contract is executed under an admitted id, and no  *)
(* id twice; agreement is announced on executed contracts alone, in the    *)
(* order of their execution, and not on one the runtime has halted.        *)
(* Nothing of it is taken back, whatever ends or is lost.                  *)
(***************************************************************************)
EXTENDS Naturals, Sequences

CONSTANTS
    Contracts,      \* contracts, as they are sent
    Id,             \* the trace id of each
    Halting         \* those on which the runtime core halts

VARIABLES
    admitted,       \* trace ids the replay authority has accepted
    executed,       \* contracts, in the order of their execution
    announced       \* contracts on which agreement has been reported

lifecycleVars == <<admitted, executed, announced>>

LifecycleInit == admitted = {} /\ executed = << >> /\ announced = {}

Places(c) == {i \in DOMAIN executed : executed[i] = c}

Admit(c) ==
    /\ admitted' = admitted \cup {Id[c]}
    /\ UNCHANGED <<executed, announced>>

\* The id may have been admitted before, or is so in the same step.
Execute(c) ==
    /\ admitted' \in {admitted, admitted \cup {Id[c]}} /\ Id[c] \in admitted'
    /\ \A i \in DOMAIN executed : Id[executed[i]] # Id[c]
    /\ executed' = Append(executed, c)
    /\ UNCHANGED announced

Announce(c) ==
    /\ Places(c) # {} /\ c \notin Halting
    /\ \A d \in announced : \A i \in Places(d), j \in Places(c) : i < j
    /\ announced' = announced \cup {c}
    /\ UNCHANGED <<admitted, executed>>

LifecycleNext == \E c \in Contracts : Admit(c) \/ Execute(c) \/ Announce(c)

LifecycleSpec == LifecycleInit /\ [][LifecycleNext]_lifecycleVars
=============================================================================
