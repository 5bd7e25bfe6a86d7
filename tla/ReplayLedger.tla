---------------------------- MODULE ReplayLedger ----------------------------
(***************************************************************************)
(* What the replay registry promises, with nothing said about threads,    *)
(* files or locks: messages are accepted one at a time, no message twice, *)
(* and the sequence numbers handed out only grow.  The promise lasts      *)
(* until the memory is given up (reset(), or the loss of the backing      *)
(* file), after which a new ledger starts.                                *)
(***************************************************************************)
EXTENDS Naturals, Sequences

CONSTANT Msgs          \* message identifiers

VARIABLE ledger        \* the accepted messages, oldest first

Acceptance == [msg : Msgs, seq : Nat \ {0}]

LedgerInit == ledger = << >>

\* A message is accepted, if it never was, with a number above every number given before.
Accept ==
    /\ ledger' # << >>
    /\ LET new == ledger'[Len(ledger')] IN
       /\ new \in Acceptance
       /\ ledger' = Append(ledger, new)
       /\ \A i \in DOMAIN ledger : ledger[i].msg # new.msg /\ ledger[i].seq < new.seq

GiveUp == ledger' = << >>

LedgerNext == Accept \/ GiveUp

LedgerSpec == LedgerInit /\ [][LedgerNext]_ledger
=============================================================================
