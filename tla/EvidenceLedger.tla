---------------------------- MODULE EvidenceLedger ----------------------------
(***************************************************************************)
(* EvidenceLedger of evidence_ledger.py and the functions of               *)
(* provenance_api.py on it.  It has one writer: the execution service      *)
(* makes a record with the head as previous_execution_hash and appends it  *)
(* at once (runtime_services.py:606-610), so that a call of append is one  *)
(* step.  A chain hash is a digest of the head before it and of the        *)
(* record's execution_hash, so that a head is, injectively, the sequence   *)
(* of the execution hashes since GENESIS.  Alter changes a record in the   *)
(* list without the ledger's knowledge.                                    *)
(***************************************************************************)
EXTENDS Integers, FiniteSets, Sequences, SequencesExt

CONSTANTS
    ExecutionIds,  \* execution ids; a record's execution_hash is a digest of its id
    MaxRecords,    \* bound: records
    Alterations    \* bound: changes of stored records

ASSUME LedgerAssumption ==
    MaxRecords \in Nat /\ Alterations \in Nat /\ "" \notin ExecutionIds   \* a digest is not empty

VARIABLES
    records,    \* _records
    hashes,     \* _evidence_hashes
    head,       \* _current_head
    made,       \* history: the records as they were appended
    alterations \* changes of stored records so far

ledgerVars == <<records, hashes, head, made, alterations>>

Genesis  == <<>>
Unlinked == <<"">>       \* previous_execution_hash = ""

Heads == Seq(ExecutionIds) \cup {Unlinked}

HashPair(left, right) == Append(left, right)

LedgerInit ==
    /\ records = <<>> /\ hashes = <<>> /\ head = Genesis /\ made = <<>> /\ alterations = 0

-----------------------------------------------------------------------------
(* Appending.                                                              *)

ExecutionRecord(id, previous) == [id |-> id, hash |-> id, previous |-> previous]

Links(r) == r.previous \in {Unlinked, head}

\* A record that names another head is refused with a ValueError, and leaves no trace.
AppendRecord(r) ==
    /\ Links(r) /\ Len(records) < MaxRecords
    /\ records' = Append(records, r) /\ made' = Append(made, r)
    /\ head' = HashPair(head, r.hash) /\ hashes' = Append(hashes, head')
    /\ UNCHANGED alterations

Alter ==
    /\ alterations < Alterations /\ alterations' = alterations + 1
    /\ \/ \E i \in DOMAIN records, id \in ExecutionIds :
             records' = [records EXCEPT ![i].hash = id]
       \/ \E i \in DOMAIN records, h \in Range(hashes) \cup {Unlinked} :
             records' = [records EXCEPT ![i].previous = h]
       \/ \E i \in DOMAIN records : records' = RemoveAt(records, i)
    /\ UNCHANGED <<hashes, head, made>>

LedgerNext ==
    \/ \E id \in ExecutionIds, previous \in Range(hashes) \cup {Genesis, Unlinked} :
          AppendRecord(ExecutionRecord(id, previous))
    \/ Alter

LedgerSpec == LedgerInit /\ [][LedgerNext]_ledgerVars

-----------------------------------------------------------------------------
(* Verification.                                                           *)

\* The head before place i when the chain is walked again over the stored records.
Walked(i) == [j \in 1..(i - 1) |-> records[j].hash]

\* Mutant: the walk ends where the list does, and the head is not looked at.
ChainPrefixVerifies ==
    \A i \in DOMAIN records :
        records[i].previous \in {Unlinked, Walked(i)} /\ hashes[i] = Walked(i + 1)

VerifyChain ==
    /\ \A i \in DOMAIN records :
          records[i].previous \in {Unlinked, Walked(i)} /\ hashes[i] = Walked(i + 1)
    /\ Walked(Len(records) + 1) = head

\* The first record of that execution id, which need not be the one in hand.
Position(r) ==
    CHOOSE i \in DOMAIN records : /\ records[i].id = r.id
                                  /\ \A j \in 1..(i - 1) : records[j].id # r.id

\* Mutant: the hash of the record itself is taken for the one before it.
HeadAt(i) == IF i = 1 THEN Genesis ELSE hashes[i]

HeadBefore(i) == IF i = 1 THEN Genesis ELSE hashes[i - 1]

VerifyLineage(r) ==
    /\ \E i \in DOMAIN records : records[i].id = r.id
    /\ r.previous = HeadBefore(Position(r))

\* execution_certificate: the chain hash and the sequence it states for a record.
Certificate(r) ==
    [chain |-> HashPair(HeadBefore(Position(r)), r.hash), sequence |-> Position(r)]
-----------------------------------------------------------------------------
(* What the ledger must guarantee.                                         *)

LedgerRecords == [id : ExecutionIds, hash : ExecutionIds, previous : Heads]

LedgerTypeOK ==
    /\ records \in Seq(LedgerRecords) /\ made \in Seq(LedgerRecords)
    /\ hashes \in Seq(Seq(ExecutionIds)) /\ head \in Seq(ExecutionIds)
    /\ alterations \in 0..Alterations

\* Lineage and certificate look a record up by its id and hold it against the hash before
\* its place, whatever has become of the records in front.  Of a record whose id no earlier
\* one has, the certificate states the chain hash of its place exactly if its execution hash
\* is the one that was appended there, and its lineage verifies exactly if it names the head
\* of those appended before - which is not what verify_chain asks: a record that names none
\* passes the walk and not the lineage.
CertifiedAsAppended ==
    \A i \in DOMAIN records :
        (\A j \in 1..(i - 1) : records[j].id # records[i].id) =>
            /\ Certificate(records[i]) = [chain |-> hashes[i], sequence |-> i]
                  <=> records[i].hash = made[i].hash
            /\ VerifyLineage(records[i])
                  <=> records[i].previous = [j \in 1..(i - 1) |-> made[j].hash]

\* verify_chain fails as soon as an execution hash, a link or the number of the records is
\* not what was appended, and only then; a link that was taken out passes.
AlterationsShow ==
    VerifyChain <=>
        /\ Len(records) = Len(made)
        /\ \A i \in DOMAIN records :
              /\ records[i].hash = made[i].hash
              /\ records[i].previous \in {Unlinked, [j \in 1..(i - 1) |-> made[j].hash]}
=============================================================================
