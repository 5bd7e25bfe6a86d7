-------------------------- MODULE CapabilityRegistry --------------------------
(***************************************************************************)
(* The capability registry of capability_registry.py: a server that keeps  *)
(* a dict of capabilities by id, in memory, and clients that register at   *)
(* their start and discover by name.  The server handles one request at a  *)
(* time.  The dict is the module's: it outlives a stop() of the server and *)
(* ends with the process.                                                  *)
(* Every failure on the client's side - a refused connection, an           *)
(* answer after the timeout, an error status - is the same False or None.  *)
(***************************************************************************)
EXTENDS Integers, Sequences, SequencesExt

CONSTANTS
    Capabilities,     \* payloads: id, name, endpoint and whether the schema check passes
    Clients,          \* processes that register and discover
    MaxRequests       \* bound: registrations, and starts of the server

ASSUME CapabilityAssumption ==
    /\ \A cap \in Capabilities : {"id", "name", "endpoint", "valid"} \subseteq DOMAIN cap
    /\ MaxRequests \in Nat

VARIABLES
    serving,      \* the server is up
    table,        \* _registry_db: the dict, in its order
    told,         \* what each client's last register or discover returned
    latest,       \* history: the valid payloads that reached this process, in order
    requests      \* registrations and starts of the server so far

capabilityVars == <<serving, table, told, latest, requests>>

Nothing == [name |-> "none", answer |-> "none", found |-> <<>>]

CapabilityInit ==
    /\ serving = TRUE /\ table = <<>> /\ latest = <<>> /\ requests = 0
    /\ told = [c \in Clients |-> Nothing]

-----------------------------------------------------------------------------
(* The server.                                                             *)

Place(id) == {i \in DOMAIN table : table[i].id = id}

\* Mutant: a dict entry is added and an older one of the same id left alone.
EnteredBehind(cap) == Append(table, cap)

\* _registry_db[cap_id] = payload: a known id keeps its place in the dict.
EnteredAt(cap) ==
    IF Place(cap.id) = {} THEN Append(table, cap)
    ELSE [i \in DOMAIN table |-> IF i \in Place(cap.id) THEN cap ELSE table[i]]

\* GET /discover: the first of that name.  The empty sequence is a 404.
FirstNamed(name) ==
    LET named == {i \in DOMAIN table : table[i].name = name}
    IN  IF named = {} THEN <<>> ELSE <<table[Min(named)]>>

StopServer ==
    /\ serving /\ serving' = FALSE
    /\ UNCHANGED <<table, told, latest, requests>>

\* The process of the registry ends, and the next one begins with an empty dict.
EndProcess ==
    /\ serving' = FALSE /\ table' = <<>> /\ latest' = <<>>
    /\ UNCHANGED <<told, requests>>

StartServer ==
    /\ ~ serving /\ requests < MaxRequests /\ serving' = TRUE /\ requests' = requests + 1
    /\ UNCHANGED <<table, told, latest>>

-----------------------------------------------------------------------------
(* The client.                                                             *)

\* Mutant: the outcome of the schema check is answered and not acted on.
RegisterUnchecked(c, cap) ==
    /\ serving /\ requests < MaxRequests /\ requests' = requests + 1
    /\ table' = EnteredAt(cap) /\ latest' = Append(latest, cap)
    /\ \E answered \in BOOLEAN :
          told' = [told EXCEPT ![c] =
                     [name |-> cap.name, found |-> <<>>,
                      answer |-> IF cap.valid /\ answered THEN "registered" ELSE "failed"]]
    /\ UNCHANGED serving

\* POST /register.  The payload is refused with 400 when it fails the schema check; the
\* entry is made though its answer may come too late.
RegisterCapability(c, cap) ==
    /\ serving /\ requests < MaxRequests /\ requests' = requests + 1
    /\ IF cap.valid THEN table' = EnteredAt(cap) /\ latest' = Append(latest, cap)
                    ELSE UNCHANGED <<table, latest>>
    /\ \E answered \in BOOLEAN :
          told' = [told EXCEPT ![c] =
                     [name |-> cap.name, found |-> <<>>,
                      answer |-> IF cap.valid /\ answered THEN "registered" ELSE "failed"]]
    /\ UNCHANGED serving

Discover(c, name) ==
    /\ serving
    /\ \E found \in {FirstNamed(name), <<>>} :
          told' = [told EXCEPT ![c] =
                     [name |-> name, found |-> found,
                      answer |-> IF found = <<>> THEN "failed" ELSE "discovered"]]
    /\ UNCHANGED <<serving, table, latest, requests>>

\* Every exception of a request is caught, and is the answer False or None.
RequestFails(c, name) ==
    /\ ~ serving
    /\ told' = [told EXCEPT ![c] = [name |-> name, found |-> <<>>, answer |-> "failed"]]
    /\ UNCHANGED <<serving, table, latest, requests>>

CapabilityNext ==
    \/ StopServer \/ EndProcess \/ StartServer
    \/ \E c \in Clients, cap \in Capabilities :
          RegisterCapability(c, cap) \/ Discover(c, cap.name) \/ RequestFails(c, cap.name)

CapabilitySpec == CapabilityInit /\ [][CapabilityNext]_capabilityVars
-----------------------------------------------------------------------------
(* What the registry must guarantee.                                       *)

\* What the server holds and serves has passed the schema check.
CapabilityTypeOK ==
    /\ serving \in BOOLEAN /\ table \in Seq({cap \in Capabilities : cap.valid})
    /\ latest \in Seq(Capabilities)
    /\ requests \in 0..MaxRequests /\ DOMAIN told = Clients
    /\ \A c \in Clients : told[c].answer \in {"none", "registered", "discovered", "failed"}

\* As long as no two ids share a name, as in runtime_services.py, a discovery names the
\* endpoint registered last, whether or not the service that registered it was told so: a
\* service that starts again somewhere else is found there and not where it was, and a stop()
\* of the server in between changes nothing of it.
DiscoversTheLatest ==
    \A i \in DOMAIN latest :
        (\A j \in DOMAIN latest : j > i => latest[j].name # latest[i].name)
            => FirstNamed(latest[i].name) = <<latest[i]>>
=============================================================================
