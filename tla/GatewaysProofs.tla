--------------------------- MODULE GatewaysProofs ---------------------------
(***************************************************************************)
(* The gateways, the authority and the registry together, for any threads, *)
(* messages, requests, capacity, bucket size and number of resets.         *)
(***************************************************************************)
EXTENDS Gateways, ReplayRegistryProofs

-----------------------------------------------------------------------------
(* The invariant.                                                          *)

\* The registry call of a thread is the one its gateway call is waiting for.
Carries(t) ==
    /\ gw[t] \in {"idle", "receiving", "evicting", "submitting", "responded"} => pc[t] = "idle"
    /\ gw[t] \in {"wiping", "resetting"} => pc[t] # "idle" /\ op[t] = "reset"
    /\ gw[t] = "awaiting" => pc[t] # "idle" /\ op[t] = "submit" /\ arg[t] = req[t].msg
    /\ gw[t] \in {"receiving", "evicting", "wiping", "submitting", "awaiting"} =>
           req[t] \in Requests /\ req[t].msg \in Msgs
    /\ answer[t] \in Acks => gw[t] = "responded" /\ req[t].msg \in Msgs

\* A submission of m that has a number in memory and may still be answered VALID.
Granting(t, m) ==
    /\ op[t] = "submit" /\ arg[t] = m
    /\ pc[t] \in {"writing", "replacing"} \/ Valid(t)

Granters(m) == {t \in Threads : Granting(t, m)}

\* The ACKs given and those still to come: one for each clearing, and one for the entry.
Counted(m) ==
    acks[m] + Cardinality(Granters(m)) <= wipes + (IF entries[m] = 0 THEN 0 ELSE 1)

\* Until the registry is cleared no entry leaves the memory, and what is or will be
\* acknowledged is in the file.
Durable ==
    wipes = 0 =>
      /\ \A m \in Msgs : Load(file).entries[m] # 0 => entries[m] # 0
      /\ \A t \in Threads : Valid(t) => Load(file).entries[arg[t]] # 0
      /\ \A t \in Threads : answer[t] \in Acks => Load(file).entries[req[t].msg] # 0

GatewaysInv ==
    /\ RegistryInv
    /\ GatewaysTypeOK
    /\ \A t \in Threads : Carries(t)
    /\ \A m \in Msgs : Counted(m)
    /\ Durable

-----------------------------------------------------------------------------
(* The gateways do to the registry what callers of the registry may do.    *)

LEMMA RegistryStepBelow ==
  ASSUME GatewaysInv, NEW t \in Threads, ContinueCall(t)
  PROVE  RegistryNext \/ UNCHANGED registryVars
<1>1. CASE CheckCapacity(t)
  BY <1>1 DEF CheckCapacity, authorityVars
<1>2. CASE Evict(t)
  BY <1>2 DEF Evict, RegistryNext, BeginCall
<1>3. CASE Evicted(t)
  BY <1>3 DEF Evicted, RegistryNext
<1>4. CASE SubmitRequest(t)
  <2>1. req[t].msg \in Msgs
    BY <1>4 DEF SubmitRequest, GatewaysInv, Carries
  <2>2. 0 \in Ages
    BY GatewayAssumption
  <2> QED  BY <1>4, <2>1, <2>2 DEF SubmitRequest, RegistryNext, BeginCall
<1>5. CASE Below(t)
  BY <1>5 DEF Below, InRegistry, StoreVerdict, ClearLineage, RegistryNext
<1>6. CASE Deliver(t)
  BY <1>6 DEF Deliver, StoreLineage, PropagateException, RegistryNext
<1>7. CASE ReceiverReset(t)
  BY <1>7 DEF ReceiverReset, ClearVerdicts, PropagateException, RegistryNext
<1>8. CASE ReturnResponse(t)
  BY <1>8 DEF ReturnResponse, authorityVars
<1> QED
  BY <1>1, <1>2, <1>3, <1>4, <1>5, <1>6, <1>7, <1>8 DEF ContinueCall

LEMMA RegistryStep ==
  ASSUME GatewaysInv, [GatewaysNext]_gatewayVars
  PROVE  [RegistryNext]_registryVars
<1>1. ASSUME NEW t \in Threads, NEW e \in Entries, RefuseByRate(t, e)
      PROVE  UNCHANGED registryVars
  BY <1>1 DEF RefuseByRate, authorityVars
<1>2. ASSUME NEW t \in Threads, NEW r \in Requests, Admit(t, r)
      PROVE  UNCHANGED registryVars
  BY <1>2 DEF Admit, authorityVars
<1>3. ASSUME NEW t \in Threads, ResetReceiver(t)
      PROVE  RegistryNext
  BY <1>3 DEF ResetReceiver, RegistryNext, BeginCall
<1>4. ASSUME NEW t \in Threads, ContinueCall(t)
      PROVE  RegistryNext \/ UNCHANGED registryVars
  BY <1>4, RegistryStepBelow
<1>5. ASSUME NEW e \in Entries, Refill(e)
      PROVE  UNCHANGED registryVars
  BY <1>5 DEF Refill, authorityVars
<1>6. CASE UNCHANGED gatewayVars
  BY <1>6 DEF gatewayVars, authorityVars
<1> QED
  BY <1>1, <1>2, <1>3, <1>4, <1>5, <1>6 DEF GatewaysNext

-----------------------------------------------------------------------------
(* Types.                                                                  *)

LEMMA ResolveType ==
  ASSUME NEW c
  PROVE  ResolveTransportStatus(ResolveTranslationStatus(c)) \in Acks \cup Halts
  BY DEF ResolveTransportStatus, ResolveTranslationStatus, Acks, Halts

LEMMA ErrorType == \A e : ErrorStatus(e) \in Halts /\ ErrorStatus(e) \notin Acks
  BY DEF ErrorStatus, Halts, Acks

LEMMA ResetDictsType ==
  ASSUME AuthorityTypeOK, RegistryTypeOK', NEW t \in Threads,
         ClearLineage(t) \/ ClearVerdicts(t)
  PROVE  AuthorityTypeOK'
<1>1. NoVerdict \in Verdict
  BY DEF NoVerdict, Verdict
<1>2. CASE ClearLineage(t)
  BY <1>2 DEF ClearLineage, AuthorityTypeOK
<1>3. CASE ClearVerdicts(t)
  BY <1>1, <1>3 DEF ClearVerdicts, AuthorityTypeOK, Verdict
<1> QED  BY <1>2, <1>3

-----------------------------------------------------------------------------
(* A step of one thread.                                                   *)

USE DEF Goto, memoryVars, callVars

\* What it does to the memory: it numbers its message, which had no number, or clears
\* everything, or neither; and it comes nearer to a VALID only by numbering.
LEMMA CallEffect ==
  ASSUME RegistryTypeOK, CallsCarryMessages, NEW t \in Threads, RunCall(t)
  PROVE  \/ /\ AssignSequence(t) /\ arg[t] \in Msgs /\ entries[arg[t]] = 0
            /\ entries' = [entries EXCEPT ![arg[t]] = counter + 1]
            /\ ~ (pc[t] = "locked" /\ op[t] = "reset")
         \/ /\ ClearMemory(t) /\ op[t] = "reset" /\ pc[t] = "locked"
         \/ /\ entries' = entries /\ ~ (pc[t] = "locked" /\ op[t] = "reset")
            /\ \A m \in Msgs : Granting(t, m)' => Granting(t, m)
<1> USE DEF RegistryTypeOK, CriticalSteps, Granting, Valid
<1>1. CASE Acquire(t) \/ RejectDuplicate(t) \/ NotADuplicate(t)
  BY <1>1 DEF Acquire, RejectDuplicate, NotADuplicate, Leave, Decide
<1>2. CASE AssignSequence(t)
  <2>1. pc[t] = "assigning" /\ entries' = [entries EXCEPT ![arg[t]] = counter + 1]
    BY <1>2, AssignAssigns
  <2>2. arg[t] \in Msgs /\ entries[arg[t]] = 0
    BY <2>1 DEF CallsCarryMessages, IsKnown
  <2> QED  BY <1>2, <2>1, <2>2
<1>3. CASE ClearMemory(t)
  BY <1>3 DEF ClearMemory
<1>4. CASE WriteTmp(t) \/ AcceptMessage(t) \/ FinishReset(t) \/ PersistFails(t)
  BY <1>4 DEF WriteTmp, AcceptMessage, FinishReset, ReplaceFile, PersistFails, Leave, Decide
<1> QED  BY <1>1, <1>2, <1>3, <1>4 DEF RunCall

-----------------------------------------------------------------------------
(* Counting.                                                               *)

LEMMA GrantersFinite ==
  ASSUME NEW m
  PROVE  /\ IsFiniteSet(Granters(m)) /\ Cardinality(Granters(m)) \in Nat
         /\ IsFiniteSet(Granters(m)') /\ Cardinality(Granters(m)') \in Nat
<1>1. Granters(m) \in SUBSET Threads /\ Granters(m)' \in SUBSET Threads
  BY DEF Granters
<1>2. IsFiniteSet(Threads)
  BY GatewayAssumption
<1> QED  BY <1>1, <1>2, FS_Subset, FS_CardinalityType

LEMMA NoNewGranter ==
  ASSUME NEW m, \A s \in Threads : Granting(s, m)' => Granting(s, m)
  PROVE  Cardinality(Granters(m)') <= Cardinality(Granters(m))
<1>1. Granters(m)' \in SUBSET Granters(m)
  BY DEF Granters
<1> QED  BY <1>1, GrantersFinite, FS_Subset

LEMMA OneNewGranter ==
  ASSUME NEW m, NEW t \in Threads, \A s \in Threads : s # t /\ Granting(s, m)' => Granting(s, m)
  PROVE  Cardinality(Granters(m)') <= Cardinality(Granters(m)) + 1
<1> DEFINE G == Granters(m)
           H == Granters(m)'
<1>1. H \in SUBSET (G \cup {t})
  BY DEF Granters
<1>2. IsFiniteSet(G) /\ Cardinality(G) \in Nat /\ Cardinality(H) \in Nat
  BY GrantersFinite
<1> HIDE DEF G, H
<1>3. /\ IsFiniteSet(G \cup {t}) /\ Cardinality(G \cup {t}) <= Cardinality(G) + 1
      /\ Cardinality(G \cup {t}) \in Nat
  BY <1>2, FS_AddElement
<1>4. Cardinality(H) <= Cardinality(G \cup {t})
  BY <1>1, <1>3, FS_Subset
<1>5. Cardinality(H) <= Cardinality(G) + 1
  BY <1>2, <1>3, <1>4
<1> QED  BY <1>5 DEF G, H

\* A submission that returns VALID is no longer counted.
LEMMA GranterLeaves ==
  ASSUME NEW m, NEW t \in Threads, Granting(t, m), ~ Granting(t, m)',
         \A s \in Threads : Granting(s, m)' => Granting(s, m)
  PROVE  Cardinality(Granters(m)') + 1 <= Cardinality(Granters(m))
<1> DEFINE G == Granters(m)
           H == Granters(m)'
<1>1. H \in SUBSET (G \ {t}) /\ t \in G
  BY DEF Granters
<1>2. IsFiniteSet(G) /\ Cardinality(G) \in Nat /\ Cardinality(H) \in Nat
  BY GrantersFinite
<1> HIDE DEF G, H
<1>3. IsFiniteSet(G \ {t}) /\ Cardinality(G \ {t}) = Cardinality(G) - 1
  BY <1>1, <1>2, FS_RemoveElement
<1>4. Cardinality(H) <= Cardinality(G \ {t})
  BY <1>1, <1>3, FS_Subset
<1>5. Cardinality(H) + 1 <= Cardinality(G)
  BY <1>2, <1>3, <1>4
<1> QED  BY <1>5 DEF G, H

-----------------------------------------------------------------------------
(* What a step leaves of the count and of the file.                        *)

SameCall(s)   == pc'[s] = pc[s] /\ op'[s] = op[s] /\ arg'[s] = arg[s] /\ decision'[s] = decision[s]
SameAnswer(s) == gw'[s] = gw[s] /\ req'[s] = req[s] /\ answer'[s] = answer[s]

\* A step that neither touches the memory or the file, nor acknowledges anything.
LEMMA QuietCount ==
  ASSUME GatewaysInv, acks' = acks, entries' = entries, file' = file, wipes' = wipes,
         \A s \in Threads : /\ Valid(s)' => Valid(s) /\ arg'[s] = arg[s]
                            /\ \A m \in Msgs : Granting(s, m)' => Granting(s, m)
                            /\ answer'[s] \in Acks => answer[s] \in Acks /\ req'[s] = req[s]
  PROVE  (\A m \in Msgs : Counted(m)') /\ Durable'
<1>1. ASSUME NEW m \in Msgs PROVE Counted(m)'
  <2>1. Cardinality(Granters(m)') <= Cardinality(Granters(m))
    BY NoNewGranter
  <2>2. Cardinality(Granters(m)) \in Nat /\ Cardinality(Granters(m)') \in Nat
    BY GrantersFinite
  <2>3. acks[m] \in Nat /\ wipes \in Nat
    BY DEF GatewaysInv, GatewaysTypeOK
  <2>4. acks[m] + Cardinality(Granters(m)) <= wipes + (IF entries[m] = 0 THEN 0 ELSE 1)
    BY DEF GatewaysInv, Counted
  <2> QED  BY <2>1, <2>2, <2>3, <2>4 DEF Counted
<1>2. Durable'
  <2>1. Load(file)' = Load(file)
    BY DEF Load
  <2> QED  BY <2>1 DEF GatewaysInv, Durable
<1> QED  BY <1>1, <1>2

\* One thread begins or ends a registry call, or none, and answers no ACK.
LEMMA CallerCount ==
  ASSUME GatewaysInv, NEW t \in Threads, UNCHANGED <<acks, entries, file, wipes>>,
         \A s \in Threads \ {t} : SameCall(s) /\ SameAnswer(s),
         pc'[t] \in {"idle", "waiting"}, answer'[t] \notin Acks
  PROVE  (\A m \in Msgs : Counted(m)') /\ Durable'
<1>1. ASSUME NEW s \in Threads
      PROVE  /\ Valid(s)' => Valid(s) /\ arg'[s] = arg[s]
             /\ \A m \in Msgs : Granting(s, m)' => Granting(s, m)
             /\ answer'[s] \in Acks => answer[s] \in Acks /\ req'[s] = req[s]
  <2>1. CASE s = t
    BY <2>1 DEF Valid, Granting
  <2>2. CASE s # t
    BY <2>2 DEF Valid, Granting, SameCall, SameAnswer
  <2> QED  BY <2>1, <2>2
<1> QED  BY <1>1, QuietCount

-----------------------------------------------------------------------------
(* Answers.                                                                *)

LEMMA RespondKeeps ==
  ASSUME GatewaysTypeOK, NEW t \in Threads, NEW status \in Acks \cup Halts,
         status \in Acks => req[t].msg \in Msgs, Respond(t, status)
  PROVE  /\ gw' = [gw EXCEPT ![t] = "responded"]
         /\ answer' \in [Threads -> {"none"} \cup Acks \cup Halts]
         /\ answer' = [answer EXCEPT ![t] = status]
         /\ acks' \in [Msgs -> Nat]
         /\ status \notin Acks => acks' = acks
<1>1. /\ answer \in [Threads -> {"none"} \cup Acks \cup Halts]
      /\ acks \in [Msgs -> Nat]
  BY DEF GatewaysTypeOK
<1>2. /\ gw' = [gw EXCEPT ![t] = "responded"] /\ answer' = [answer EXCEPT ![t] = status]
      /\ acks' = IF status \in Acks THEN [acks EXCEPT ![req[t].msg] = @ + 1] ELSE acks
  BY DEF Respond, Step
<1>3. acks' \in [Msgs -> Nat]
  BY <1>1, <1>2
<1>4. answer' \in [Threads -> {"none"} \cup Acks \cup Halts]
  BY <1>1, <1>2
<1> QED  BY <1>2, <1>3, <1>4

LEMMA HaltsAreNotAcks == Halts \cap Acks = {} /\ "none" \notin Acks
  BY DEF Halts, Acks

\* The places of the others do not change when one thread moves.
LEMMA OthersCarry ==
  ASSUME GatewaysInv, NEW s \in Threads, SameCall(s), SameAnswer(s)
  PROVE  Carries(s)'
  BY DEF GatewaysInv, Carries, SameCall, SameAnswer

-----------------------------------------------------------------------------
(* The steps of a gateway call.                                            *)

Places == {"idle", "receiving", "evicting", "wiping", "submitting", "awaiting",
           "resetting", "responded"}

\* What every lemma below starts from.
LEMMA Facts ==
  ASSUME GatewaysInv
  PROVE  /\ RegistryTypeOK /\ AuthorityTypeOK
         /\ gw \in [Threads -> Places]
         /\ req \in [Threads -> Requests \cup {NoRequest}]
         /\ answer \in [Threads -> {"none"} \cup Acks \cup Halts]
         /\ tokens \in [Entries -> 0..Burst] /\ refills \in 0..MaxRefills
         /\ resets \in 0..MaxResets /\ acks \in [Msgs -> Nat] /\ wipes \in Nat
         /\ \A t \in Threads : Carries(t)
  BY DEF GatewaysInv, GatewaysTypeOK, AuthorityTypeOK, Places

LEMMA RefuseByRateKeeps ==
  ASSUME GatewaysInv, RegistryInv', NEW t \in Threads, NEW e \in Entries, RefuseByRate(t, e)
  PROVE  GatewaysInv'
<1>1. /\ gw[t] = "idle" /\ pc[t] = "idle" /\ Respond(t, "HALT:RATE_LIMIT_EXCEEDED")
      /\ UNCHANGED <<registryVars, authorityOwnVars, req, tokens, refills, resets, wipes>>
  BY Facts DEF RefuseByRate, Carries, authorityVars
<1>2. "HALT:RATE_LIMIT_EXCEEDED" \in Halts /\ "HALT:RATE_LIMIT_EXCEEDED" \notin Acks
  BY DEF Halts, Acks
<1>3. /\ gw' = [gw EXCEPT ![t] = "responded"]
      /\ answer' \in [Threads -> {"none"} \cup Acks \cup Halts]
      /\ answer' = [answer EXCEPT ![t] = "HALT:RATE_LIMIT_EXCEEDED"] /\ acks' = acks
  BY <1>1, <1>2, RespondKeeps DEF GatewaysInv
<1>4. /\ UNCHANGED <<pc, op, arg, decision, entries, file, acks, wipes>>
  BY <1>1, <1>3 DEF registryVars
<1>5. GatewaysTypeOK'
  <2>1. AuthorityTypeOK'
    BY <1>1, Facts, QuietAuthorityType DEF RegistryInv
  <2> QED  BY <2>1, <1>1, <1>3, Facts DEF GatewaysTypeOK, Places
<1>6. \A s \in Threads \ {t} : SameCall(s) /\ SameAnswer(s)
  BY <1>1, <1>3, <1>4, Facts DEF SameCall, SameAnswer
<1>7. (\A m \in Msgs : Counted(m)') /\ Durable'
  BY <1>1, <1>2, <1>3, <1>4, <1>6, Facts, CallerCount
<1>8. Carries(t)'
  BY <1>1, <1>2, <1>3, <1>4, Facts DEF Carries
<1>9. \A s \in Threads : Carries(s)'
  BY <1>6, <1>8, OthersCarry
<1> QED  BY <1>5, <1>7, <1>9 DEF GatewaysInv

LEMMA AdmitKeeps ==
  ASSUME GatewaysInv, RegistryInv', NEW t \in Threads, NEW r \in Requests, Admit(t, r)
  PROVE  GatewaysInv'
<1>1. /\ gw[t] = "idle" /\ pc[t] = "idle" /\ answer[t] \notin Acks
      /\ UNCHANGED <<registryVars, authorityOwnVars, refills, resets, wipes>>
      /\ tokens[r.entry] > 0 /\ tokens' = [tokens EXCEPT ![r.entry] = @ - 1]
      /\ req' = [req EXCEPT ![t] = r] /\ r.entry \in Entries
      /\ r.content # "invalid" => r.msg \in Msgs
  BY Facts, GatewayAssumption DEF Admit, Carries, authorityVars
<1>2. /\ answer' \in [Threads -> {"none"} \cup Acks \cup Halts]
      /\ \E a : answer' = [answer EXCEPT ![t] = a] /\ a \notin Acks
      /\ acks' = acks
      /\ \/ gw' = [gw EXCEPT ![t] = "responded"]
         \/ /\ gw' = [gw EXCEPT ![t] = "receiving"] \/ gw' = [gw EXCEPT ![t] = "submitting"]
            /\ r.content # "invalid"
  <2>1. ASSUME NEW h \in {"HALT:INVALID_INPUT", "HALT:TRANSLATION_FAILURE"}, Respond(t, h)
        PROVE  /\ answer' \in [Threads -> {"none"} \cup Acks \cup Halts]
               /\ answer' = [answer EXCEPT ![t] = h] /\ h \notin Acks
               /\ acks' = acks /\ gw' = [gw EXCEPT ![t] = "responded"]
    <3>1. h \in Halts /\ h \notin Acks
      BY DEF Halts, Acks
    <3> QED  BY <2>1, <3>1, RespondKeeps DEF GatewaysInv
  <2>2. CASE r.content = "invalid"
    BY <2>1, <2>2 DEF Admit
  <2>3. CASE r.content # "invalid" /\ TranslationFails(r)
    BY <2>1, <2>3 DEF Admit
  <2>4. CASE r.content # "invalid" /\ ~ TranslationFails(r)
    <3>1. /\ answer' = answer /\ acks' = acks
          /\ gw' = [gw EXCEPT ![t] = "receiving"] \/ gw' = [gw EXCEPT ![t] = "submitting"]
      BY <2>4 DEF Admit, Step
    <3>2. answer' = [answer EXCEPT ![t] = answer[t]]
      BY <3>1, Facts
    <3> QED  BY <2>4, <3>1, <3>2, <1>1, Facts
  <2> QED  BY <2>2, <2>3, <2>4
<1>3. answer'[t] \notin Acks /\ \A s \in Threads \ {t} : answer'[s] = answer[s]
  BY <1>2, Facts
<1>4. UNCHANGED <<pc, op, arg, decision, entries, file, acks, wipes>>
  BY <1>1, <1>2 DEF registryVars
<1>5. GatewaysTypeOK'
  <2>1. AuthorityTypeOK'
    BY <1>1, Facts, QuietAuthorityType DEF RegistryInv
  <2>2. tokens' \in [Entries -> 0..Burst]
    BY <1>1, Facts, GatewayAssumption
  <2>3. gw' \in [Threads -> Places]
    BY <1>2, Facts DEF Places
  <2> QED  BY <2>1, <2>2, <2>3, <1>1, <1>2, Facts DEF GatewaysTypeOK, Places
<1>6. \A s \in Threads \ {t} : SameCall(s) /\ SameAnswer(s)
  BY <1>1, <1>2, <1>3, <1>4, Facts DEF SameCall, SameAnswer
<1>7. (\A m \in Msgs : Counted(m)') /\ Durable'
  BY <1>1, <1>3, <1>4, <1>6, CallerCount
<1>8. Carries(t)'
  <2>1. req'[t] = r /\ pc'[t] = "idle" /\ gw'[t] \in {"responded", "receiving", "submitting"}
    BY <1>1, <1>2, <1>4, Facts
  <2>2. gw'[t] # "responded" => r.msg \in Msgs
    BY <1>1, <1>2, Facts
  <2> QED  BY <2>1, <2>2, <1>3 DEF Carries
<1>9. \A s \in Threads : Carries(s)'
  BY <1>6, <1>8, OthersCarry
<1> QED  BY <1>5, <1>7, <1>9 DEF GatewaysInv

\* A step of one caller that acknowledges nothing.
LEMMA MoveKeeps ==
  ASSUME GatewaysInv, AuthorityTypeOK', RegistryInv', NEW t \in Threads, NEW place \in Places,
         UNCHANGED <<entries, file, acks, wipes, tokens, refills>>, resets' \in 0..MaxResets,
         \A s \in Threads \ {t} : SameCall(s) /\ req'[s] = req[s] /\ answer'[s] = answer[s],
         pc'[t] \in {"idle", "waiting"}, Step(t, place),
         req' \in [Threads -> Requests \cup {NoRequest}],
         answer' \in [Threads -> {"none"} \cup Acks \cup Halts], answer'[t] \notin Acks,
         Carries(t)'
  PROVE  GatewaysInv'
<1>1. gw' = [gw EXCEPT ![t] = place]
  BY DEF Step
<1>2. GatewaysTypeOK'
  BY <1>1, Facts DEF GatewaysTypeOK, Places
<1>3. \A s \in Threads \ {t} : SameCall(s) /\ SameAnswer(s)
  BY <1>1, Facts DEF SameAnswer
<1>4. (\A m \in Msgs : Counted(m)') /\ Durable'
  BY <1>3, CallerCount
<1>5. \A s \in Threads : Carries(s)'
  BY <1>3, OthersCarry
<1> QED  BY <1>2, <1>4, <1>5 DEF GatewaysInv

LEMMA CheckCapacityKeeps ==
  ASSUME GatewaysInv, RegistryInv', NEW t \in Threads, CheckCapacity(t)
  PROVE  GatewaysInv'
<1>1. /\ gw[t] = "receiving" /\ pc[t] = "idle" /\ answer[t] \notin Acks
      /\ req[t] \in Requests /\ req[t].msg \in Msgs
      /\ UNCHANGED <<registryVars, authorityOwnVars, req, answer, tokens, refills, resets,
                     acks, wipes>>
  BY Facts DEF CheckCapacity, Carries, authorityVars
<1>2. PICK place \in {"evicting", "submitting"} : Step(t, place)
  BY DEF CheckCapacity
<1>3. gw'[t] = place /\ place \in Places
  BY <1>2, Facts DEF Step, Places
<1>4. \A s \in Threads : SameCall(s) /\ req'[s] = req[s] /\ answer'[s] = answer[s]
  BY <1>1 DEF SameCall, registryVars
<1>5. Carries(t)'
  BY <1>1, <1>3, <1>4 DEF Carries, SameCall
<1>6. AuthorityTypeOK'
  BY <1>1, Facts, QuietAuthorityType DEF RegistryInv
<1> QED  BY <1>1, <1>2, <1>3, <1>4, <1>5, <1>6, MoveKeeps, Facts DEF registryVars

LEMMA ReturnResponseKeeps ==
  ASSUME GatewaysInv, RegistryInv', NEW t \in Threads, ReturnResponse(t)
  PROVE  GatewaysInv'
<1>1. /\ gw[t] = "responded" /\ pc[t] = "idle"
      /\ UNCHANGED <<registryVars, authorityOwnVars, tokens, refills, resets, acks, wipes>>
      /\ req' = [req EXCEPT ![t] = NoRequest] /\ answer' = [answer EXCEPT ![t] = "none"]
      /\ Step(t, "idle")
  BY Facts DEF ReturnResponse, Carries, authorityVars
<1>2. gw'[t] = "idle" /\ answer'[t] \notin Acks /\ pc'[t] = "idle"
  BY <1>1, Facts, HaltsAreNotAcks DEF Step, registryVars
<1>3. \A s \in Threads \ {t} : SameCall(s) /\ req'[s] = req[s] /\ answer'[s] = answer[s]
  BY <1>1, Facts DEF SameCall, registryVars
<1>4. Carries(t)'
  BY <1>2 DEF Carries
<1>5. /\ req' \in [Threads -> Requests \cup {NoRequest}]
      /\ answer' \in [Threads -> {"none"} \cup Acks \cup Halts]
      /\ "idle" \in Places
  BY <1>1, Facts DEF Places
<1>6. AuthorityTypeOK'
  BY <1>1, Facts, QuietAuthorityType DEF RegistryInv
<1> QED  BY <1>1, <1>2, <1>3, <1>4, <1>5, <1>6, MoveKeeps, Facts DEF registryVars

\* The three places where a gateway begins a call of the registry.
LEMMA BeginKeeps ==
  ASSUME GatewaysInv, RegistryInv', NEW t \in Threads,
         Evict(t) \/ SubmitRequest(t) \/ ResetReceiver(t)
  PROVE  GatewaysInv'
<1> DEFINE place == IF gw[t] = "evicting" THEN "wiping"
                    ELSE IF gw[t] = "submitting" THEN "awaiting" ELSE "resetting"
<1>1. /\ gw[t] \in {"idle", "evicting", "submitting"} /\ pc[t] = "idle" /\ answer[t] \notin Acks
      /\ gw[t] # "idle" => req[t] \in Requests /\ req[t].msg \in Msgs
  BY Facts DEF Evict, SubmitRequest, ResetReceiver, Carries
<1>2. /\ UNCHANGED <<authorityOwnVars, req, answer, tokens, refills, acks, wipes>>
      /\ Step(t, place) /\ resets' \in 0..MaxResets
  <2>1. CASE ResetReceiver(t)
    BY <2>1, Facts, GatewayAssumption DEF ResetReceiver
  <2>2. CASE Evict(t) \/ SubmitRequest(t)
    BY <2>2, Facts DEF Evict, SubmitRequest
  <2> QED  BY <2>1, <2>2
<1>3. Reset(t) \/ (gw[t] = "submitting" /\ Submit(t, req[t].msg, 0))
  BY DEF Evict, SubmitRequest, ResetReceiver
<1>4. /\ pc'[t] = "waiting" /\ entries' = entries /\ file' = file
      /\ \/ gw[t] = "submitting" /\ op'[t] = "submit" /\ arg'[t] = req[t].msg
         \/ gw[t] # "submitting" /\ op'[t] = "reset"
  <2>1. CASE Reset(t)
    <3>1. gw[t] # "submitting"
      BY <2>1, <1>1 DEF Evict, SubmitRequest, ResetReceiver, Reset, Submit, RegistryTypeOK,
                        GatewaysInv, RegistryInv
    <3> QED  BY <2>1, <3>1, Facts DEF Reset, RegistryTypeOK
  <2>2. CASE gw[t] = "submitting" /\ Submit(t, req[t].msg, 0)
    BY <2>2, Facts DEF Submit, RegistryTypeOK
  <2> QED  BY <1>3, <2>1, <2>2
<1>5. \A s \in Threads \ {t} : SameCall(s) /\ req'[s] = req[s] /\ answer'[s] = answer[s]
  BY <1>1, <1>2, <1>3, Facts, OthersStay DEF SameCall
<1>6. place \in Places /\ gw'[t] = place
  BY <1>2, Facts DEF Places, Step
<1>7. Carries(t)'
  BY <1>1, <1>2, <1>4, <1>6 DEF Carries
<1> HIDE DEF place
<1>8. AuthorityTypeOK'
  BY <1>2, Facts, QuietAuthorityType DEF RegistryInv
<1> QED  BY <1>1, <1>2, <1>4, <1>5, <1>6, <1>7, <1>8, MoveKeeps, Facts

LEMMA EvictedKeeps ==
  ASSUME GatewaysInv, RegistryInv', NEW t \in Threads, Evicted(t)
  PROVE  GatewaysInv'
<1>1. /\ gw[t] = "wiping" /\ Return(t) /\ answer[t] \notin Acks
      /\ req[t] \in Requests /\ req[t].msg \in Msgs
      /\ UNCHANGED <<authorityOwnVars, req, tokens, refills, resets, wipes>>
  BY Facts DEF Evicted, Carries
<1>2. /\ pc'[t] = "idle" /\ UNCHANGED <<entries, file>>
  BY <1>1, Facts DEF Return, RegistryTypeOK
<1>3. \A s \in Threads \ {t} : SameCall(s) /\ req'[s] = req[s]
  BY <1>1, Facts, OthersStay DEF SameCall
<1>4. AuthorityTypeOK'
  BY <1>1, Facts, QuietAuthorityType DEF RegistryInv
<1>5. CASE decision[t].status = "RAISED"
  <2> DEFINE status == ErrorStatus(req[t].entry)
  <2>1. Respond(t, status) /\ status \in Halts /\ status \notin Acks
    BY <1>5, ErrorType DEF Evicted
  <2> HIDE DEF status
  <2>2. /\ gw' = [gw EXCEPT ![t] = "responded"]
        /\ answer' \in [Threads -> {"none"} \cup Acks \cup Halts]
        /\ answer' = [answer EXCEPT ![t] = status] /\ acks' = acks
    BY <2>1, RespondKeeps DEF GatewaysInv
  <2>3. Step(t, "responded") /\ "responded" \in Places /\ gw'[t] = "responded"
    BY <2>2, Facts DEF Step, Places
  <2>4. answer'[t] \notin Acks /\ \A s \in Threads \ {t} : answer'[s] = answer[s]
    BY <2>1, <2>2, Facts
  <2>5. Carries(t)'
    BY <1>2, <2>3, <2>4 DEF Carries
  <2> QED  BY <1>1, <1>2, <1>3, <1>4, <2>2, <2>3, <2>4, <2>5, MoveKeeps, Facts
<1>6. CASE decision[t].status # "RAISED"
  <2>1. Step(t, "submitting") /\ UNCHANGED <<answer, acks>>
    BY <1>6 DEF Evicted
  <2>2. "submitting" \in Places /\ gw'[t] = "submitting"
    BY <2>1, Facts DEF Step, Places
  <2>3. Carries(t)'
    BY <1>1, <1>2, <2>1, <2>2 DEF Carries
  <2> QED  BY <1>1, <1>2, <1>3, <1>4, <2>1, <2>2, <2>3, MoveKeeps, Facts
<1> QED  BY <1>5, <1>6

LEMMA ReceiverResetKeeps ==
  ASSUME GatewaysInv, RegistryInv', NEW t \in Threads, ReceiverReset(t)
  PROVE  GatewaysInv'
<1>1. /\ gw[t] = "resetting" /\ Return(t) /\ answer[t] \notin Acks /\ Step(t, "idle")
      /\ UNCHANGED <<req, answer, tokens, refills, resets, acks, wipes>>
  BY Facts DEF ReceiverReset, Carries, ClearVerdicts, PropagateException
<1>2. pc'[t] = "idle" /\ UNCHANGED <<entries, file>>
  BY <1>1, Facts DEF Return, RegistryTypeOK
<1>3. \A s \in Threads \ {t} : SameCall(s) /\ req'[s] = req[s] /\ answer'[s] = answer[s]
  BY <1>1, Facts, OthersStay DEF SameCall
<1>4. AuthorityTypeOK'
  <2>1. CASE ClearVerdicts(t)
    BY <2>1, Facts, ResetDictsType DEF RegistryInv
  <2>2. CASE PropagateException(t)
    BY <2>2, Facts, QuietAuthorityType DEF PropagateException, RegistryInv
  <2> QED  BY <2>1, <2>2 DEF ReceiverReset
<1>5. "idle" \in Places /\ gw'[t] = "idle"
  BY <1>1, Facts DEF Step, Places
<1>6. Carries(t)'
  BY <1>1, <1>2, <1>5 DEF Carries
<1> QED  BY <1>1, <1>2, <1>3, <1>4, <1>5, <1>6, MoveKeeps, Facts

\* Nothing that the invariant is about changes but the tokens.
LEMMA RefillKeeps ==
  ASSUME GatewaysInv, RegistryInv', NEW e \in Entries, Refill(e)
  PROVE  GatewaysInv'
<1>1. /\ tokens[e] < Burst /\ tokens' = [tokens EXCEPT ![e] = @ + 1]
      /\ refills < MaxRefills /\ refills' = refills + 1
      /\ UNCHANGED <<registryVars, authorityOwnVars, gw, req, answer, resets, acks, wipes>>
  BY DEF Refill, authorityVars
<1>2. GatewaysTypeOK'
  <2>1. AuthorityTypeOK'
    BY <1>1, Facts, QuietAuthorityType DEF RegistryInv
  <2>2. tokens' \in [Entries -> 0..Burst] /\ refills' \in 0..MaxRefills
    BY <1>1, Facts, GatewayAssumption
  <2> QED  BY <2>1, <2>2, <1>1, Facts DEF GatewaysTypeOK, Places
<1>3. \A s \in Threads : SameCall(s) /\ SameAnswer(s)
  BY <1>1 DEF SameCall, SameAnswer, registryVars
<1>4. (\A m \in Msgs : Counted(m)') /\ Durable'
  BY <1>1, <1>3, QuietCount DEF registryVars, Valid, Granting, SameCall, SameAnswer
<1>5. \A s \in Threads : Carries(s)'
  BY <1>3, OthersCarry
<1> QED  BY <1>2, <1>4, <1>5 DEF GatewaysInv

LEMMA DeliverKeeps ==
  ASSUME GatewaysInv, RegistryInv', NEW t \in Threads, Deliver(t)
  PROVE  GatewaysInv'
<1>1. /\ gw[t] = "awaiting" /\ answer[t] \notin Acks /\ Return(t)
      /\ req[t] \in Requests /\ req[t].msg \in Msgs /\ arg[t] = req[t].msg /\ op[t] = "submit"
      /\ UNCHANGED <<req, tokens, refills, resets, wipes>>
  BY Facts DEF Deliver, Carries, StoreLineage, PropagateException
<1>2. PICK status \in Acks \cup Halts :
         /\ Respond(t, status)
         /\ status \in Acks => Valid(t)
  <2>1. ASSUME NEW c PROVE ResolveTransportStatus(ResolveTranslationStatus(c)) \in Acks \cup Halts
    BY ResolveType
  <2>2. "HALT:REPLAY_DETECTED" \in Halts /\ "HALT:REPLAY_DETECTED" \notin Acks
    BY DEF Halts, Acks
  <2>3. CASE PropagateException(t) /\ Respond(t, ErrorStatus(req[t].entry))
    BY <2>3, ErrorType
  <2>4. CASE StoreLineage(t) /\ decision[t].status # "VALID"
    BY <2>2, <2>4 DEF Deliver, PropagateException, StoreLineage, Answered
  <2>5. CASE StoreLineage(t) /\ decision[t].status = "VALID"
    <3>1. Valid(t)
      BY <2>5, <1>1 DEF Valid, StoreLineage, Answered
    <3> QED  BY <2>1, <2>5, <3>1 DEF Deliver, PropagateException
  <2> QED  BY <2>3, <2>4, <2>5 DEF Deliver
<1>3. /\ gw' = [gw EXCEPT ![t] = "responded"]
      /\ answer' \in [Threads -> {"none"} \cup Acks \cup Halts]
      /\ answer' = [answer EXCEPT ![t] = status]
      /\ acks' \in [Msgs -> Nat] /\ (status \notin Acks => acks' = acks)
  BY <1>1, <1>2, RespondKeeps DEF GatewaysInv
<1>4. pc'[t] = "idle" /\ UNCHANGED <<entries, file>>
  BY <1>1, Facts DEF Return, RegistryTypeOK
<1>5. \A s \in Threads \ {t} : SameCall(s) /\ SameAnswer(s)
  BY <1>1, <1>3, Facts, OthersStay DEF SameCall, SameAnswer
<1>6. AuthorityTypeOK'
  <2>1. CASE StoreLineage(t)
    BY <1>1, <2>1, Facts, StoreLineageType DEF RegistryInv
  <2>2. CASE PropagateException(t)
    BY <2>2, Facts, QuietAuthorityType DEF PropagateException, RegistryInv
  <2> QED  BY <2>1, <2>2 DEF Deliver
<1>7. Carries(t)'
  BY <1>1, <1>3, <1>4, Facts DEF Carries
<1>8. GatewaysTypeOK' /\ \A s \in Threads : Carries(s)'
  BY <1>1, <1>3, <1>5, <1>6, <1>7, Facts, OthersCarry DEF GatewaysTypeOK, Places
<1>9. CASE status \notin Acks
  <2>1. answer'[t] \notin Acks
    BY <1>3, <1>9, Facts
  <2>2. (\A m \in Msgs : Counted(m)') /\ Durable'
    BY <1>1, <1>3, <1>4, <1>5, <1>9, <2>1, CallerCount
  <2> QED  BY <1>8, <2>2 DEF GatewaysInv
<1>10. CASE status \in Acks
  <2>1. Valid(t) /\ Granting(t, arg[t])
    BY <1>2, <1>10 DEF Valid, Granting
  <2>2. \A s \in Threads : \A m \in Msgs : Granting(s, m)' => Granting(s, m) /\ s # t
    BY <1>4, <1>5 DEF Granting, Valid, SameCall
  <2>3. acks' = [acks EXCEPT ![arg[t]] = @ + 1]
    BY <1>1, <1>2, <1>10 DEF Respond
  <2>4. ASSUME NEW m \in Msgs PROVE Counted(m)'
    <3>1. /\ Cardinality(Granters(m)) \in Nat /\ Cardinality(Granters(m)') \in Nat
      BY GrantersFinite
    <3>2. acks[m] \in Nat /\ wipes \in Nat
      BY Facts
    <3>3. acks[m] + Cardinality(Granters(m)) <= wipes + (IF entries[m] = 0 THEN 0 ELSE 1)
      BY DEF GatewaysInv, Counted
    <3>4. CASE m = arg[t]
      <4>1. Cardinality(Granters(m)') + 1 <= Cardinality(Granters(m))
        BY <2>1, <2>2, <3>4, GranterLeaves
      <4>2. acks'[m] = acks[m] + 1
        BY <2>3, <3>4, Facts
      <4> QED  BY <1>1, <1>4, <3>1, <3>2, <3>3, <4>1, <4>2 DEF Counted
    <3>5. CASE m # arg[t]
      <4>1. Cardinality(Granters(m)') <= Cardinality(Granters(m))
        BY <2>2, NoNewGranter
      <4>2. acks'[m] = acks[m]
        BY <2>3, <3>5, Facts
      <4> QED  BY <1>1, <1>4, <3>1, <3>2, <3>3, <4>1, <4>2 DEF Counted
    <3> QED  BY <3>4, <3>5
  <2>5. Durable'
    <3> SUFFICES ASSUME wipes = 0
                 PROVE  /\ \A m \in Msgs : Load(file).entries[m] # 0 => entries[m] # 0
                        /\ \A s \in Threads : Valid(s)' => Load(file).entries[arg'[s]] # 0
                        /\ \A s \in Threads : answer'[s] \in Acks
                                                => Load(file).entries[req[s].msg] # 0
      BY <1>1, <1>4 DEF Durable, Load
    <3>1. /\ \A m \in Msgs : Load(file).entries[m] # 0 => entries[m] # 0
          /\ \A s \in Threads : Valid(s) => Load(file).entries[arg[s]] # 0
          /\ \A s \in Threads : answer[s] \in Acks => Load(file).entries[req[s].msg] # 0
      BY DEF GatewaysInv, Durable
    <3>2. \A s \in Threads : Valid(s)' => Valid(s) /\ arg'[s] = arg[s]
      BY <1>4, <1>5 DEF Valid, SameCall
    <3>3. ASSUME NEW s \in Threads, answer'[s] \in Acks
          PROVE  Load(file).entries[req[s].msg] # 0
      <4>1. CASE s = t
        BY <4>1, <1>1, <2>1, <3>1
      <4>2. CASE s # t
        BY <4>2, <1>5, <3>1, <3>3 DEF SameAnswer
      <4> QED  BY <4>1, <4>2
    <3> QED  BY <3>1, <3>2, <3>3
  <2> QED  BY <1>8, <2>4, <2>5 DEF GatewaysInv
<1> QED  BY <1>9, <1>10

-----------------------------------------------------------------------------
(* The steps of the registry below a gateway call.                         *)

LEMMA BelowCounts ==
  ASSUME GatewaysInv, NEW t \in Threads, RunCall(t), acks' = acks,
         wipes' = IF pc[t] = "locked" /\ op[t] = "reset" THEN wipes + 1 ELSE wipes,
         NEW m \in Msgs
  PROVE  Counted(m)'
<1> DEFINE old == IF entries[m] = 0 THEN 0 ELSE 1
           new == IF entries'[m] = 0 THEN 0 ELSE 1
<1>1. /\ Cardinality(Granters(m)) \in Nat /\ Cardinality(Granters(m)') \in Nat
      /\ acks[m] \in Nat /\ wipes \in Nat /\ old \in {0, 1} /\ new \in {0, 1}
  BY Facts, GrantersFinite
<1>2. acks[m] + Cardinality(Granters(m)) <= wipes + old
  BY DEF GatewaysInv, Counted
<1>3. \A s \in Threads : s # t /\ Granting(s, m)' => Granting(s, m)
  BY Facts, OthersStay DEF Granting, Valid
<1>4. SUFFICES acks[m] + Cardinality(Granters(m)') <= wipes' + new
  BY DEF Counted
<1>5. /\ op' = op /\ arg' = arg /\ RegistryTypeOK /\ CallsCarryMessages
  BY Facts, CallRuns DEF GatewaysInv, RegistryInv
<1>a. CASE /\ AssignSequence(t) /\ arg[t] \in Msgs /\ entries[arg[t]] = 0
           /\ entries' = [entries EXCEPT ![arg[t]] = counter + 1]
           /\ ~ (pc[t] = "locked" /\ op[t] = "reset")
  <2>1. wipes' = wipes
    BY <1>a
  <2>2. CASE m = arg[t]
    <3>1. old = 0 /\ new = 1
      BY <1>a, <1>5, <2>2 DEF RegistryTypeOK
    <3>2. Cardinality(Granters(m)') <= Cardinality(Granters(m)) + 1
      BY <1>3, OneNewGranter
    <3> HIDE DEF old, new
    <3> QED  BY <1>1, <1>2, <2>1, <3>1, <3>2
  <2>3. CASE m # arg[t]
    <3>1. old = new
      BY <1>a, <1>5, <2>3 DEF RegistryTypeOK
    <3>2. ~ Granting(t, m)'
      BY <1>5, <2>3 DEF Granting
    <3>3. Cardinality(Granters(m)') <= Cardinality(Granters(m))
      BY <1>3, <3>2, NoNewGranter
    <3> HIDE DEF old, new
    <3> QED  BY <1>1, <1>2, <2>1, <3>1, <3>3
  <2> QED  BY <2>2, <2>3
<1>b. CASE ClearMemory(t) /\ op[t] = "reset" /\ pc[t] = "locked"
  <2>1. wipes' = wipes + 1 /\ ~ Granting(t, m)'
    BY <1>b, <1>5 DEF Granting
  <2>2. Cardinality(Granters(m)') <= Cardinality(Granters(m))
    BY <1>3, <2>1, NoNewGranter
  <2> HIDE DEF old, new
  <2> QED  BY <1>1, <1>2, <2>1, <2>2
<1>c. CASE /\ entries' = entries /\ ~ (pc[t] = "locked" /\ op[t] = "reset")
           /\ \A n \in Msgs : Granting(t, n)' => Granting(t, n)
  <2>1. wipes' = wipes /\ old = new
    BY <1>c
  <2>2. Cardinality(Granters(m)') <= Cardinality(Granters(m))
    BY <1>3, <1>c, NoNewGranter
  <2> HIDE DEF old, new
  <2> QED  BY <1>1, <1>2, <2>1, <2>2
<1> QED  BY <1>5, <1>a, <1>b, <1>c, CallEffect

\* A step of the registry that leaves the file alone leaves a VALID decision alone, and one
\* that replaces it replaces it by the memory.
LEMMA FileEffect ==
  ASSUME RegistryInv, NEW t \in Threads, RunCall(t)
  PROVE  \/ file' = file /\ ~ Valid(t)'
         \/ /\ Load(file') = Memory /\ entries' = entries
            /\ Valid(t)' => entries[arg[t]] # 0
<1> USE DEF RegistryInv, RegistryTypeOK, CriticalSteps, Valid
<1>1. CASE Acquire(t) \/ RejectDuplicate(t) \/ NotADuplicate(t) \/ ClearMemory(t)
  BY <1>1 DEF Acquire, RejectDuplicate, NotADuplicate, ClearMemory, Leave, Decide
<1>2. CASE AssignSequence(t)
  BY <1>2, AssignAssigns
<1>3. CASE WriteTmp(t) \/ PersistFails(t)
  BY <1>3 DEF WriteTmp, PersistFails, Leave, Decide
<1>4. CASE AcceptMessage(t)
  <2>1. Load(file') = Memory /\ entries' = entries
    BY <1>4, ReplaceLoads DEF AcceptMessage, ReplaceFile
  <2>2. entries[arg[t]] # 0
    BY <1>4 DEF AcceptMessage, ReplaceFile, WriteInProgress
  <2> QED  BY <2>1, <2>2
<1>5. CASE FinishReset(t)
  <2>1. Load(file') = Memory /\ entries' = entries
    BY <1>5, ReplaceLoads DEF FinishReset, ReplaceFile
  <2>2. ~ Valid(t)'
    BY <1>5 DEF FinishReset, ReplaceFile, Leave, Decide
  <2> QED  BY <2>1, <2>2
<1> QED  BY <1>1, <1>2, <1>3, <1>4, <1>5 DEF RunCall

LEMMA BelowDurable ==
  ASSUME GatewaysInv, NEW t \in Threads, RunCall(t), UNCHANGED <<req, answer>>,
         wipes' = IF pc[t] = "locked" /\ op[t] = "reset" THEN wipes + 1 ELSE wipes
  PROVE  Durable'
<1> SUFFICES ASSUME wipes' = 0
             PROVE  /\ \A m \in Msgs : Load(file').entries[m] # 0 => entries'[m] # 0
                    /\ \A s \in Threads : Valid(s)' => Load(file').entries[arg'[s]] # 0
                    /\ \A s \in Threads : answer[s] \in Acks
                                            => Load(file').entries[req[s].msg] # 0
  BY DEF Durable, Load
<1>1. wipes = 0 /\ ~ (pc[t] = "locked" /\ op[t] = "reset")
  BY Facts
<1>2. /\ \A m \in Msgs : Load(file).entries[m] # 0 => entries[m] # 0
      /\ \A s \in Threads : Valid(s) => Load(file).entries[arg[s]] # 0
      /\ \A s \in Threads : answer[s] \in Acks => Load(file).entries[req[s].msg] # 0
  BY <1>1 DEF GatewaysInv, Durable
<1>3. /\ arg' = arg /\ RegistryTypeOK /\ CallsCarryMessages /\ RegistryInv
  BY Facts, CallRuns DEF GatewaysInv, RegistryInv
<1>4. \A m \in Msgs : entries[m] # 0 => entries'[m] # 0
  BY <1>1, <1>3, CallEffect DEF RegistryTypeOK
<1>5. \A s \in Threads : s # t /\ Valid(s)' => Valid(s)
  BY <1>3, OthersStay DEF Valid
<1>6. \A s \in Threads : Valid(s) => arg[s] \in Msgs
  BY <1>3 DEF CallsCarryMessages, Valid
<1>7. \A s \in Threads : answer[s] \in Acks => req[s].msg \in Msgs
  BY Facts DEF Carries
<1>8. CASE file' = file /\ ~ Valid(t)'
  <2>1. \A s \in Threads : Valid(s)' => Valid(s)
    BY <1>5, <1>8
  <2>2. Load(file') = Load(file)
    BY <1>8
  <2> HIDE DEF Valid
  <2> QED  BY <1>2, <1>3, <1>4, <2>1, <2>2
<1>9. CASE /\ Load(file') = Memory /\ entries' = entries
           /\ Valid(t)' => entries[arg[t]] # 0
  <2>1. \A m \in Msgs : Load(file').entries[m] = entries[m]
    BY <1>9 DEF Memory
  <2>2. ASSUME NEW s \in Threads, Valid(s)' PROVE Load(file').entries[arg'[s]] # 0
    <3>1. CASE s = t
      <4>1. arg[t] \in Msgs
        BY <2>2, <3>1, <1>3, CallRuns DEF Valid, CallsCarryMessages
      <4> QED  BY <2>1, <2>2, <3>1, <4>1, <1>3, <1>9
    <3>2. CASE s # t
      <4>1. Valid(s) /\ arg[s] \in Msgs
        BY <2>2, <3>2, <1>5, <1>6
      <4> QED  BY <2>1, <4>1, <1>2, <1>3
    <3> QED  BY <3>1, <3>2
  <2>3. ASSUME NEW s \in Threads, answer[s] \in Acks PROVE Load(file').entries[req[s].msg] # 0
    BY <2>1, <2>3, <1>2, <1>7
  <2> QED  BY <2>1, <2>2, <2>3, <1>9
<1> QED  BY <1>3, <1>8, <1>9, FileEffect

LEMMA BelowKeeps ==
  ASSUME GatewaysInv, RegistryInv', NEW t \in Threads, Below(t)
  PROVE  GatewaysInv'
<1>1. /\ gw[t] \in {"wiping", "awaiting", "resetting"}
      /\ UNCHANGED <<gw, req, answer, tokens, refills, resets, acks>>
      /\ wipes' = IF pc[t] = "locked" /\ op[t] = "reset" THEN wipes + 1 ELSE wipes
  BY DEF Below
<1>2. wipes' \in Nat
  BY <1>1, Facts
<1>3. CASE InRegistry(t)
  <2>1. RunCall(t)
    BY <1>3 DEF InRegistry
  <2>2. op' = op /\ arg' = arg /\ pc[t] # "idle" /\ pc'[t] # "idle"
    BY <2>1, Facts, CallRuns
  <2>3. AuthorityTypeOK'
    BY <1>3, Facts, InRegistryType DEF RegistryInv
  <2>4. GatewaysTypeOK'
    BY <1>1, <1>2, <2>3, Facts DEF GatewaysTypeOK, Places
  <2>5. ASSUME NEW s \in Threads PROVE Carries(s)'
    <3>1. CASE s = t
      BY <1>1, <2>2, <3>1, Facts DEF Carries
    <3>2. CASE s # t
      BY <1>1, <2>1, <3>2, Facts, OthersStay, OthersCarry DEF SameCall, SameAnswer
    <3> QED  BY <3>1, <3>2
  <2>6. (\A m \in Msgs : Counted(m)') /\ Durable'
    BY <1>1, <2>1, BelowCounts, BelowDurable
  <2> QED  BY <2>4, <2>5, <2>6 DEF GatewaysInv
<1>4. CASE (gw[t] = "awaiting" /\ StoreVerdict(t)) \/ (gw[t] = "resetting" /\ ClearLineage(t))
  <2>1. UNCHANGED registryVars /\ pc[t] = "decided"
    BY <1>4 DEF StoreVerdict, ClearLineage, Answered
  <2>2. AuthorityTypeOK'
    <3>1. gw[t] = "awaiting" => arg[t] \in Msgs
      BY Facts DEF Carries
    <3> QED  BY <1>4, <3>1, Facts, StoreVerdictType, ResetDictsType DEF RegistryInv
  <2>3. GatewaysTypeOK'
    BY <1>1, <1>2, <2>2, Facts DEF GatewaysTypeOK, Places
  <2>4. \A s \in Threads : SameCall(s) /\ SameAnswer(s)
    BY <1>1, <2>1 DEF SameCall, SameAnswer, registryVars
  <2>5. (\A m \in Msgs : Counted(m)') /\ Durable'
    BY <1>1, <2>1, <2>4, QuietCount DEF registryVars, Valid, Granting, SameCall, SameAnswer
  <2> QED  BY <2>3, <2>4, <2>5, OthersCarry DEF GatewaysInv
<1> QED  BY <1>3, <1>4 DEF Below

-----------------------------------------------------------------------------
(* The theorems.                                                           *)

LEMMA GatewaysStep ==
  ASSUME GatewaysInv, [GatewaysNext]_gatewayVars
  PROVE  GatewaysInv'
<1>1. RegistryInv'
  BY RegistryStep, InvNext DEF GatewaysInv
<1>2. ASSUME NEW t \in Threads, ContinueCall(t) PROVE GatewaysInv'
  BY <1>1, <1>2, CheckCapacityKeeps, BeginKeeps, EvictedKeeps, BelowKeeps, DeliverKeeps,
     ReceiverResetKeeps, ReturnResponseKeeps DEF ContinueCall
<1>3. ASSUME NEW t \in Threads, ResetReceiver(t) PROVE GatewaysInv'
  BY <1>1, <1>3, BeginKeeps
<1>4. ASSUME NEW t \in Threads, NEW e \in Entries, RefuseByRate(t, e) PROVE GatewaysInv'
  BY <1>1, <1>4, RefuseByRateKeeps
<1>5. ASSUME NEW t \in Threads, NEW r \in Requests, Admit(t, r) PROVE GatewaysInv'
  BY <1>1, <1>5, AdmitKeeps
<1>6. ASSUME NEW e \in Entries, Refill(e) PROVE GatewaysInv'
  BY <1>1, <1>6, RefillKeeps
<1>7. CASE UNCHANGED gatewayVars
  <2>1. /\ UNCHANGED <<registryVars, authorityOwnVars, gw, req, answer, tokens, refills, resets,
                       acks, wipes>>
    BY <1>7 DEF gatewayVars, gatewayOwnVars, authorityVars
  <2>2. GatewaysTypeOK'
    <3>1. AuthorityTypeOK'
      BY <1>1, <2>1, Facts, QuietAuthorityType DEF RegistryInv
    <3> QED  BY <2>1, <3>1, Facts DEF GatewaysTypeOK, Places
  <2>3. \A s \in Threads : SameCall(s) /\ SameAnswer(s)
    BY <2>1 DEF SameCall, SameAnswer, registryVars
  <2>4. (\A m \in Msgs : Counted(m)') /\ Durable'
    BY <2>1, <2>3, QuietCount DEF registryVars, Valid, Granting, SameCall, SameAnswer
  <2> QED  BY <1>1, <2>2, <2>3, <2>4, OthersCarry DEF GatewaysInv
<1> QED  BY <1>2, <1>3, <1>4, <1>5, <1>6, <1>7 DEF GatewaysNext

LEMMA GatewaysInitial == GatewaysInit => GatewaysInv
<1> SUFFICES ASSUME GatewaysInit PROVE GatewaysInv
  OBVIOUS
<1>1. RegistryInv /\ RegistryInit
  BY InvInit DEF GatewaysInit, AuthorityInit
<1>2. AuthorityTypeOK
  <2>1. NoVerdict \in Verdict
    BY DEF NoVerdict, Verdict
  <2>2. /\ stage = [t \in Threads |-> "none"] /\ verdicts = [m \in Msgs |-> NoVerdict]
        /\ lineage = << >> /\ issued = << >> /\ wiped = FALSE
    BY DEF GatewaysInit, AuthorityInit
  <2>3. verdicts \in [Msgs -> Verdict]
    BY <2>1, <2>2
  <2>4. wiped \in BOOLEAN
    BY <2>2
  <2>5. lineage \in Seq(Record) /\ issued \in Seq(Record)
    BY <2>2
  <2> QED
    BY <1>1, <2>2, <2>3, <2>4, <2>5 DEF AuthorityTypeOK, RegistryInv, Verdict, Record
<1>3. GatewaysTypeOK
  BY <1>2, GatewayAssumption DEF GatewaysInit, GatewaysTypeOK
<1>4. \A t \in Threads : pc[t] = "idle" /\ answer[t] \notin Acks /\ gw[t] = "idle"
  BY <1>1, HaltsAreNotAcks DEF GatewaysInit, RegistryInit
<1>5. \A t \in Threads : Carries(t) /\ ~ Valid(t) /\ \A m \in Msgs : ~ Granting(t, m)
  BY <1>4 DEF Carries, Valid, Granting
<1>6. ASSUME NEW m \in Msgs PROVE Counted(m)
  <2>1. Granters(m) = {}
    BY <1>5 DEF Granters
  <2>2. Cardinality(Granters(m)) = 0
    BY <2>1, FS_EmptySet
  <2>3. acks[m] = 0 /\ wipes = 0 /\ entries[m] = 0
    BY <1>1 DEF GatewaysInit, RegistryInit, Empty
  <2> QED  BY <2>2, <2>3 DEF Counted
<1>7. Durable
  <2>1. \A m \in Msgs : Load(file).entries[m] = 0
    BY <1>1 DEF RegistryInit, Load, Empty
  <2> QED  BY <1>4, <1>5, <2>1 DEF Durable
<1> QED  BY <1>1, <1>3, <1>5, <1>6, <1>7 DEF GatewaysInv

LEMMA GatewaysInvariant == GatewaysSpec => []GatewaysInv
  BY GatewaysInitial, GatewaysStep, PTL DEF GatewaysSpec

\* Every variable of the gateways and of what is below them keeps its type.
THEOREM GatewaysTypeCorrect == GatewaysSpec => []GatewaysTypeOK
<1>1. GatewaysInv => GatewaysTypeOK
  BY DEF GatewaysInv
<1> QED  BY GatewaysInvariant, <1>1, PTL

\* Every history of the two gateways, evictions and resets included, is for the registry one
\* of the callers of ReplayRegistry: what is proved of it holds behind the gateways.
THEOREM GatewaysUseTheRegistry == GatewaysSpec => RegistrySpec
<1>1. GatewaysInit => RegistryInit
  BY DEF GatewaysInit, AuthorityInit
<1>2. GatewaysInv /\ [GatewaysNext]_gatewayVars => [RegistryNext]_registryVars
  BY RegistryStep
<1> QED  BY <1>1, <1>2, GatewaysInvariant, PTL DEF GatewaysSpec, RegistrySpec

\* Through two gateways, with evictions and resets between their calls, the acceptances are
\* still those of an accept-once ledger.
THEOREM GatewaysImplementLedger == GatewaysSpec => KeepsLedger
  BY GatewaysUseTheRegistry, ImplementsLedger, PTL

\* Whatever threads call send and transmit (gateway.py:282-346, hybrid_gateway.py:124-160),
\* and whichever writes fail, a message is acknowledged at most once more often than the
\* registry was cleared, and while it was not, an ACK has its entry in the file.
THEOREM AcknowledgedOnce == GatewaysSpec => []AckedOncePerMemory
<1>1. GatewaysInv => AckedOncePerMemory
  <2> SUFFICES ASSUME GatewaysInv PROVE AckedOncePerMemory
    OBVIOUS
  <2>1. ASSUME NEW m \in Msgs PROVE acks[m] <= 1 + wipes
    <3>1. acks[m] \in Nat /\ wipes \in Nat /\ Cardinality(Granters(m)) \in Nat
      BY Facts, GrantersFinite
    <3>2. acks[m] + Cardinality(Granters(m)) <= wipes + (IF entries[m] = 0 THEN 0 ELSE 1)
      BY DEF GatewaysInv, Counted
    <3> QED  BY <3>1, <3>2
  <2>2. \A t \in Threads : answer[t] \in Acks /\ wipes = 0 => Load(file).entries[req[t].msg] # 0
    BY DEF GatewaysInv, Durable
  <2> QED  BY <2>1, <2>2 DEF AckedOncePerMemory
<1> QED  BY GatewaysInvariant, <1>1, PTL

-----------------------------------------------------------------------------
(* What the producers hand to the gateways, for every message, seed, noise *)
(* and threshold.                                                          *)

\* The circuit of quantum_producer.py:32-41 gives its two bits in the other order.
LEMMA CircuitMirrors ==
  ASSUME NEW bits \in BitStrings
  PROVE  /\ BuildSuperdenseCircuit(bits) = <<bits[2], bits[1]>>
         /\ BuildSuperdenseCircuit(bits) \in BitStrings
  BY DEF BuildSuperdenseCircuit, SuperdenseEncoding, BitStrings, Bit

\* Without noise the dominant bit string is the one the circuit gives, with every shot.
LEMMA CleanDominant ==
  ASSUME NEW bits \in BitStrings
  PROVE  /\ DominantBitstring(Clean(bits)) = <<bits[2], bits[1]>>
         /\ Clean(bits)[DominantBitstring(Clean(bits))] = Full
<1> DEFINE read == BuildSuperdenseCircuit(bits)
           counts == Clean(bits)
           most(b) == \A c \in DOMAIN counts : counts[c] <= counts[b]
<1>1. /\ read \in BitStrings /\ read = <<bits[2], bits[1]>>
      /\ DOMAIN counts = BitStrings
      /\ \A b \in BitStrings : counts[b] = IF b = read THEN Full ELSE 0
  BY CircuitMirrors DEF Clean
<1> HIDE DEF counts, read
<1>2. read \in DOMAIN counts /\ most(read)
  BY <1>1 DEF Full
<1>3. \A b \in DOMAIN counts : most(b) => b = read
  BY <1>1 DEF Full
<1>4. (CHOOSE b \in DOMAIN counts : most(b)) = read
  BY <1>2, <1>3
<1>5. DominantBitstring(counts) = read
  BY <1>4 DEF DominantBitstring
<1>6. counts[read] = Full
  BY <1>1
<1>7. QED BY <1>1, <1>5, <1>6 DEF counts

\* On a channel without noise translation_layer.py rejects exactly the messages whose two
\* bits differ (as those of SHUTDOWN do), although every shot agrees: and the producer of
\* gateway.py:70-81 hands on each of them with confidence 1, for which
\* CommunicationGateway.send answers ACK:OK.
THEOREM CleanMismatchIsAcknowledged ==
  ASSUME NEW tx, ValidTransmission(tx), Possible(tx), tx.noise = 0,
         Strip[tx.message] = tx.message, tx.message \in DOMAIN Bits,
         OkThreshold <= Full
  PROVE  LET c == Translate(RunQuantumProducer(tx), tx.message)
             r == ProduceQuantum(tx)
         IN  /\ c.status = "REJECTED" <=> Bits[tx.message][1] # Bits[tx.message][2]
             /\ r.confidence = Full
             /\ ResolveTransportStatus(ResolveTranslationStatus(r.confidence)) = "ACK:OK"
<1> DEFINE bits == Bits[tx.message]
           d    == RunQuantumProducer(tx)
           c    == Translate(d, tx.message)
           read == DominantBitstring(d.counts)
<1>1. bits \in BitStrings
  BY ProducersAssumption
<1>2. d.counts = Clean(bits)
  BY DEF Possible, RunQuantumProducer
<1>3. read = <<bits[2], bits[1]>> /\ d.counts[read] = Full
  BY <1>1, <1>2, CleanDominant
<1>4. read = bits <=> bits[1] = bits[2]
  BY <1>1, <1>3 DEF BitStrings
<1>5. ResolveTranslationStatus(Full) = "OK"
  BY DEF ResolveTranslationStatus
<1>6. c.confidence = Full /\ (c.status = "REJECTED" <=> read # bits)
  BY <1>3, <1>5 DEF Translate, VerifyBits
<1>7. ProduceQuantum(tx).confidence = c.confidence
  BY DEF ProduceQuantum, CommunicationRequest, AdaptQuantum, Contract
<1>8. ResolveTransportStatus("OK") = "ACK:OK"
  BY DEF ResolveTransportStatus
<1>9. QED BY <1>4, <1>5, <1>6, <1>7, <1>8

\* HybridAdapter (adapters.py:252-317) never lowers a confidence, and what it puts first is
\* the payload whose confidence it states.
THEOREM HybridLeadsWithTheBetter ==
  ASSUME NEW q, NEW c, q.confidence \in Nat, c.confidence \in Nat
  PROVE  LET h == AdaptHybrid(q, c) IN
         /\ h.confidence >= q.confidence /\ h.confidence >= c.confidence
         /\ \/ h.payload.primary = q.payload /\ h.confidence = q.confidence
            \/ h.payload.primary = c.payload /\ h.confidence = c.confidence
<1>1. CASE q.confidence >= c.confidence
  BY <1>1 DEF AdaptHybrid, Contract
<1>2. CASE q.confidence < c.confidence
  BY <1>2 DEF AdaptHybrid, Contract
<1>3. QED BY <1>1, <1>2

\* The gateways acknowledge a translation of that status.
Acknowledged(status) == ResolveTransportStatus(status) \in {"ACK:OK", "ACK:DEGRADED"}

\* The posture of degraded_runtime.py lets an operator act only where the gateways
\* acknowledge, and wherever they do unless the noise is above a half and the status is not
\* OK; at OK no noise suppresses it.
THEOREM PostureAgreesWithAck ==
  ASSUME NEW status \in {"OK", "DEGRADED", "REJECTED"}, NEW noise \in 0..Full
  PROVE  EmitAction(Evaluate(status, noise, FALSE, FALSE))
             <=> Acknowledged(status) /\ (2 * noise <= Full \/ status = "OK")
<1>1. (2 * noise > Full) <=> ~ (2 * noise <= Full)
  BY DEF Full
<1>2. CASE status = "OK"
  BY <1>2 DEF Evaluate, EmitAction, Acknowledged, ResolveTransportStatus
<1>3. CASE status = "DEGRADED"
  BY <1>3, <1>1 DEF Evaluate, EmitAction, Acknowledged, ResolveTransportStatus
<1>4. CASE status = "REJECTED"
  BY <1>4 DEF Evaluate, EmitAction, Acknowledged, ResolveTransportStatus
<1>5. QED BY <1>2, <1>3, <1>4
=============================================================================
