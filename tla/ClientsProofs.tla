---------------------------- MODULE ClientsProofs ----------------------------
(***************************************************************************)
(* Proofs about the programs around the daemon (Clients), each for any     *)
(* values of its constants: one section per program, with the inductive    *)
(* invariant of its own specification and the property the runs check.     *)
(* The first section shows that a behaviour of all of them is a behaviour  *)
(* of each, so that what is proved of one holds next to the others; the    *)
(* last two are about the install command (HarnessInstall) and the two MCP *)
(* processes.                                                              *)
(***************************************************************************)
EXTENDS Clients, HarnessInstall, SelectionProofs

\* A step of one of the programs is a step of it and leaves the others alone.
LEMMA StepOfEach ==
  ASSUME [ClientsNext]_partVars
  PROVE  /\ [Next]_vars /\ [hkNext]_hkVars /\ [pxNext]_pxVars /\ [svNext]_svVars
         /\ [kyNextStep]_kyVars /\ [rgNext]_rgVars /\ [lgNextStep]_lgVars /\ [rpNext]_rpVars
         /\ [wbNext]_wbVars /\ [mcNext]_mcVars /\ [ckNext]_ckVars /\ [gdNext]_gdVars
BY DEF ClientsNext, Only, partVars

\* The specification that is checked implements that of each program: none of
\* them is hindered or helped by the others being there.
THEOREM ClientsImplementEach ==
  ClientsSpec => /\ Spec /\ hkSpec /\ pxSpec /\ svSpec /\ kySpec /\ rgSpec /\ lgSpec
                 /\ rpSpec /\ wbSpec /\ mcSpec /\ ckSpec /\ gdSpec
<1>1. ClientsInit => /\ Init /\ hkInit /\ pxInit /\ svInit /\ kyInit /\ rgInit /\ lgInit
                     /\ rpInit /\ wbInit /\ mcInit /\ ckInit /\ gdInit
  BY DEF ClientsInit, Inits
<1>2. [ClientsNext]_partVars =>
        /\ [Next]_vars /\ [hkNext]_hkVars /\ [pxNext]_pxVars /\ [svNext]_svVars
        /\ [kyNextStep]_kyVars /\ [rgNext]_rgVars /\ [lgNextStep]_lgVars /\ [rpNext]_rpVars
        /\ [wbNext]_wbVars /\ [mcNext]_mcVars /\ [ckNext]_ckVars /\ [gdNext]_gdVars
  BY StepOfEach
<1>3. QED
  BY <1>1, <1>2, PTL
  DEF ClientsSpec, Spec, hkSpec, pxSpec, svSpec, kySpec, rgSpec, lgSpec, rpSpec, wbSpec, mcSpec,
      ckSpec, gdSpec

-----------------------------------------------------------------------------
(* MCP PINS, for any servers, fingerprints, evaluators and any number of     *)
(* calls.  Writers hold copies of the pin file that may be old when they are  *)
(* written, so the invariant speaks of the copies too.                       *)

PinFile == [mcServer -> SUBSET mcPrint]
PinWrite == [row : mcRow, read : PinFile]
PageRequest == [action : {"accept", "refuse"}, row : mcRow, answer : {"", "ok", "failed"}]

mcTypeOK ==
  /\ mcPins \in PinFile
  /\ mcEval \in [mcEvaluator -> SUBSET PinWrite]
  /\ mcAccepting \subseteq PinWrite
  /\ mcTold \subseteq mcRow
  /\ mcRequests \subseteq PageRequest

\* Every pin of a file, or of the copy that a writer holds, is told.
PinsTold(pins) == \A r \in mcRow : Pinned(pins, r) => r \in mcTold
PinWriteTold(w) == w.row \in mcTold /\ PinsTold(w.read)

PinWritersTold ==
  /\ \A e \in mcEvaluator : \A w \in mcEval[e] : PinWriteTold(w)
  /\ \A w \in mcAccepting : PinWriteTold(w)
PinAcceptsTold == \A q \in mcRequests : q.action = "accept" => q.row \in mcTold

mcInv == mcTypeOK /\ PinsTold(mcPins) /\ PinWritersTold /\ PinAcceptsTold /\ mcAsked = mcRows

-----------------------------------------------------------------------------
\* A write adds the pin of its row to the copy it was made from, and no other.
LEMMA WrittenPinIsTold ==
  ASSUME NEW w \in PinWrite, PinWriteTold(w)
  PROVE  WritePin(w.read, w.row) \in PinFile /\ PinsTold(WritePin(w.read, w.row))
<1>1. w.row \in mcRow /\ w.read \in PinFile /\ w.row \in mcTold
  BY DEF PinWrite, PinWriteTold
<1>2. w.row.server \in mcServer /\ w.row.print \in mcPrint
  BY <1>1 DEF mcRow
<1>3. WritePin(w.read, w.row) \in PinFile
  BY <1>1, <1>2 DEF WritePin, PinFile
<1>4. ASSUME NEW r \in mcRow, Pinned(WritePin(w.read, w.row), r)
      PROVE  r \in mcTold
  <2>1. CASE r.server = w.row.server
    <3>1. r.print = w.row.print
      BY <1>1, <1>2, <1>4, <2>1 DEF WritePin, PinFile, Pinned
    <3>2. r = w.row
      BY <1>1, <2>1, <3>1 DEF mcRow
    <3>3. QED
      BY <1>1, <3>2
  <2>2. CASE r.server # w.row.server
    <3>1. r.server \in mcServer
      BY DEF mcRow
    <3>2. Pinned(w.read, r)
      BY <1>1, <1>4, <2>2, <3>1 DEF WritePin, PinFile, Pinned
    <3>3. QED
      BY <3>2 DEF PinWriteTold, PinsTold
  <2>3. QED
    BY <2>1, <2>2
<1>5. QED
  BY <1>3, <1>4 DEF PinsTold

\* What was told once stays told, so a step that writes no pin keeps the copies.
LEMMA PinsToldStay ==
  ASSUME mcTold \subseteq mcTold'
  PROVE  /\ \A pins : PinsTold(pins) => PinsTold(pins)'
         /\ \A w : PinWriteTold(w) => PinWriteTold(w)'
BY DEF PinsTold, PinWriteTold

LEMMA PinsStart == mcInit => mcInv
<1> SUFFICES ASSUME mcInit PROVE mcInv
  OBVIOUS
<1>1. mcPins \in PinFile /\ \A s \in mcServer : mcPins[s] = {}
  BY DEF mcInit, PinFile
<1>2. mcEval \in [mcEvaluator -> SUBSET PinWrite] /\ \A e \in mcEvaluator : mcEval[e] = {}
  BY DEF mcInit
<1>3. PinsTold(mcPins)
  BY <1>1 DEF PinsTold, Pinned, mcRow
<1>4. QED
  BY <1>1, <1>2, <1>3 DEF mcInit, mcInv, mcTypeOK, PinWritersTold, PinAcceptsTold

-----------------------------------------------------------------------------
(* One step.  Each lemma is about one action.                                *)

\* A gate that finds no pin takes a copy of the file and tells its row.
LEMMA PinEvaluateKeeps ==
  ASSUME mcInv, NEW e \in mcEvaluator, Evaluate(e)
  PROVE  mcInv'
<1>1. PICK r \in mcRow :
        /\ mcEval' = [mcEval EXCEPT ![e] = {[row |-> r, read |-> mcPins]}]
        /\ mcTold' = mcTold \cup {r}
  BY DEF Evaluate
<1>2. UNCHANGED <<mcPins, mcRows, mcAccepting, mcRequests, mcAsked>>
  BY DEF Evaluate
<1> DEFINE w == [row |-> r, read |-> mcPins]
<1>3. w \in PinWrite /\ w.row = r /\ w.read = mcPins
  BY DEF mcInv, mcTypeOK, PinWrite
<1>4. mcTypeOK'
  BY <1>1, <1>2, <1>3 DEF mcInv, mcTypeOK
<1>5. PinsTold(mcPins)'
  BY <1>1, <1>2 DEF mcInv, PinsTold
<1>6. PinWriteTold(w)'
  BY <1>1, <1>2, <1>3, <1>5 DEF PinWriteTold, PinsTold
<1>7. PinWritersTold'
  <2>1. \A f \in mcEvaluator : mcEval'[f] = IF f = e THEN {w} ELSE mcEval[f]
    BY <1>1 DEF mcInv, mcTypeOK
  <2>2. \A v : PinWriteTold(v) => PinWriteTold(v)'
    BY <1>1, PinsToldStay
  <2>3. QED
    BY <1>2, <1>6, <2>1, <2>2 DEF mcInv, PinWritersTold
<1>8. QED
  BY <1>1, <1>2, <1>4, <1>5, <1>7 DEF mcInv, PinAcceptsTold

\* ... and writes the copy, with its row, whatever the file holds by then.
LEMMA PinWriteKeeps ==
  ASSUME mcInv, NEW e \in mcEvaluator, writePinStore(e)
  PROVE  mcInv'
<1>1. PICK w \in mcEval[e] : mcPins' = WritePin(w.read, w.row)
  BY DEF writePinStore
<1>2. /\ mcEval' = [mcEval EXCEPT ![e] = {}]
      /\ UNCHANGED <<mcRows, mcAccepting, mcRequests, mcTold, mcAsked>>
  BY DEF writePinStore
<1>3. w \in PinWrite /\ PinWriteTold(w)
  BY DEF mcInv, mcTypeOK, PinWritersTold
<1>4. mcPins' \in PinFile /\ PinsTold(mcPins')
  BY <1>1, <1>3, WrittenPinIsTold
<1>5. \A f \in mcEvaluator : mcEval'[f] \subseteq mcEval[f]
  BY <1>2 DEF mcInv, mcTypeOK
<1>6. mcTypeOK'
  BY <1>2, <1>4 DEF mcInv, mcTypeOK
<1>7. PinsTold(mcPins)' /\ PinWritersTold'
  BY <1>2, <1>4, <1>5 DEF mcInv, PinsTold, PinWriteTold, PinWritersTold
<1>8. QED
  BY <1>2, <1>6, <1>7 DEF mcInv, PinAcceptsTold

\* A check changes the open questions alone.
LEMMA PinCheckKeeps ==
  ASSUME mcInv, mcpPinCheck
  PROVE  mcInv'
<1>1. /\ UNCHANGED <<mcPins, mcEval, mcAccepting, mcRequests, mcTold>>
      /\ mcAsked' = mcRows'
  BY DEF mcInv, mcpPinCheck, upsertPendingMCPPin
<1>2. QED
  BY <1>1 DEF mcInv, mcTypeOK, PinsTold, PinWriteTold, PinWritersTold, PinAcceptsTold

\* The accept endpoint takes a copy of the file for a row that was told.
LEMMA PinAcceptKeeps ==
  ASSUME mcInv, mcpPinAccept
  PROVE  mcInv'
<1>1. PICK q \in mcRequests :
        q.action = "accept" /\ mcAccepting' = {[row |-> q.row, read |-> mcPins]}
  BY DEF mcpPinAccept
<1>2. UNCHANGED <<mcPins, mcRows, mcEval, mcRequests, mcTold, mcAsked>>
  BY DEF mcpPinAccept
<1>3. q.row \in mcTold
  BY <1>1 DEF mcInv, PinAcceptsTold
<1> DEFINE w == [row |-> q.row, read |-> mcPins]
<1>4. w \in PinWrite /\ w.row = q.row /\ w.read = mcPins
  BY <1>3 DEF mcInv, mcTypeOK, PinWrite
<1>5. PinWriteTold(w)
  BY <1>3, <1>4 DEF mcInv, PinWriteTold
<1>6. mcTypeOK'
  BY <1>1, <1>2, <1>4 DEF mcInv, mcTypeOK
<1>7. PinWritersTold'
  BY <1>1, <1>2, <1>5 DEF mcInv, PinWritersTold, PinWriteTold, PinsTold
<1>8. QED
  BY <1>2, <1>6, <1>7 DEF mcInv, PinsTold, PinAcceptsTold

\* An answer leaves the row and the action of the request as they are.
LEMMA PinAnswerKeeps ==
  ASSUME mcInv, NEW q \in mcRequests, NEW how \in {"ok", "failed"}, mcAnswer(q, how),
         mcTold' = mcTold
  PROVE  mcRequests' \subseteq PageRequest /\ PinAcceptsTold'
<1> DEFINE answered == [q EXCEPT !.answer = how]
<1>1. q \in PageRequest
  BY DEF mcInv, mcTypeOK
<1>2. answered \in PageRequest /\ answered.row = q.row /\ answered.action = q.action
  BY <1>1 DEF PageRequest
<1>3. mcRequests' = (mcRequests \ {q}) \cup {answered}
  BY DEF mcAnswer
<1>4. mcRequests' \subseteq PageRequest
  BY <1>2, <1>3 DEF mcInv, mcTypeOK
<1>5. ASSUME NEW p \in mcRequests', p.action = "accept"
      PROVE  p.row \in mcTold
  <2>1. CASE p \in mcRequests
    BY <1>5, <2>1 DEF mcInv, PinAcceptsTold
  <2>2. CASE p = answered
    BY <1>2, <1>5, <2>2 DEF mcInv, PinAcceptsTold
  <2>3. QED
    BY <1>3, <2>1, <2>2
<1>6. QED
  BY <1>4, <1>5 DEF PinAcceptsTold

LEMMA PinAcceptedKeeps ==
  ASSUME mcInv, mcpPinAccepted
  PROVE  mcInv'
<1>1. PICK w \in mcAccepting, q \in mcRequests :
        /\ mcPins' = WritePin(w.read, w.row)
        /\ \/ mcRows' = mcRows \ {w.row} /\ mcAsked' = mcAsked \ {w.row} /\ mcAnswer(q, "ok")
           \/ UNCHANGED <<mcRows, mcAsked>> /\ mcAnswer(q, "failed")
        /\ mcAccepting' = {} /\ UNCHANGED <<mcEval, mcTold>>
  BY DEF mcpPinAccepted
<1>2. mcPins' \in PinFile /\ PinsTold(mcPins')
  <2>1. w \in PinWrite /\ PinWriteTold(w)
    BY DEF mcInv, mcTypeOK, PinWritersTold
  <2>2. QED
    BY <1>1, <2>1, WrittenPinIsTold
<1>3. mcRequests' \subseteq PageRequest /\ PinAcceptsTold'
  <2>1. CASE mcAnswer(q, "ok")
    BY <1>1, <2>1, PinAnswerKeeps
  <2>2. CASE mcAnswer(q, "failed")
    BY <1>1, <2>2, PinAnswerKeeps
  <2>3. QED
    BY <1>1, <2>1, <2>2
<1>4. mcTypeOK' /\ PinsTold(mcPins)' /\ PinWritersTold'
  BY <1>1, <1>2, <1>3 DEF mcInv, mcTypeOK, PinsTold, PinWriteTold, PinWritersTold
<1>5. mcAsked' = mcRows'
  BY <1>1 DEF mcInv
<1>6. QED
  BY <1>3, <1>4, <1>5 DEF mcInv

LEMMA PinRefuseKeeps ==
  ASSUME mcInv, mcpPinRefuse
  PROVE  mcInv'
<1>1. PICK q \in mcRequests :
        /\ mcRows' = mcRows \ {q.row} /\ mcAsked' = mcAsked \ {q.row}
        /\ mcAnswer(q, "ok")
  BY DEF mcpPinRefuse
<1>2. UNCHANGED <<mcPins, mcEval, mcAccepting, mcTold>>
  BY DEF mcpPinRefuse
<1>3. mcRequests' \subseteq PageRequest /\ PinAcceptsTold'
  BY <1>1, <1>2, PinAnswerKeeps
<1>4. QED
  BY <1>1, <1>2, <1>3 DEF mcInv, mcTypeOK, PinsTold, PinWriteTold, PinWritersTold

\* The page tells a row before it sends its acceptance.
LEMMA PinActKeeps ==
  ASSUME mcInv, act
  PROVE  mcInv'
<1>1. PICK r \in mcRow, a \in {"accept", "refuse"} :
        /\ mcRequests' = mcRequests \cup {[action |-> a, row |-> r, answer |-> ""]}
        /\ mcTold' = IF a = "accept" THEN mcTold \cup {r} ELSE mcTold
  BY DEF act
<1>2. UNCHANGED <<mcPins, mcRows, mcEval, mcAccepting, mcAsked>>
  BY DEF act
<1>3. mcTold \subseteq mcTold' /\ mcTold' \subseteq mcRow
  BY <1>1 DEF mcInv, mcTypeOK
<1> DEFINE sent == [action |-> a, row |-> r, answer |-> ""]
<1>4. mcRequests' \subseteq PageRequest /\ PinAcceptsTold'
  <2>1. sent \in PageRequest /\ sent.action = a /\ sent.row = r
    BY DEF PageRequest
  <2>2. mcRequests' \subseteq PageRequest
    BY <1>1, <2>1 DEF mcInv, mcTypeOK
  <2>3. a = "accept" => r \in mcTold'
    BY <1>1
  <2>4. QED
    BY <1>1, <1>3, <2>1, <2>2, <2>3 DEF mcInv, PinAcceptsTold
<1>5. \A v : PinWriteTold(v) => PinWriteTold(v)'
  BY <1>3, PinsToldStay
<1>6. PinsTold(mcPins)' /\ PinWritersTold'
  BY <1>2, <1>3, <1>5 DEF mcInv, PinsTold, PinWritersTold
<1>7. QED
  BY <1>2, <1>3, <1>4, <1>6 DEF mcInv, mcTypeOK

\* The other steps of the page change what it shows.
LEMMA PinPageKeeps ==
  ASSUME mcInv, useMCPPins \/ Details \/ Acted \/ UNCHANGED mcVars
  PROVE  mcInv'
<1>1. /\ UNCHANGED <<mcPins, mcRows, mcEval, mcAccepting, mcTold, mcAsked>>
      /\ mcRequests' \subseteq mcRequests
  <2>1. CASE useMCPPins
    BY <2>1 DEF useMCPPins
  <2>2. CASE Details
    BY <2>2 DEF Details
  <2>3. CASE Acted
    BY <2>3 DEF Acted
  <2>4. CASE UNCHANGED mcVars
    BY <2>4 DEF mcVars
  <2>5. QED
    BY <2>1, <2>2, <2>3, <2>4
<1>2. QED
  BY <1>1 DEF mcInv, mcTypeOK, PinsTold, PinWriteTold, PinWritersTold, PinAcceptsTold

LEMMA PinsKeep == mcInv /\ [mcNext]_mcVars => mcInv'
<1> SUFFICES ASSUME mcInv, [mcNext]_mcVars PROVE mcInv'
  OBVIOUS
<1>1. CASE \E e \in mcEvaluator : Evaluate(e) \/ writePinStore(e)
  BY <1>1, PinEvaluateKeeps, PinWriteKeeps
<1>2. CASE mcpPinCheck
  BY <1>2, PinCheckKeeps
<1>3. CASE mcpPinAccept
  BY <1>3, PinAcceptKeeps
<1>4. CASE mcpPinAccepted
  BY <1>4, PinAcceptedKeeps
<1>5. CASE mcpPinRefuse
  BY <1>5, PinRefuseKeeps
<1>6. CASE act
  BY <1>6, PinActKeeps
<1>7. CASE useMCPPins \/ Details \/ Acted \/ UNCHANGED mcVars
  BY <1>7, PinPageKeeps
<1>8. QED
  BY <1>1, <1>2, <1>3, <1>4, <1>5, <1>6, <1>7 DEF mcNext

-----------------------------------------------------------------------------
\* However many evaluators, checks and answers write over each other, the pin
\* file holds no pin that no gate took for a server without one and no user
\* accepted, and no open question is lost (internal/policy/policy.go, api/mcp.go).
THEOREM PinsAlwaysHold == mcSpec => []PinsHold
<1>1. mcInit => mcInv
  BY PinsStart
<1>2. mcInv /\ [mcNext]_mcVars => mcInv'
  BY PinsKeep
<1>3. mcInv => PinsHold
  BY DEF mcInv, PinsTold, PinsHold, PinsAreTold, QuestionsStay
<1>4. QED
  BY <1>1, <1>2, <1>3, PTL DEF mcSpec

-----------------------------------------------------------------------------
(* REPAIRS, for any users, texts and number of other edits.  The comparison  *)
(* of the hashes and the edit are two steps, so a repair may land on a newer *)
(* policy; that a case is used once follows from the hash growing with every *)
(* edit.                                                                     *)

RepairUser == [at : {"idle", "case"} \cup Requests, case : Nat, text : Texts, asked : Texts, valid : BOOLEAN]

rpTypeOK ==
  /\ rpPolicy \in [hash : Nat \ {0}, rule : {"on", "off", "gone"}, added : SUBSET Texts]
  /\ rpUser \in [Repairer -> RepairUser]
  /\ rpApplied \subseteq [by : Repairer, text : Texts, case : Nat, hash : Nat]

\* What was validated or is being applied, user by user.
RepairWorks(u) == rpUser[u].at = "editing" => rpUser[u].asked \in Replacement
RepairSent(u) ==
  u # "web" =>
    /\ rpUser[u].at \in Requests => rpUser[u].asked = rpUser[u].text
    /\ rpUser[u].at \in {"checking", "editing"} => rpUser[u].valid

\* A case that was applied is older than the policy, and nobody is about to
\* apply one again.
CaseFresh(u) ==
  /\ rpUser[u].case <= rpPolicy.hash
  /\ rpUser[u].at = "editing" => \A a \in rpApplied : a.by = u => a.case # rpUser[u].case
CasesSpent ==
  /\ \A a \in rpApplied : a.case < rpPolicy.hash
  /\ \A a, b \in rpApplied : a.by = b.by /\ a.case = b.case => a = b

RepairersOK == \A u \in Repairer : RepairWorks(u) /\ RepairSent(u) /\ CaseFresh(u)

rpInv == rpTypeOK /\ NoRuleWithoutReplacement /\ OnlyWorkingReplacements /\ RepairersOK /\ CasesSpent

-----------------------------------------------------------------------------
LEMMA RepairsStart == rpInit => rpInv
<1> SUFFICES ASSUME rpInit PROVE rpInv
  OBVIOUS
<1>1. rpIdle \in RepairUser /\ rpIdle.at = "idle" /\ rpIdle.case = 0
  BY DEF rpIdle, RepairUser, Texts
<1>2. rpTypeOK
  BY <1>1 DEF rpInit, rpTypeOK
<1>3. \A u \in Repairer : rpUser[u] = rpIdle
  BY DEF rpInit
<1>4. RepairersOK /\ CasesSpent
  BY <1>1, <1>3 DEF rpInit, RepairersOK, RepairWorks, RepairSent, CaseFresh, CasesSpent, Requests
<1>5. QED
  BY <1>2, <1>4 DEF rpInit, rpInv, NoRuleWithoutReplacement, OnlyWorkingReplacements

-----------------------------------------------------------------------------
(* Steps that leave the policy alone. *)

\* One user moves; all that has to be shown is about this user.
LEMMA OneRepairerMoves ==
  ASSUME rpInv, NEW u \in Repairer, NEW v \in RepairUser,
         rpUser' = [rpUser EXCEPT ![u] = v], UNCHANGED <<rpPolicy, rpApplied>>,
         v.at = "editing" => v.asked \in Replacement,
         u # "web" => /\ v.at \in Requests => v.asked = v.text
                      /\ v.at \in {"checking", "editing"} => v.valid,
         v.case <= rpPolicy.hash,
         v.at = "editing" => \A a \in rpApplied : a.by = u => a.case # v.case
  PROVE  rpInv'
<1>1. rpUser' \in [Repairer -> RepairUser] /\ rpUser'[u] = v
      /\ \A w \in Repairer \ {u} : rpUser'[w] = rpUser[w]
  BY DEF rpInv, rpTypeOK
<1>2. rpTypeOK'
  BY <1>1 DEF rpInv, rpTypeOK
<1>3. ASSUME NEW w \in Repairer
      PROVE  (RepairWorks(w) /\ RepairSent(w) /\ CaseFresh(w))'
  <2>1. CASE w = u
    BY <1>1, <2>1 DEF RepairWorks, RepairSent, CaseFresh
  <2>2. CASE w # u
    BY <1>1, <2>2 DEF rpInv, RepairersOK, RepairWorks, RepairSent, CaseFresh
  <2>3. QED
    BY <2>1, <2>2
<1>4. QED
  BY <1>2, <1>3 DEF rpInv, RepairersOK, CasesSpent, NoRuleWithoutReplacement, OnlyWorkingReplacements

LEMMA RepairerType ==
  ASSUME rpInv, NEW u \in Repairer
  PROVE  rpUser[u] \in RepairUser /\ RepairWorks(u) /\ RepairSent(u) /\ CaseFresh(u) /\ rpPolicy.hash \in Nat
BY DEF rpInv, rpTypeOK, RepairersOK

LEMMA LoadCaseKeeps ==
  ASSUME rpInv, NEW u \in Repairer, LoadCase(u)
  PROVE  rpInv'
<1> DEFINE v == [rpIdle EXCEPT !.at = "case", !.case = rpPolicy.hash]
<1>1. v \in RepairUser /\ v.at = "case" /\ v.case = rpPolicy.hash
  BY RepairerType DEF rpIdle, RepairUser, Texts
<1>2. rpUser' = [rpUser EXCEPT ![u] = v] /\ UNCHANGED <<rpPolicy, rpApplied>>
  BY DEF LoadCase
<1>3. v.at # "editing" /\ v.at \notin Requests /\ v.case <= rpPolicy.hash
  BY <1>1, RepairerType DEF Requests
<1> HIDE DEF v
<1>4. QED
  BY <1>1, <1>2, <1>3, OneRepairerMoves

LEMMA EditTextKeeps ==
  ASSUME rpInv, NEW u \in Repairer, EditText(u)
  PROVE  rpInv'
<1>1. PICK t \in Texts : rpUser' = [rpUser EXCEPT ![u].text = t, ![u].valid = FALSE]
  BY DEF EditText
<1> DEFINE v == [rpUser[u] EXCEPT !.text = t, !.valid = FALSE]
<1>2. rpUser' = [rpUser EXCEPT ![u] = v]
  BY <1>1 DEF rpInv, rpTypeOK
<1>3. /\ v \in RepairUser /\ v.at = rpUser[u].at /\ v.asked = rpUser[u].asked
      /\ v.case = rpUser[u].case
  BY RepairerType DEF RepairUser
<1>4. u # "web" => v.at = "case"
  BY <1>3 DEF EditText
<1>5. UNCHANGED <<rpPolicy, rpApplied>>
  BY DEF EditText
<1>6. QED
  BY <1>2, <1>3, <1>4, <1>5, OneRepairerMoves, RepairerType DEF RepairWorks, CaseFresh, Requests

LEMMA RepairValidateKeeps ==
  ASSUME rpInv, NEW u \in Repairer, Validate(u)
  PROVE  rpInv'
<1> DEFINE v == [rpUser[u] EXCEPT !.at = "validating", !.asked = rpUser[u].text]
<1>1. rpUser' = [rpUser EXCEPT ![u] = v] /\ UNCHANGED <<rpPolicy, rpApplied>>
  BY DEF Validate, rpInv, rpTypeOK
<1>2. /\ v \in RepairUser /\ v.at = "validating" /\ v.asked = v.text /\ v.case = rpUser[u].case
  BY RepairerType DEF RepairUser, Requests
<1>3. v.case <= rpPolicy.hash
  BY <1>2, RepairerType DEF CaseFresh
<1> HIDE DEF v
<1>4. QED
  BY <1>1, <1>2, <1>3, OneRepairerMoves

LEMMA RepairValidatedKeeps ==
  ASSUME rpInv, NEW u \in Repairer, Validated(u)
  PROVE  rpInv'
<1> DEFINE ok == rpUser[u].asked \in Replacement
           to == IF ok /\ u # "web" THEN "checking" ELSE IF u = "tui" THEN "idle" ELSE "case"
           v == [rpUser[u] EXCEPT !.valid = ok, !.at = to]
<1>1. rpUser' = [rpUser EXCEPT ![u] = v] /\ UNCHANGED <<rpPolicy, rpApplied>>
  BY DEF Validated, rpInv, rpTypeOK
<1>2. ok \in BOOLEAN /\ to \in {"idle", "case", "checking"} /\ (to = "checking" => ok)
  OBVIOUS
<1>3. /\ v \in RepairUser /\ v.at = to /\ v.valid = ok /\ v.case = rpUser[u].case
      /\ v.asked = rpUser[u].asked /\ v.text = rpUser[u].text
  BY <1>2, RepairerType DEF RepairUser, Requests
<1>4. u # "web" => v.asked = v.text
  BY <1>3, RepairerType DEF Validated, RepairSent, Requests
<1>5. v.case <= rpPolicy.hash
  BY <1>3, RepairerType DEF CaseFresh
<1> HIDE DEF v, to, ok
<1>6. QED
  BY <1>1, <1>2, <1>3, <1>4, <1>5, OneRepairerMoves

LEMMA ApplyButtonKeeps ==
  ASSUME rpInv, NEW u \in Repairer, ApplyButton(u)
  PROVE  rpInv'
<1> DEFINE v == [rpUser[u] EXCEPT !.at = "checking", !.asked = rpUser[u].text]
<1>1. rpUser' = [rpUser EXCEPT ![u] = v] /\ u = "web" /\ UNCHANGED <<rpPolicy, rpApplied>>
  BY DEF ApplyButton, rpInv, rpTypeOK
<1>2. v \in RepairUser /\ v.at = "checking" /\ v.case = rpUser[u].case
  BY RepairerType DEF RepairUser, Requests
<1>3. v.case <= rpPolicy.hash
  BY <1>2, RepairerType DEF CaseFresh
<1> HIDE DEF v
<1>4. QED
  BY <1>1, <1>2, <1>3, OneRepairerMoves

\* A request that ends leaves the user before or at a case.
LEMMA RepairRequestEndsKeeps ==
  ASSUME rpInv, NEW u \in Repairer, RequestEnds(u), UNCHANGED <<rpPolicy, rpApplied>>
  PROVE  rpInv'
<1> DEFINE to == IF u = "tui" THEN "idle" ELSE "case"
           v == [rpUser[u] EXCEPT !.at = to]
<1>1. rpUser' = [rpUser EXCEPT ![u] = v]
  BY DEF RequestEnds, rpGoes, rpInv, rpTypeOK
<1>2. v \in RepairUser /\ v.at \notin Requests /\ v.case = rpUser[u].case
  BY RepairerType DEF RepairUser, Requests
<1>3. v.case <= rpPolicy.hash /\ v.at # "editing" /\ v.at # "checking"
  BY <1>2, RepairerType DEF CaseFresh, Requests
<1> HIDE DEF v
<1>4. QED
  BY <1>1, <1>2, <1>3, OneRepairerMoves

\* The comparison: the case is the policy's, so it is not spent.
LEMMA RepairCheckKeeps ==
  ASSUME rpInv, NEW u \in Repairer, checkRepair(u)
  PROVE  rpInv'
<1>1. CASE rpUser[u].asked \in Replacement /\ rpUser[u].case = rpPolicy.hash
  <2> DEFINE v == [rpUser[u] EXCEPT !.at = "editing"]
  <2>1. rpUser' = [rpUser EXCEPT ![u] = v] /\ UNCHANGED <<rpPolicy, rpApplied>>
    BY <1>1 DEF checkRepair, rpGoes, rpInv, rpTypeOK
  <2>2. /\ v \in RepairUser /\ v.at = "editing" /\ v.case = rpUser[u].case
        /\ v.asked = rpUser[u].asked /\ v.text = rpUser[u].text /\ v.valid = rpUser[u].valid
    BY RepairerType DEF RepairUser, Requests
  <2>3. u # "web" => v.asked = v.text /\ v.valid
    BY <2>2, RepairerType DEF checkRepair, RepairSent, Requests
  <2>4. v.case <= rpPolicy.hash /\ \A a \in rpApplied : a.case # v.case
    BY <1>1, <2>2, RepairerType DEF rpInv, rpTypeOK, CasesSpent
  <2> HIDE DEF v
  <2>5. QED
    BY <1>1, <2>1, <2>2, <2>3, <2>4, OneRepairerMoves
<1>2. CASE ~(rpUser[u].asked \in Replacement /\ rpUser[u].case = rpPolicy.hash)
  BY <1>2, RepairRequestEndsKeeps DEF checkRepair
<1>3. QED
  BY <1>1, <1>2

LEMMA LostRepairKeeps ==
  ASSUME rpInv, NEW u \in Repairer, Lost(u)
  PROVE  rpInv'
BY RepairRequestEndsKeeps DEF Lost

-----------------------------------------------------------------------------
(* Steps that edit the policy. *)

\* The repair is recorded with the case of its user, which nobody else's record
\* of the same case is, and all cases are older than the new policy.
LEMMA RepairKeeps ==
  ASSUME rpInv, NEW u \in Repairer, ApplyRepair(u),
         ~(rpPolicy.rule = "gone" \/ rpUser[u].asked \in rpPolicy.added)
  PROVE  rpInv'
<1> DEFINE t == rpUser[u].asked
           record == [by |-> u, text |-> t, case |-> rpUser[u].case, hash |-> rpPolicy.hash]
           to == IF u = "tui" THEN "idle" ELSE "case"
<1>1. /\ rpUser[u].at = "editing"
      /\ rpPolicy' = [hash |-> rpPolicy.hash + 1, rule |-> "off", added |-> rpPolicy.added \cup {t}]
      /\ rpApplied' = rpApplied \cup {record}
      /\ rpUser' = [rpUser EXCEPT ![u].at = to]
  BY DEF ApplyRepair, RequestEnds, rpGoes
<1>2. /\ rpUser[u] \in RepairUser /\ rpUser \in [Repairer -> RepairUser] /\ rpPolicy.hash \in Nat \ {0}
      /\ rpPolicy.added \subseteq Texts
  BY DEF rpInv, rpTypeOK
<1>3. t \in Replacement /\ t \in Texts
  BY <1>1, <1>2 DEF rpInv, RepairersOK, RepairWorks, RepairUser
<1>4. /\ rpUser'[u] \in RepairUser /\ rpUser'[u].at = to /\ rpUser'[u].case = rpUser[u].case
      /\ to \notin Requests /\ to \in {"idle", "case"}
      /\ \A w \in Repairer \ {u} : rpUser'[w] = rpUser[w]
      /\ rpUser' \in [Repairer -> RepairUser]
  BY <1>1, <1>2 DEF RepairUser, Requests
<1>5. /\ rpPolicy'.hash = rpPolicy.hash + 1 /\ rpPolicy'.rule = "off"
      /\ rpPolicy'.added = rpPolicy.added \cup {t}
  BY <1>1
<1>6. record.by = u /\ record.case = rpUser[u].case
  OBVIOUS
<1>7. rpTypeOK'
  <2>1. record \in [by : Repairer, text : Texts, case : Nat, hash : Nat]
    BY <1>2, <1>3 DEF RepairUser
  <2>2. rpPolicy' \in [hash : Nat \ {0}, rule : {"on", "off", "gone"}, added : SUBSET Texts]
    BY <1>1, <1>2, <1>3
  <2>3. QED
    BY <1>1, <1>4, <2>1, <2>2 DEF rpInv, rpTypeOK
<1>8. (NoRuleWithoutReplacement /\ OnlyWorkingReplacements)'
  BY <1>3, <1>5 DEF rpInv, NoRuleWithoutReplacement, OnlyWorkingReplacements
<1>9. ASSUME NEW w \in Repairer
      PROVE  (RepairWorks(w) /\ RepairSent(w) /\ CaseFresh(w))'
  <2>1. rpUser[w].case \in Nat /\ rpUser[w].case <= rpPolicy.hash
    BY <1>2, RepairerType DEF RepairUser, CaseFresh
  <2>2. CASE w = u
    BY <1>2, <1>4, <1>5, <2>1, <2>2 DEF RepairWorks, RepairSent, CaseFresh, Requests
  <2>3. CASE w # u
    <3>1. RepairWorks(w)' /\ RepairSent(w)'
      BY <1>4, <2>3 DEF rpInv, RepairersOK, RepairWorks, RepairSent
    <3>2. rpUser'[w] = rpUser[w] /\ rpUser[w].case <= rpPolicy'.hash
      BY <1>2, <1>4, <1>5, <2>1, <2>3
    <3>3. rpUser[w].at = "editing" => \A a \in rpApplied' : a.by = w => a.case # rpUser[w].case
      BY <1>1, <1>6, <2>3 DEF rpInv, RepairersOK, CaseFresh
    <3>4. QED
      BY <3>1, <3>2, <3>3 DEF CaseFresh
  <2>4. QED
    BY <2>2, <2>3
<1>10. CasesSpent'
  <2>1. \A a \in rpApplied : a.case \in Nat /\ a.case < rpPolicy.hash
    BY DEF rpInv, rpTypeOK, CasesSpent
  <2>2. rpUser[u].case \in Nat /\ rpUser[u].case <= rpPolicy.hash
    BY <1>2, RepairerType DEF RepairUser, CaseFresh
  <2>3. \A a \in rpApplied' : a.case < rpPolicy'.hash
    BY <1>1, <1>2, <1>5, <1>6, <2>1, <2>2
  <2>4. \A a \in rpApplied : a.by = u => a.case # rpUser[u].case
    BY <1>1 DEF rpInv, RepairersOK, CaseFresh
  <2>5. \A a, b \in rpApplied' : a.by = b.by /\ a.case = b.case => a = b
    BY <1>1, <1>6, <2>4 DEF rpInv, CasesSpent
  <2>6. QED
    BY <2>3, <2>5 DEF CasesSpent
<1>11. QED
  BY <1>7, <1>8, <1>9, <1>10 DEF rpInv, RepairersOK

LEMMA RepairApplyKeeps ==
  ASSUME rpInv, NEW u \in Repairer, ApplyRepair(u)
  PROVE  rpInv'
<1>1. CASE rpPolicy.rule = "gone" \/ rpUser[u].asked \in rpPolicy.added
  BY <1>1, RepairRequestEndsKeeps DEF ApplyRepair
<1>2. QED
  BY <1>1, RepairKeeps

LEMMA RepairOtherEditKeeps ==
  ASSUME rpInv, OtherEdit
  PROVE  rpInv'
<1>1. PICK r \in {rpPolicy.rule, "gone"} : rpPolicy' = [rpPolicy EXCEPT !.hash = @ + 1, !.rule = r]
  BY DEF OtherEdit
<1>2. UNCHANGED <<rpUser, rpApplied>>
  BY DEF OtherEdit
<1>3. rpPolicy \in [hash : Nat \ {0}, rule : {"on", "off", "gone"}, added : SUBSET Texts]
  BY DEF rpInv, rpTypeOK
<1>4. /\ rpPolicy' \in [hash : Nat \ {0}, rule : {"on", "off", "gone"}, added : SUBSET Texts]
      /\ rpPolicy'.hash = rpPolicy.hash + 1 /\ rpPolicy'.rule = r /\ rpPolicy'.added = rpPolicy.added
      /\ rpPolicy.hash \in Nat
  <2>1. rpPolicy.hash \in Nat /\ rpPolicy.rule \in {"on", "off", "gone"} /\ rpPolicy.added \subseteq Texts
    BY <1>3
  <2>2. r \in {"on", "off", "gone"}
    BY <2>1
  <2>3. rpPolicy' = [hash |-> rpPolicy.hash + 1, rule |-> r, added |-> rpPolicy.added]
    BY <1>1, <1>3
  <2>4. QED
    BY <2>1, <2>2, <2>3
<1>5. (NoRuleWithoutReplacement /\ OnlyWorkingReplacements)'
  BY <1>4 DEF rpInv, NoRuleWithoutReplacement, OnlyWorkingReplacements
<1>6. rpTypeOK'
  BY <1>2, <1>4 DEF rpInv, rpTypeOK
<1>7. ASSUME NEW w \in Repairer
      PROVE  (RepairWorks(w) /\ RepairSent(w) /\ CaseFresh(w))'
  <2>1. rpUser[w].case \in Nat /\ rpUser[w].case <= rpPolicy.hash
    BY RepairerType DEF RepairUser, CaseFresh
  <2>2. QED
    BY <1>2, <1>4, <2>1 DEF rpInv, RepairersOK, RepairWorks, RepairSent, CaseFresh
<1>8. CasesSpent'
  <2>1. \A a \in rpApplied : a.case \in Nat /\ a.case < rpPolicy.hash
    BY DEF rpInv, rpTypeOK, CasesSpent
  <2>2. QED
    BY <1>2, <1>4, <2>1 DEF rpInv, CasesSpent
<1>9. QED
  BY <1>5, <1>6, <1>7, <1>8 DEF rpInv, RepairersOK

-----------------------------------------------------------------------------
LEMMA RepairsKeep == rpInv /\ [rpNext]_rpVars => rpInv'
<1> SUFFICES ASSUME rpInv, [rpNext]_rpVars PROVE rpInv'
  OBVIOUS
<1>1. CASE UNCHANGED rpVars
  BY <1>1 DEF rpVars, rpInv, rpTypeOK, NoRuleWithoutReplacement, OnlyWorkingReplacements, RepairersOK,
              RepairWorks, RepairSent, CaseFresh, CasesSpent
<1>2. CASE OtherEdit
  BY <1>2, RepairOtherEditKeeps
<1>3. ASSUME NEW u \in Repairer,
             \/ LoadCase(u) \/ EditText(u) \/ Validate(u) \/ Validated(u) \/ ApplyButton(u)
             \/ checkRepair(u) \/ ApplyRepair(u) \/ Lost(u)
      PROVE  rpInv'
  BY <1>3, LoadCaseKeeps, EditTextKeeps, RepairValidateKeeps, RepairValidatedKeeps, ApplyButtonKeeps,
     RepairCheckKeeps, RepairApplyKeeps, LostRepairKeeps
<1>4. QED
  BY <1>1, <1>2, <1>3 DEF rpNext

\* Whoever repairs at the same time, loses answers or edits the policy in between:
\* a rule is off only next to a replacement that works, the CLI and the terminal
\* dashboard apply what was validated, and no case is applied twice by the same
\* user (falsePositiveApplyHandler and its three clients).
THEOREM RepairsAlwaysHold == rpSpec => []RepairHolds
<1>1. rpInit => rpInv
  BY RepairsStart
<1>2. rpInv /\ [rpNext]_rpVars => rpInv'
  BY RepairsKeep
<1>3. rpInv => RepairHolds
  BY DEF rpInv, RepairersOK, RepairSent, CasesSpent, RepairHolds, AppliedWasValidated, Requests
<1>4. QED
  BY <1>1, <1>2, <1>3, PTL DEF rpSpec

-----------------------------------------------------------------------------
(* LOGIN, for any clients and any number of tokens.  One user at most is a   *)
(* fact about a race: a bootstrap may be admitted when there are no users    *)
(* and get to the mutex when there is one.  That the client reports the      *)
(* truth is a fact about its table of calls.                                 *)

\* The memory is ahead of the file, never behind it, and never by a user who
\* was reported as created.
FirstUserOK ==
  /\ lgUsers = {} \/ \E c \in Client : lgUsers = {c}
  /\ lgDisk \subseteq lgUsers
  /\ lgCreated \subseteq lgDisk

lgInv == FirstUserOK /\ ReportsAreTrue

-----------------------------------------------------------------------------
(* The table of calls. *)

\* What a daemon may answer to a request that it did not carry out.
Refusals == {401, 409, 500}
CallTruthful(fn) == fn.status \subseteq fn.accepts /\ fn.accepts \cap Refusals = {}

LEMMA TailTruthful ==
  ASSUME NEW f \in DOMAIN TailCalls
  PROVE  CallTruthful(TailCalls[f])
BY DEF TailCalls, CallTruthful, Fn, Success, Refusals

LEMMA AuthTruthful ==
  ASSUME NEW f \in DOMAIN AuthCalls, f # "authLogout"
  PROVE  CallTruthful(AuthCalls[f])
<1> DEFINE names == {"authMode", "authLogin", "authBootstrap", "authLogout", "health"}
<1>1. f \in names
  BY DEF AuthCalls
<1>2. CASE f = "authBootstrap"
  BY <1>1, <1>2 DEF AuthCalls, CallTruthful, Fn, Success, Refusals
<1>3. CASE f # "authBootstrap"
  BY <1>1, <1>3 DEF AuthCalls, CallTruthful, Fn, Success, Refusals
<1>4. QED
  BY <1>2, <1>3

LEMMA SessionTruthful ==
  ASSUME NEW f \in DOMAIN SessionCalls
  PROVE  CallTruthful(SessionCalls[f])
BY DEF SessionCalls, CallTruthful, Fn, Success, Refusals

LEMMA InstallTruthful ==
  ASSUME NEW f \in DOMAIN InstallCalls
  PROVE  CallTruthful(InstallCalls[f])
BY DEF InstallCalls, CallTruthful, Fn, Success, Refusals

LEMMA PolicyTruthful ==
  ASSUME NEW f \in DOMAIN PolicyCalls
  PROVE  CallTruthful(PolicyCalls[f])
BY DEF PolicyCalls, CallTruthful, Fn, Success, Refusals

LEMMA ReportTruthful ==
  ASSUME NEW f \in DOMAIN ReportCalls
  PROVE  CallTruthful(ReportCalls[f])
BY DEF ReportCalls, CallTruthful, Fn, Success, Refusals

\* Every entry of the table comes from one of the six.
LEMMA CallsTruthful ==
  ASSUME NEW f \in DOMAIN apiClient, f # "authLogout"
  PROVE  CallTruthful(apiClient[f])
<1> DEFINE tables == <<TailCalls, AuthCalls, SessionCalls, InstallCalls, PolicyCalls, ReportCalls>>
           In == CHOOSE i \in DOMAIN tables : f \in DOMAIN tables[i]
<1>1. DOMAIN tables = 1 .. 6
  OBVIOUS
<1>2. \E i \in DOMAIN tables : f \in DOMAIN tables[i]
  BY DEF apiClient
<1>3. In \in 1 .. 6 /\ f \in DOMAIN tables[In]
  BY <1>1, <1>2
<1>4. apiClient[f] = tables[In][f]
  BY DEF apiClient
<1>5. /\ tables[1] = TailCalls /\ tables[2] = AuthCalls /\ tables[3] = SessionCalls
      /\ tables[4] = InstallCalls /\ tables[5] = PolicyCalls /\ tables[6] = ReportCalls
  OBVIOUS
<1> HIDE DEF tables, In
<1>6. tables[In] \in {TailCalls, AuthCalls, SessionCalls, InstallCalls, PolicyCalls, ReportCalls}
  BY <1>3, <1>5
<1>7. CallTruthful(tables[In][f])
  <2>1. CASE tables[In] = TailCalls
    BY <1>3, <2>1, TailTruthful
  <2>2. CASE tables[In] = AuthCalls
    BY <1>3, <2>2, AuthTruthful
  <2>3. CASE tables[In] = SessionCalls
    BY <1>3, <2>3, SessionTruthful
  <2>4. CASE tables[In] = InstallCalls
    BY <1>3, <2>4, InstallTruthful
  <2>5. CASE tables[In] = PolicyCalls
    BY <1>3, <2>5, PolicyTruthful
  <2>6. CASE tables[In] = ReportCalls
    BY <1>3, <2>6, ReportTruthful
  <2>7. QED
    BY <1>6, <2>1, <2>2, <2>3, <2>4, <2>5, <2>6
<1>8. QED
  BY <1>4, <1>7

-----------------------------------------------------------------------------
LEMMA LoginsStart == lgInit => lgInv
BY DEF lgInit, lgInv, FirstUserOK, ReportsAreTrue

\* A call is done exactly when its status says so, and refused without a token.
LEMMA ClientCallKeeps ==
  ASSUME lgInv, NEW c \in Client, ClientCalls(c)
  PROVE  lgInv'
<1>1. PICK f \in DOMAIN apiClient \ {"authLogin", "authBootstrap", "authLogout"} :
        LET admitted == Admits(f, lgClients[c].token) IN
        \E status \in IF admitted THEN apiClient[f].status \cup {409, 500} ELSE {401} :
          lgLast' = [admitted |-> admitted, done |-> status \in apiClient[f].status,
                     reported |-> status \in apiClient[f].accepts]
  BY DEF ClientCalls
<1> DEFINE admitted == Admits(f, lgClients[c].token)
<1>2. PICK status \in IF admitted THEN apiClient[f].status \cup {409, 500} ELSE {401} :
        lgLast' = [admitted |-> admitted, done |-> status \in apiClient[f].status,
                   reported |-> status \in apiClient[f].accepts]
  BY <1>1
<1>3. CallTruthful(apiClient[f])
  BY CallsTruthful
<1>4. status \in apiClient[f].status <=> status \in apiClient[f].accepts
  BY <1>2, <1>3 DEF CallTruthful, Refusals
<1>5. status \in apiClient[f].status => admitted
  BY <1>2, <1>3 DEF CallTruthful, Refusals
<1> HIDE DEF admitted
<1>6. ReportsAreTrue'
  BY <1>2, <1>4, <1>5 DEF ReportsAreTrue
<1>7. FirstUserOK'
  BY DEF ClientCalls, lgInv, FirstUserOK
<1>8. QED
  BY <1>6, <1>7 DEF lgInv

\* Under the mutex there is a first user or there is none.
LEMMA BootstrapKeeps ==
  ASSUME lgInv, NEW c \in Client, authBootstrapHandler(c), QuietCall
  PROVE  lgInv'
<1>1. ReportsAreTrue'
  BY DEF lgInv, ReportsAreTrue, QuietCall
<1>2. ASSUME UNCHANGED <<lgUsers, lgDisk, lgCreated>>
      PROVE  FirstUserOK'
  BY <1>2 DEF lgInv, FirstUserOK
<1>3. ASSUME lgUsers = {}, lgUsers' = {c}, lgDisk' = {c}, lgCreated' = lgCreated \cup {c}
      PROVE  FirstUserOK'
  BY <1>3 DEF lgInv, FirstUserOK
<1>4. ASSUME lgUsers = {}, lgUsers' = {c}, UNCHANGED <<lgDisk, lgCreated>>
      PROVE  FirstUserOK'
  BY <1>4 DEF lgInv, FirstUserOK
<1>5. FirstUserOK'
  BY <1>2, <1>3, <1>4 DEF authBootstrapHandler
<1>6. QED
  BY <1>1, <1>5 DEF lgInv

LEMMA LoginRestartKeeps ==
  ASSUME lgInv, DaemonRestarts
  PROVE  lgInv'
<1>1. lgUsers' = lgDisk /\ UNCHANGED <<lgDisk, lgCreated, lgLast>>
  BY DEF DaemonRestarts, QuietCall
<1>2. lgDisk = {} \/ \E c \in Client : lgDisk = {c}
  BY DEF lgInv, FirstUserOK
<1>3. QED
  BY <1>1, <1>2 DEF lgInv, FirstUserOK, ReportsAreTrue

LEMMA LoginsKeep == lgInv /\ [lgNextStep]_lgVars => lgInv'
<1> SUFFICES ASSUME lgInv, [lgNextStep]_lgVars PROVE lgInv'
  OBVIOUS
<1>1. ASSUME UNCHANGED <<lgUsers, lgDisk, lgCreated, lgLast>>
      PROVE  lgInv'
  BY <1>1 DEF lgInv, FirstUserOK, ReportsAreTrue
<1>2. CASE TokenExpires \/ UNCHANGED lgVars
  BY <1>1, <1>2 DEF TokenExpires, QuietCall, lgVars
<1>3. CASE DaemonRestarts
  BY <1>3, LoginRestartKeeps
<1>4. ASSUME NEW c \in Client, ClientCalls(c)
      PROVE  lgInv'
  BY <1>4, ClientCallKeeps
<1>5. ASSUME NEW c \in Client,
             \/ authLoginHandler(c) \/ authLogout(c) \/ runLogin(c) \/ runDashboard(c)
             \/ ClientEnds(c)
      PROVE  lgInv'
  BY <1>1, <1>5 DEF authLoginHandler, authLogout, runLogin, runDashboard, ClientEnds, QuietCall
<1>6. ASSUME NEW c \in Client, authBootstrapHandler(c), QuietCall
      PROVE  lgInv'
  BY <1>6, BootstrapKeeps
<1>7. QED
  BY <1>2, <1>3, <1>4, <1>5, <1>6 DEF lgNextStep

-----------------------------------------------------------------------------
\* However many clients bootstrap and whenever the daemon restarts, there is one
\* first user at most, in memory and in the file, and every function of the client
\* reports what the daemon has done (Bootstrap, load, Middleware, api.ts).
THEOREM LoginAlwaysHolds == lgSpec => []LoginHolds
<1>1. lgInit => lgInv
  BY LoginsStart
<1>2. lgInv /\ [lgNextStep]_lgVars => lgInv'
  BY LoginsKeep
<1>3. lgInv => LoginHolds
  <2> SUFFICES ASSUME lgInv PROVE LoginHolds
    OBVIOUS
  <2>1. IsFiniteSet(lgUsers) /\ Cardinality(lgUsers) <= 1
    <3>1. CASE lgUsers = {}
      BY <3>1, FS_EmptySet
    <3>2. ASSUME NEW c \in Client, lgUsers = {c}
          PROVE  IsFiniteSet(lgUsers) /\ Cardinality(lgUsers) <= 1
      BY <3>2, FS_Singleton
    <3>3. QED
      BY <3>1, <3>2 DEF lgInv, FirstUserOK
  <2>2. Cardinality(lgDisk) <= 1
    <3>1. lgDisk \subseteq lgUsers
      BY DEF lgInv, FirstUserOK
    <3>2. /\ IsFiniteSet(lgDisk) /\ Cardinality(lgDisk) <= Cardinality(lgUsers)
      BY <2>1, <3>1, FS_Subset
    <3>3. Cardinality(lgUsers) \in Nat /\ Cardinality(lgDisk) \in Nat
      BY <2>1, <3>2, FS_CardinalityType
    <3>4. QED
      BY <2>1, <3>2, <3>3
  <2>3. QED
    BY <2>1, <2>2 DEF lgInv, FirstUserOK, LoginHolds, OneFirstUser
<1>4. QED
  BY <1>1, <1>2, <1>3, PTL DEF lgSpec

-----------------------------------------------------------------------------
(* HOOK SHIMS, for any number of shims at a call.  What a shim exits with is *)
(* a fact about its table; that the denial was written down is one about the *)
(* order of the daemon's steps.                                              *)

ShimExit == [code : {0, 2}, says : {"", "allow", "deny"}]
\* The daemon never answers "ask".
Heard == Reply \ {"ask"}
ShimProcess ==
  [harness : DOMAIN Shim, event : CursorEvent, stdin : {"event", "empty", "invalid"},
   pc : {"read", "posted", "answering", "answered", "done"},
   route : DOMAIN Shim \ {"codex-auto"}, reply : Heard, exit : ShimExit]

DeniesAs(exit, reply) ==
  /\ exit.code = 2 <=> exit.says = "deny"
  /\ exit.code = 2 <=> reply = "deny"

ShimOK(s) ==
  /\ s.event \in Shim[s.harness].events
  /\ s.pc \in {"read", "posted"} => s.reply = "none"
  /\ s.reply = "deny" => [event |-> s.event, verdict |-> "deny"] \in hkRecorded
  /\ s.pc = "done" => DeniesAs(s.exit, s.reply)

hkInv == hkShims \subseteq ShimProcess /\ \A s \in hkShims : ShimOK(s)

LEMMA ExitsSound ==
  ASSUME NEW r
  PROVE  /\ r = "deny" => Exits(2, "deny") \in ShimExit /\ DeniesAs(Exits(2, "deny"), r)
         /\ r # "deny" => \A says \in {"", "allow"} :
              Exits(0, says) \in ShimExit /\ DeniesAs(Exits(0, says), r)
<1>1. 0 # 2
  OBVIOUS
<1>2. ASSUME NEW says \in {"", "allow"}
      PROVE  /\ Exits(0, says) \in ShimExit /\ says # "deny"
             /\ Exits(0, says).code = 0 /\ Exits(0, says).says = says
  BY Zenon DEF Exits, ShimExit
<1>3. /\ Exits(2, "deny") \in ShimExit
      /\ Exits(2, "deny").code = 2 /\ Exits(2, "deny").says = "deny"
  BY Zenon DEF Exits, ShimExit
<1>4. ASSUME r = "deny" PROVE DeniesAs(Exits(2, "deny"), r)
  BY <1>3, <1>4, Zenon DEF DeniesAs
<1>5. ASSUME NEW says \in {"", "allow"}, r # "deny" PROVE DeniesAs(Exits(0, says), r)
  BY <1>1, <1>2, <1>5, Zenon DEF DeniesAs
<1>6. QED
  BY <1>2, <1>3, <1>4, <1>5, Zenon

\* What every table has.
ShimSound(shim) ==
  /\ \A r \in Heard : shim.exit[r] \in ShimExit /\ DeniesAs(shim.exit[r], r)
  /\ Event \subseteq shim.events

LEMMA ShimTables ==
  ASSUME NEW h \in DOMAIN Shim
  PROVE  ShimSound(Shim[h]) /\ (h = "cursor" => Shim[h].events = CursorEvent)
<1>1. DOMAIN Shim = {"claude-code", "codex", "codex-desktop", "codex-auto", "cursor", "gemini"}
  BY DEF Shim
<1>2. ASSUME NEW r \in Heard, NEW shim,
             shim.exit = [s \in Reply |-> IF s = "deny" THEN Exits(2, "deny") ELSE Exits(0, "")]
      PROVE  shim.exit[r] \in ShimExit /\ DeniesAs(shim.exit[r], r)
  <2>1. r \in Reply /\ shim.exit[r] = IF r = "deny" THEN Exits(2, "deny") ELSE Exits(0, "")
    BY <1>2 DEF Heard
  <2>2. QED
    BY <2>1, ExitsSound
<1>3. ASSUME NEW r \in Heard
      PROVE  CursorShim.exit[r] \in ShimExit /\ DeniesAs(CursorShim.exit[r], r)
  <2>1. r \in Reply /\ r # "ask"
    BY DEF Heard
  <2>2. \/ r = "deny" /\ CursorShim.exit[r] = Exits(2, "deny")
        \/ r # "deny" /\ CursorShim.exit[r] = Exits(0, "allow")
        \/ r # "deny" /\ CursorShim.exit[r] = Exits(0, "")
    BY <2>1 DEF CursorShim
  <2>3. QED
    BY <2>2, "" \in {"", "allow"}, "allow" \in {"", "allow"}, ExitsSound, Zenon
<1>4. /\ ClaudeCodeShim.events = Event /\ CodexShim.events = Event /\ GeminiShim.events = Event
      /\ CursorShim.events = CursorEvent /\ Event \subseteq CursorEvent
  BY DEF ClaudeCodeShim, CodexShim, GeminiShim, CursorShim, CursorEvent
<1>5. ShimSound(ClaudeCodeShim) /\ ShimSound(CodexShim) /\ ShimSound(GeminiShim)
  BY <1>2, <1>4 DEF ShimSound, ClaudeCodeShim, CodexShim, GeminiShim
<1>6. ShimSound(CursorShim)
  BY <1>3, <1>4 DEF ShimSound
<1>7. CASE h = "cursor"
  <2>1. Shim[h] = CursorShim
    BY <1>1, <1>7 DEF Shim
  <2>2. QED
    BY <2>1, <1>4, <1>6
<1>8. CASE h = "claude-code"
  <2>1. Shim[h] = ClaudeCodeShim
    BY <1>1, <1>8 DEF Shim
  <2>2. QED
    BY <2>1, <1>5, <1>8
<1>9. CASE h = "gemini"
  <2>1. Shim[h] = GeminiShim
    BY <1>1, <1>9 DEF Shim
  <2>2. QED
    BY <2>1, <1>5, <1>9
<1>10. CASE h \in {"codex", "codex-desktop", "codex-auto"}
  <2>1. Shim[h] = CodexShim
    BY <1>1, <1>10 DEF Shim
  <2>2. QED
    BY <2>1, <1>5, <1>10
<1>11. QED
  BY <1>1, <1>7, <1>8, <1>9, <1>10

LEMMA HooksKnown ==
  ASSUME NEW h \in DOMAIN Shim, NEW events \in HooksOf(h)
  PROVE  events \subseteq Shim[h].events /\ events \subseteq CursorEvent
<1>1. Event \subseteq Shim[h].events /\ (h = "cursor" => Shim[h].events = CursorEvent)
  BY ShimTables DEF ShimSound
<1>2. CASE h = "cursor"
  BY <1>1, <1>2 DEF HooksOf, CursorEvent, Event
<1>3. CASE h # "cursor"
  BY <1>1, <1>3 DEF HooksOf, CursorEvent, Event
<1>4. QED
  BY <1>2, <1>3

LEMMA RouteKnown ==
  ASSUME NEW h \in DOMAIN Shim, NEW desktop \in BOOLEAN
  PROVE  resolveCodexHookHarness(h, desktop) \in DOMAIN Shim \ {"codex-auto"}
<1>1. DOMAIN Shim = {"claude-code", "codex", "codex-desktop", "codex-auto", "cursor", "gemini"}
  BY DEF Shim
<1>2. QED
  BY <1>1 DEF resolveCodexHookHarness

\* One shim moves and the daemon forgets nothing.
LEMMA ShimMoves ==
  ASSUME hkInv, NEW s \in hkShims, NEW t \in ShimProcess, Becomes(s, t),
         hkRecorded \subseteq hkRecorded', ShimOK(t)'
  PROVE  hkInv'
BY DEF hkInv, ShimOK, Becomes

LEMMA ReadEventKeeps ==
  ASSUME hkInv, NEW s \in hkShims, ReadEvent(s)
  PROVE  hkInv'
<1>1. s \in ShimProcess /\ ShimOK(s) /\ s.pc = "read" /\ hkRecorded' = hkRecorded
  BY DEF hkInv, ReadEvent
<1>2. s.event \in Shim[s.harness].events /\ s.reply = "none"
  BY <1>1 DEF ShimOK
<1>3. CASE s.stdin # "event"
  <2> DEFINE silent == Exits(0, "")
             t == [s EXCEPT !.pc = "done", !.exit = silent]
  <2>1. Becomes(s, t)
    BY <1>2, <1>3, Zenon DEF ReadEvent, EndsWith
  <2>2. silent \in ShimExit /\ DeniesAs(silent, "none")
    BY "none" # "deny", "" \in {"", "allow"}, ExitsSound, Zenon
  <2> HIDE DEF silent
  <2>3. /\ t \in ShimProcess /\ t.event = s.event /\ t.harness = s.harness /\ t.reply = "none"
        /\ t.pc = "done" /\ t.exit = silent
    BY <1>1, <1>2, <2>2 DEF ShimProcess
  <2> HIDE DEF t
  <2>4. ShimOK(t)'
    BY <1>2, <2>2, <2>3 DEF ShimOK
  <2>5. QED
    BY <1>1, <2>1, <2>3, <2>4, ShimMoves
<1>4. CASE s.stdin = "event"
  <2>1. PICK to \in {"posted", "answered"}, reply \in Heard :
          /\ Becomes(s, [s EXCEPT !.pc = to, !.reply = reply])
          /\ reply # "deny" /\ (to = "posted" => reply = "none")
    <3>1. Becomes(s, [s EXCEPT !.pc = IF hkUp THEN "posted" ELSE "answered",
                               !.reply = IF hkUp THEN "none" ELSE "unreachable"])
      BY <1>2, <1>4, Zenon DEF ReadEvent
    <3>2. {"none", "unreachable"} \subseteq Heard
      BY DEF Heard, Reply, Failure
    <3>3. QED
      BY <3>1, <3>2
  <2> DEFINE t == [s EXCEPT !.pc = to, !.reply = reply]
  <2>2. /\ t \in ShimProcess /\ t.event = s.event /\ t.harness = s.harness
        /\ t.reply = reply /\ t.pc = to
    BY <1>1 DEF ShimProcess
  <2>3. Becomes(s, t)
    BY <2>1
  <2> HIDE DEF t
  <2>4. ShimOK(t)'
    BY <1>2, <2>1, <2>2 DEF ShimOK
  <2>5. QED
    BY <1>1, <2>2, <2>3, <2>4, ShimMoves
<1>5. QED
  BY <1>3, <1>4

\* The entry comes before the answer.
LEMMA DaemonHandlesKeeps ==
  ASSUME hkInv, NEW s \in hkShims, DaemonHandles(s)
  PROVE  hkInv'
<1>1. s \in ShimProcess /\ ShimOK(s)
  BY DEF hkInv
<1>2. PICK reply \in {"allow", "deny", "none", "status"} :
        /\ Becomes(s, [s EXCEPT !.pc = "answering", !.reply = reply])
        /\ hkRecorded \subseteq hkRecorded'
        /\ reply = "deny" => [event |-> s.event, verdict |-> "deny"] \in hkRecorded'
  BY DEF DaemonHandles
<1> DEFINE t == [s EXCEPT !.pc = "answering", !.reply = reply]
<1>3. /\ t \in ShimProcess /\ t.event = s.event /\ t.harness = s.harness /\ t.reply = reply
      /\ t.pc = "answering"
  BY <1>1 DEF ShimProcess, Heard, Reply, Failure
<1>4. Becomes(s, t)
  BY <1>2
<1> HIDE DEF t
<1>5. ShimOK(t)'
  BY <1>1, <1>2, <1>3 DEF ShimOK
<1>6. QED
  BY <1>2, <1>3, <1>4, <1>5, ShimMoves

LEMMA AnswerArrivesKeeps ==
  ASSUME hkInv, NEW s \in hkShims, AnswerArrives(s)
  PROVE  hkInv'
<1>1. s \in ShimProcess /\ ShimOK(s) /\ hkRecorded' = hkRecorded
  BY DEF hkInv, AnswerArrives
<1>2. PICK reply \in {s.reply, "malformed"} : Becomes(s, [s EXCEPT !.pc = "answered", !.reply = reply])
  BY DEF AnswerArrives
<1> DEFINE t == [s EXCEPT !.pc = "answered", !.reply = reply]
<1>3. reply \in Heard
  BY <1>1 DEF ShimProcess, Heard, Reply, Failure
<1>4. /\ t \in ShimProcess /\ t.event = s.event /\ t.harness = s.harness /\ t.reply = reply
      /\ t.pc = "answered"
  BY <1>1, <1>3 DEF ShimProcess
<1>5. Becomes(s, t)
  BY <1>2
<1> HIDE DEF t
<1>6. ShimOK(t)'
  BY <1>1, <1>2, <1>4 DEF ShimOK
<1>7. QED
  BY <1>1, <1>4, <1>5, <1>6, ShimMoves

LEMMA ExitShimKeeps ==
  ASSUME hkInv, NEW s \in hkShims, ExitShim(s)
  PROVE  hkInv'
<1>1. s \in ShimProcess /\ ShimOK(s) /\ hkRecorded' = hkRecorded
  BY DEF hkInv, ExitShim
<1> DEFINE exit == Shim[s.harness].exit[s.reply]
           t == [s EXCEPT !.pc = "done", !.exit = exit]
<1>2. exit \in ShimExit /\ DeniesAs(exit, s.reply)
  <2>1. s.harness \in DOMAIN Shim /\ s.reply \in Heard
    BY <1>1 DEF ShimProcess
  <2>2. QED
    BY <2>1, ShimTables DEF ShimSound
<1>3. Becomes(s, t)
  BY DEF ExitShim, EndsWith
<1> HIDE DEF exit
<1>4. /\ t \in ShimProcess /\ t.event = s.event /\ t.harness = s.harness /\ t.reply = s.reply
      /\ t.pc = "done" /\ t.exit = exit
  BY <1>1, <1>2 DEF ShimProcess
<1> HIDE DEF t
<1>5. ShimOK(t)'
  BY <1>1, <1>2, <1>4 DEF ShimOK
<1>6. QED
  BY <1>1, <1>3, <1>4, <1>5, ShimMoves

\* The connections that fail carry no denial.
LEMMA DaemonStopsKeeps ==
  ASSUME hkInv, DaemonStops
  PROVE  hkInv'
<1> DEFINE Cut(s) == IF s.pc \in {"posted", "answering"}
                     THEN [s EXCEPT !.pc = "answered", !.reply = "unreachable"] ELSE s
<1>1. hkShims' = {Cut(s) : s \in hkShims} /\ hkRecorded' = hkRecorded
  BY DEF DaemonStops
<1>2. ASSUME NEW s \in hkShims
      PROVE  Cut(s) \in ShimProcess /\ ShimOK(Cut(s))'
  <2>1. s \in ShimProcess /\ ShimOK(s)
    BY DEF hkInv
  <2>2. CASE s.pc \in {"posted", "answering"}
    <3> DEFINE t == [s EXCEPT !.pc = "answered", !.reply = "unreachable"]
    <3>1. /\ t \in ShimProcess /\ t.event = s.event /\ t.harness = s.harness
          /\ t.reply = "unreachable" /\ t.pc = "answered"
      BY <2>1 DEF ShimProcess, Heard, Reply, Failure
    <3>2. Cut(s) = t
      BY <2>2
    <3> HIDE DEF t, Cut
    <3>3. ShimOK(t)'
      BY <2>1, <3>1 DEF ShimOK
    <3>4. QED
      BY <3>1, <3>2, <3>3
  <2>3. CASE s.pc \notin {"posted", "answering"}
    BY <1>1, <2>1, <2>3 DEF ShimOK
  <2>4. QED
    BY <2>2, <2>3
<1> HIDE DEF Cut
<1>3. QED
  BY <1>1, <1>2 DEF hkInv

LEMMA FireHooksKeeps ==
  ASSUME hkInv, FireHooks
  PROVE  hkInv'
<1>1. PICK h \in DOMAIN Shim, desktop \in BOOLEAN, stdin \in {"event", "empty", "invalid"} :
      \E events \in HooksOf(h) :
        hkShims' = {[harness |-> h, event |-> e, stdin |-> stdin, pc |-> "read",
                     route |-> resolveCodexHookHarness(h, desktop),
                     reply |-> "none", exit |-> Exits(0, "")] : e \in events}
  BY DEF FireHooks
<1>2. PICK events \in HooksOf(h) :
        hkShims' = {[harness |-> h, event |-> e, stdin |-> stdin, pc |-> "read",
                     route |-> resolveCodexHookHarness(h, desktop),
                     reply |-> "none", exit |-> Exits(0, "")] : e \in events}
  BY <1>1
<1> DEFINE silent == Exits(0, "")
           route == resolveCodexHookHarness(h, desktop)
           Fired(e) == [harness |-> h, event |-> e, stdin |-> stdin, pc |-> "read",
                        route |-> route, reply |-> "none", exit |-> silent]
<1>3. hkShims' = {Fired(e) : e \in events}
  BY <1>2, Zenon
<1>4. /\ events \subseteq Shim[h].events /\ events \subseteq CursorEvent
      /\ route \in DOMAIN Shim \ {"codex-auto"}
  BY <1>2, HooksKnown, RouteKnown, Zenon
<1>5. silent \in ShimExit
  BY "none" # "deny", "" \in {"", "allow"}, ExitsSound, Zenon
<1> HIDE DEF silent, route
<1>6. "none" \in Heard
  BY DEF Heard, Reply, Failure
<1>7. ASSUME NEW e \in events
      PROVE  Fired(e) \in ShimProcess /\ ShimOK(Fired(e))'
  <2>1. e \in CursorEvent /\ e \in Shim[h].events
    BY <1>4
  <2>2. Fired(e) \in ShimProcess
    BY <1>1, <1>4, <1>5, <1>6, <2>1 DEF ShimProcess
  <2>3. ShimOK(Fired(e))'
    BY <2>1 DEF ShimOK
  <2>4. QED
    BY <2>2, <2>3
<1> HIDE DEF Fired
<1>8. QED
  BY <1>3, <1>7, Zenon DEF hkInv

LEMMA ShimsKeep == hkInv /\ [hkNext]_hkVars => hkInv'
<1> SUFFICES ASSUME hkInv, [hkNext]_hkVars PROVE hkInv'
  OBVIOUS
<1>1. ASSUME NEW s \in hkShims, ReadEvent(s) \/ DaemonHandles(s) \/ AnswerArrives(s) \/ ExitShim(s)
      PROVE  hkInv'
  BY <1>1, ReadEventKeeps, DaemonHandlesKeeps, AnswerArrivesKeeps, ExitShimKeeps
<1>2. CASE NextCall
  BY <1>2 DEF NextCall, hkInv
<1>3. CASE UNCHANGED hkVars
  BY <1>3 DEF hkVars, hkInv, ShimOK
<1>4. QED
  BY <1>1, <1>2, <1>3, FireHooksKeeps, DaemonStopsKeeps DEF hkNext, ShimSteps

\* hook-*.ts: once its shims have ended a tool call is blocked exactly by a denial
\* that the daemon has written down and whose answer arrived whole, whatever of the
\* daemon, of the connections and of the answers fails in between.
THEOREM ShimsAlwaysFollow == hkSpec => []ShimFollowsDaemon
<1>1. hkInit => hkInv
  BY DEF hkInit, hkInv
<1>2. hkInv => ShimFollowsDaemon
  <2> SUFFICES ASSUME hkInv, NEW s \in hkShims, s.pc = "done"
               PROVE  /\ DeniesAs(s.exit, s.reply)
                      /\ s.exit.code = 2 => [event |-> s.event, verdict |-> "deny"] \in hkRecorded
                      /\ s.route \in DOMAIN Shim \ {"codex-auto"}
    BY DEF ShimFollowsDaemon, DeniesAs
  <2>1. s \in ShimProcess /\ ShimOK(s)
    BY DEF hkInv
  <2>2. s.route \in DOMAIN Shim \ {"codex-auto"}
    BY <2>1 DEF ShimProcess
  <2>3. QED
    BY <2>1, <2>2 DEF ShimOK, DeniesAs
<1>3. QED
  BY <1>1, <1>2, ShimsKeep, PTL DEF hkSpec

-----------------------------------------------------------------------------
(* SIGNERS AND SESSION KEYS, for any processes, passphrases and number of    *)
(* keys.  A process acts on what it read from files that others replace      *)
(* meanwhile, so the invariant says of every copy whose enrollment it is.     *)

KeyFile == {"sealed", "secret", "checksum", "keychain", "meta", "software", "session"}
NoPass == ""
KeyHeld == Nat \cup {Torn}
FileValue == [key : KeyHeld, pass : Passphrase \cup {NoPass}, ttl : BOOLEAN, expired : BOOLEAN]
EnrollCommand ==
  [cmd : {"totp", "os-keychain"}, pc : {"first", "secret", "checksum", "meta"},
   key : Nat \ {Missing}, pass : Passphrase]
LoadCommand ==
  [cmd : {"create", "rotate"}, pc : {"load", "check", "key", "send", "persist"},
   tier : SignerTier, pass : Passphrase, code : [of : 1..MaxKeys, age : {0, 2}],
   signer : Int, key : Int]

EnrolledAs(tier, key, pass) == [tier |-> tier, key |-> key, pass |-> pass] \in kyEnrolled

\* Key k is that of one enrollment of the signer that c loads, with what c was given.
LoadsEnrolled(c, k) ==
  \E pass \in Passphrase :
    /\ EnrolledAs(c.tier, k, pass)
    /\ c.tier = "totp" => pass = c.pass /\ c.code = [of |-> k, age |-> 0]

LoadOK(c) ==
  /\ c.signer # Missing /\ c.tier # "software" => LoadsEnrolled(c, c.signer)
  /\ c.pc = "check" => c.key = Garbage \/ LoadsEnrolled(c, c.key)
  /\ c.pc \in {"send", "persist"} => c.key \in KeyHeld
  /\ c.pc = "persist" => c.key \in kyAccepted

CommandOK(c) ==
  \/ c = Idle
  \/ c \in EnrollCommand /\ EnrolledAs(c.cmd, c.key, c.pass)
  \/ c \in LoadCommand /\ LoadOK(c)

\* The parts of an enrollment that are looked at first say which one it was.
FilesOK ==
  /\ kyFiles.sealed.key \in {Missing, Torn} \/ EnrolledAs("totp", kyFiles.sealed.key, kyFiles.sealed.pass)
  /\ kyFiles.meta.key \in {Missing, Torn} \/
       \E pass \in Passphrase : EnrolledAs("os-keychain", kyFiles.meta.key, pass)
  /\ kyFiles.session.key \in {Missing, Torn} \cup kyAccepted

kyInv ==
  /\ kyFiles \in [KeyFile -> FileValue] /\ kyNext \in Nat \ {Missing} /\ kyTiers \subseteq SignerTier
  /\ kyCommands \in [Process -> {Idle} \cup EnrollCommand \cup LoadCommand]
  /\ FilesOK
  /\ \A p \in Process : CommandOK(kyCommands[p])

LEMMA HoldsKey ==
  ASSUME NEW k \in KeyHeld
  PROVE  Holds(k) \in FileValue /\ Holds(k).key = k
BY Zenon DEF Holds, FileValue, NoPass

LEMMA CommandsDiffer ==
  /\ Idle \notin EnrollCommand /\ Idle \notin LoadCommand /\ Idle.cmd = "idle"
  /\ \A c \in EnrollCommand : c.cmd \in {"totp", "os-keychain"}
  /\ \A c \in LoadCommand : c.cmd \in {"create", "rotate"}
<1>1. Idle.cmd = "idle"
  BY DEF Idle
<1>2. /\ \A c \in EnrollCommand : c.cmd \in {"totp", "os-keychain"}
      /\ \A c \in LoadCommand : c.cmd \in {"create", "rotate"}
  BY DEF EnrollCommand, LoadCommand
<1>3. QED
  BY <1>1, <1>2, Zenon

LEMMA CommandKinds ==
  ASSUME kyInv, NEW p \in Process
  PROVE  /\ kyCommands[p].cmd \in {"totp", "os-keychain"} =>
              kyCommands[p] \in EnrollCommand
              /\ EnrolledAs(kyCommands[p].cmd, kyCommands[p].key, kyCommands[p].pass)
         /\ kyCommands[p].cmd \in {"create", "rotate"} =>
              kyCommands[p] \in LoadCommand /\ LoadOK(kyCommands[p])
BY CommandsDiffer DEF kyInv, CommandOK

\* One process moves, and nothing is forgotten of what was enrolled and accepted.
LEMMA ProcessMoves ==
  ASSUME kyInv, NEW p \in Process, NEW c \in {Idle} \cup EnrollCommand \cup LoadCommand,
         Goes(p, c), CommandOK(c)', FilesOK', kyFiles' \in [KeyFile -> FileValue],
         kyEnrolled \subseteq kyEnrolled', kyAccepted \subseteq kyAccepted',
         kyNext' \in Nat \ {Missing}, kyTiers' = kyTiers
  PROVE  kyInv'
<1>1. kyCommands' = [kyCommands EXCEPT ![p] = c]
      /\ kyCommands \in [Process -> {Idle} \cup EnrollCommand \cup LoadCommand]
  BY DEF Goes, kyInv
<1>2. ASSUME NEW q \in Process PROVE CommandOK(kyCommands[q])'
  <2>1. CASE q = p
    <3>1. kyCommands'[q] = c
      BY <1>1, <2>1
    <3>2. QED
      BY <3>1 DEF CommandOK, LoadOK, LoadsEnrolled, EnrolledAs
  <2>2. CASE q # p
    <3>1. kyCommands'[q] = kyCommands[q] /\ CommandOK(kyCommands[q])
      BY <1>1, <2>2 DEF kyInv
    <3>2. QED
      BY <3>1 DEF CommandOK, LoadOK, LoadsEnrolled, EnrolledAs
  <2>3. QED
    BY <2>1, <2>2
<1>3. kyCommands' \in [Process -> {Idle} \cup EnrollCommand \cup LoadCommand]
  BY <1>1
<1>4. QED
  BY <1>2, <1>3 DEF kyInv

\* A command that ends leaves the files' owners as they are.
LEMMA FilesStay ==
  ASSUME kyInv, UNCHANGED kyFiles, kyEnrolled \subseteq kyEnrolled', kyAccepted \subseteq kyAccepted'
  PROVE  FilesOK' /\ kyFiles' \in [KeyFile -> FileValue]
BY DEF kyInv, FilesOK, EnrolledAs

LEMMA RefusesKeeps ==
  ASSUME kyInv, NEW p \in Process, Refuses(p), kyAccepted \subseteq kyAccepted',
         kyNext' = kyNext, UNCHANGED <<kyEnrolled, kyTiers>>
  PROVE  kyInv'
<1>1. CommandOK(Idle)'
  BY DEF CommandOK
<1>2. FilesOK' /\ kyFiles' \in [KeyFile -> FileValue]
  BY FilesStay DEF Refuses
<1>3. QED
  BY <1>1, <1>2, ProcessMoves DEF Refuses, kyInv

\* What a write makes of the files.
LEMMA FileWritten ==
  ASSUME kyInv, NEW f \in KeyFile, NEW v \in FileValue, Writes(f, v)
  PROVE  /\ kyFiles' \in [KeyFile -> FileValue] /\ kyFiles'[f] = v
         /\ \A g \in KeyFile : g # f => kyFiles'[g] = kyFiles[g]
BY DEF kyInv, Writes

LEMMA StartEnrollKeeps ==
  ASSUME kyInv, NEW p \in Process, StartEnroll(p)
  PROVE  kyInv'
<1>1. PICK tier \in kyTiers \ {"software"}, pass \in Passphrase :
        /\ Goes(p, [cmd |-> tier, pc |-> "first", key |-> kyNext, pass |-> pass])
        /\ kyEnrolled' = kyEnrolled \cup {[tier |-> tier, key |-> kyNext, pass |-> pass]}
  BY DEF StartEnroll
<1>2. tier \in {"totp", "os-keychain"} /\ kyNext \in Nat \ {Missing}
  BY DEF kyInv, SignerTier
<1>3. PICK n : n = kyNext
  OBVIOUS
<1> DEFINE c == [cmd |-> tier, pc |-> "first", key |-> n, pass |-> pass]
<1>4. c \in EnrollCommand /\ c.cmd = tier /\ c.key = n /\ c.pass = pass
  BY <1>2, <1>3 DEF EnrollCommand
<1>5. Goes(p, c) /\ kyEnrolled' = kyEnrolled \cup {[tier |-> tier, key |-> n, pass |-> pass]}
  BY <1>1, <1>3
<1> HIDE DEF c
<1>6. CommandOK(c)'
  BY <1>4, <1>5 DEF CommandOK, EnrolledAs
<1>7. kyNext' \in Nat \ {Missing} /\ kyTiers' = kyTiers /\ kyAccepted' = kyAccepted /\ kyFiles' = kyFiles
  BY <1>2 DEF StartEnroll, Missing
<1>8. FilesOK' /\ kyFiles' \in [KeyFile -> FileValue]
  BY <1>5, <1>7, FilesStay
<1>9. QED
  BY <1>4, <1>5, <1>6, <1>7, <1>8, ProcessMoves

LEMMA EnrollTOTPKeeps ==
  ASSUME kyInv, NEW p \in Process, enrollTOTPSigner(p)
  PROVE  kyInv'
<1>1. PICK c : c = kyCommands[p]
  OBVIOUS
<1>2. c \in EnrollCommand /\ c.cmd = "totp" /\ EnrolledAs("totp", c.key, c.pass)
  BY <1>1, CommandKinds DEF enrollTOTPSigner
<1>3. /\ c.key \in KeyHeld /\ c.pass \in Passphrase /\ c.key # Torn
      /\ Holds(c.key) \in FileValue /\ Holds(c.key).key = c.key
  <2>1. c.key \in KeyHeld /\ c.pass \in Passphrase /\ c.key # Torn
    BY <1>2 DEF EnrollCommand, KeyHeld, Torn
  <2>2. QED
    BY <2>1, HoldsKey
<1>4. /\ UNCHANGED <<kyEnrolled, kyAccepted, kyNext, kyTiers>>
      /\ kyNext' \in Nat \ {Missing}
  BY DEF enrollTOTPSigner, kyInv
<1>5. CASE c.pc = "first"
  <2> DEFINE v == [Holds(c.key) EXCEPT !.pass = c.pass]
             d == [c EXCEPT !.pc = "secret"]
  <2>1. Writes("sealed", v) /\ Goes(p, d)
    BY <1>1, <1>5, Zenon DEF enrollTOTPSigner
  <2>2. v \in FileValue /\ v.key = c.key /\ v.pass = c.pass
    BY <1>3 DEF FileValue
  <2>3. d \in EnrollCommand /\ d.cmd = "totp" /\ d.key = c.key /\ d.pass = c.pass
    BY <1>2 DEF EnrollCommand
  <2> HIDE DEF v, d
  <2>4. CommandOK(d)'
    BY <1>2, <1>4, <2>3 DEF CommandOK, EnrolledAs
  <2>5. /\ kyFiles' \in [KeyFile -> FileValue] /\ kyFiles'.sealed = v
        /\ kyFiles'.meta = kyFiles.meta /\ kyFiles'.session = kyFiles.session
    BY <2>1, <2>2, FileWritten DEF KeyFile
  <2>6. FilesOK'
    BY <1>2, <1>4, <2>2, <2>5 DEF FilesOK, kyInv, EnrolledAs
  <2>7. QED
    BY <1>4, <2>1, <2>3, <2>4, <2>5, <2>6, ProcessMoves
<1>6. CASE c.pc # "first"
  <2>1. PICK f \in {"secret", "checksum"}, d \in {[c EXCEPT !.pc = "checksum"], Idle} :
          Writes(f, Holds(c.key)) /\ Goes(p, d)
    BY <1>1, <1>6, Zenon DEF enrollTOTPSigner
  <2>2. (d \in EnrollCommand /\ d.cmd = "totp" /\ d.key = c.key /\ d.pass = c.pass) \/ d = Idle
    BY <1>2 DEF EnrollCommand
  <2>3. CommandOK(d)'
    BY <1>2, <1>4, <2>2 DEF CommandOK, EnrolledAs
  <2>4. /\ kyFiles' \in [KeyFile -> FileValue] /\ kyFiles'.sealed = kyFiles.sealed
        /\ kyFiles'.meta = kyFiles.meta /\ kyFiles'.session = kyFiles.session
    BY <1>3, <2>1, FileWritten DEF KeyFile
  <2>5. FilesOK'
    BY <1>4, <2>4 DEF FilesOK, kyInv, EnrolledAs
  <2>6. QED
    BY <1>4, <2>1, <2>2, <2>3, <2>4, <2>5, ProcessMoves
<1>7. QED
  BY <1>5, <1>6

LEMMA EnrollOSKeychainKeeps ==
  ASSUME kyInv, NEW p \in Process, enrollOSKeychainSigner(p)
  PROVE  kyInv'
<1>1. PICK c : c = kyCommands[p]
  OBVIOUS
<1>2. c \in EnrollCommand /\ c.cmd = "os-keychain" /\ EnrolledAs("os-keychain", c.key, c.pass)
  BY <1>1, CommandKinds DEF enrollOSKeychainSigner
<1>3. /\ c.key \in KeyHeld /\ c.pass \in Passphrase
      /\ Holds(c.key) \in FileValue /\ Holds(c.key).key = c.key
  <2>1. c.key \in KeyHeld /\ c.pass \in Passphrase
    BY <1>2 DEF EnrollCommand, KeyHeld, Torn
  <2>2. QED
    BY <2>1, HoldsKey
<1>4. /\ UNCHANGED <<kyEnrolled, kyAccepted, kyNext, kyTiers>>
      /\ kyNext' \in Nat \ {Missing}
  BY DEF enrollOSKeychainSigner, kyInv
<1>5. CASE c.pc = "first"
  <2> DEFINE d == [c EXCEPT !.pc = "meta"]
  <2>1. Writes("keychain", Holds(c.key)) /\ Goes(p, d)
    BY <1>1, <1>5, Zenon DEF enrollOSKeychainSigner
  <2>2. d \in EnrollCommand /\ d.cmd = "os-keychain" /\ d.key = c.key /\ d.pass = c.pass
    BY <1>2 DEF EnrollCommand
  <2> HIDE DEF d
  <2>3. CommandOK(d)'
    BY <1>2, <1>4, <2>2 DEF CommandOK, EnrolledAs
  <2>4. /\ kyFiles' \in [KeyFile -> FileValue] /\ kyFiles'.sealed = kyFiles.sealed
        /\ kyFiles'.meta = kyFiles.meta /\ kyFiles'.session = kyFiles.session
    BY <1>3, <2>1, FileWritten DEF KeyFile
  <2>5. FilesOK'
    BY <1>4, <2>4 DEF FilesOK, kyInv, EnrolledAs
  <2>6. QED
    BY <1>4, <2>1, <2>2, <2>3, <2>4, <2>5, ProcessMoves
<1>6. CASE c.pc # "first"
  <2>1. PICK ttl \in BOOLEAN : Writes("meta", [Holds(c.key) EXCEPT !.ttl = ttl]) /\ Goes(p, Idle)
    BY <1>1, <1>6, Zenon DEF enrollOSKeychainSigner
  <2> DEFINE v == [Holds(c.key) EXCEPT !.ttl = ttl]
  <2>2. v \in FileValue /\ v.key = c.key
    BY <1>3 DEF FileValue
  <2>3. Writes("meta", v)
    BY <2>1
  <2> HIDE DEF v
  <2>4. CommandOK(Idle)'
    BY DEF CommandOK
  <2>5. /\ kyFiles' \in [KeyFile -> FileValue] /\ kyFiles'.sealed = kyFiles.sealed
        /\ kyFiles'.meta = v /\ kyFiles'.session = kyFiles.session
    BY <2>2, <2>3, FileWritten DEF KeyFile
  <2>6. FilesOK'
    BY <1>2, <1>3, <1>4, <2>2, <2>5 DEF FilesOK, kyInv, EnrolledAs
  <2>7. QED
    BY <1>4, <2>1, <2>4, <2>5, <2>6, ProcessMoves
<1>7. QED
  BY <1>5, <1>6

LEMMA TimePassesKeeps ==
  ASSUME kyInv, TimePasses
  PROVE  kyInv'
<1>1. PICK v : v = [kyFiles.meta EXCEPT !.expired = TRUE]
  OBVIOUS
<1>2. kyFiles.meta \in FileValue
  BY DEF kyInv, KeyFile
<1>3. v \in FileValue /\ v.key = kyFiles.meta.key
  BY <1>1, <1>2 DEF FileValue
<1>4. Writes("meta", v)
  BY <1>1 DEF TimePasses, Writes
<1>5. /\ kyFiles' \in [KeyFile -> FileValue] /\ kyFiles'.sealed = kyFiles.sealed
      /\ kyFiles'.meta = v /\ kyFiles'.session = kyFiles.session
  BY <1>3, <1>4, FileWritten DEF KeyFile
<1>6. UNCHANGED <<kyCommands, kyNext, kyEnrolled, kyTiers, kyAccepted>>
  BY DEF TimePasses
<1>7. FilesOK'
  BY <1>3, <1>5, <1>6 DEF FilesOK, kyInv, EnrolledAs
<1>8. QED
  BY <1>5, <1>6, <1>7 DEF kyInv, CommandOK, LoadOK, LoadsEnrolled, EnrolledAs

LEMMA StartSessionKeeps ==
  ASSUME kyInv, NEW p \in Process, StartSession(p)
  PROVE  kyInv'
<1>1. PICK cmd \in {"create", "rotate"}, tier \in kyTiers, pass \in Passphrase,
           of \in 1..MaxKeys, age \in {0, 2} :
        Goes(p, [cmd |-> cmd, pc |-> "load", tier |-> tier, pass |-> pass,
                 code |-> [of |-> of, age |-> age], signer |-> Missing, key |-> Missing])
  BY DEF StartSession
<1> DEFINE c == [cmd |-> cmd, pc |-> "load", tier |-> tier, pass |-> pass,
                 code |-> [of |-> of, age |-> age], signer |-> Missing, key |-> Missing]
<1>2. tier \in SignerTier /\ Missing \in Int
  BY DEF kyInv, Missing
<1>3. c \in LoadCommand /\ c.signer = Missing /\ c.pc = "load"
  BY <1>1, <1>2 DEF LoadCommand
<1>4. UNCHANGED <<kyFiles, kyNext, kyEnrolled, kyTiers, kyAccepted>> /\ kyNext' \in Nat \ {Missing}
  BY DEF StartSession, kyInv
<1>5. Goes(p, c)
  BY <1>1
<1> HIDE DEF c
<1>6. CommandOK(c)'
  BY <1>3 DEF CommandOK, LoadOK
<1>7. FilesOK' /\ kyFiles' \in [KeyFile -> FileValue]
  BY <1>4, FilesStay
<1>8. QED
  BY <1>3, <1>4, <1>5, <1>6, <1>7, ProcessMoves

\* The loader of a signer goes on: with its files as they were.
LEMMA LoaderGoesOn ==
  ASSUME kyInv, NEW p \in Process, NEW c \in LoadCommand, LoadOK(c), Goes(p, c),
         kyNext' \in Nat \ {Missing}, UNCHANGED <<kyFiles, kyEnrolled, kyTiers>>,
         kyAccepted \subseteq kyAccepted'
  PROVE  kyInv'
<1>1. CommandOK(c)'
  BY DEF CommandOK, LoadOK, LoadsEnrolled, EnrolledAs
<1>2. FilesOK' /\ kyFiles' \in [KeyFile -> FileValue]
  BY FilesStay
<1>3. QED
  BY <1>1, <1>2, ProcessMoves

LEMMA LoadSoftwareKeeps ==
  ASSUME kyInv, NEW p \in Process, kyCommands[p].cmd \in {"create", "rotate"}, loadOrCreateSoftwareSigner(p)
  PROVE  kyInv'
<1>1. PICK c, f : c = kyCommands[p] /\ f = kyFiles.software.key
  OBVIOUS
<1>2. c \in LoadCommand /\ LoadOK(c) /\ c.tier = "software"
  BY <1>1, CommandKinds DEF loadOrCreateSoftwareSigner
<1>3. UNCHANGED <<kyEnrolled, kyTiers, kyAccepted>> /\ kyNext \in Nat \ {Missing}
  BY DEF loadOrCreateSoftwareSigner, kyInv
<1>4. f \in Int
  BY <1>1 DEF kyInv, KeyFile, FileValue, KeyHeld, Torn
<1>5. CASE f = Torn
  <2>1. Refuses(p) /\ UNCHANGED kyNext
    BY <1>1, <1>5 DEF loadOrCreateSoftwareSigner, Torn, Missing
  <2>2. QED
    BY <1>3, <2>1, RefusesKeeps
<1>6. CASE f = Missing
  <2>1. PICK n : n = kyNext
    OBVIOUS
  <2> DEFINE d == [c EXCEPT !.pc = "key", !.signer = n]
  <2>2. f # Torn
    BY <1>6 DEF Missing, Torn
  <2>3. /\ kyNext' = kyNext + 1 /\ Writes("software", Holds(n)) /\ Goes(p, d)
    BY <1>1, <1>6, <2>1, <2>2 DEF loadOrCreateSoftwareSigner
  <2>4. n \in KeyHeld /\ n \in Int
    BY <1>3, <2>1 DEF KeyHeld
  <2>5. d \in LoadCommand /\ d.tier = "software" /\ d.pc = "key"
    BY <1>2, <2>4 DEF LoadCommand
  <2> HIDE DEF d
  <2>6. CommandOK(d)'
    BY <2>5 DEF CommandOK, LoadOK
  <2>7. /\ kyFiles' \in [KeyFile -> FileValue] /\ kyFiles'.sealed = kyFiles.sealed
        /\ kyFiles'.meta = kyFiles.meta /\ kyFiles'.session = kyFiles.session
    BY <2>3, <2>4, HoldsKey, FileWritten DEF KeyFile
  <2>8. FilesOK'
    BY <1>3, <2>7 DEF FilesOK, kyInv, EnrolledAs
  <2>9. kyNext' \in Nat \ {Missing}
    BY <1>3, <2>3 DEF Missing
  <2>10. QED
    BY <1>3, <2>3, <2>5, <2>6, <2>7, <2>8, <2>9, ProcessMoves
<1>7. CASE f # Torn /\ f # Missing
  <2> DEFINE d == [c EXCEPT !.pc = "key", !.signer = f]
  <2>1. Goes(p, d) /\ UNCHANGED <<kyFiles, kyNext>>
    BY <1>1, <1>7, Zenon DEF loadOrCreateSoftwareSigner
  <2>2. d \in LoadCommand /\ d.tier = "software" /\ d.pc = "key"
    BY <1>2, <1>4 DEF LoadCommand
  <2> HIDE DEF d
  <2>3. LoadOK(d)
    BY <2>2 DEF LoadOK
  <2>4. QED
    BY <1>3, <2>1, <2>2, <2>3, LoaderGoesOn
<1>8. QED
  BY <1>5, <1>6, <1>7

\* A key that unseals with the current code and the passphrase is an enrollment's.
LEMMA UnsealedIsEnrolled ==
  ASSUME kyInv, NEW c \in LoadCommand, c.tier = "totp",
         kyFiles.sealed.key \notin {Missing, Torn}, verifyCode(kyFiles.secret.key, c.code),
         NEW k, k = unseal(kyFiles.sealed, kyFiles.secret.key, c.pass)
  PROVE  k \in Int /\ (k = Garbage \/ LoadsEnrolled(c, k))
<1>1. Garbage \in Int /\ kyFiles.sealed.key \in Int
  BY DEF Garbage, kyInv, KeyFile, FileValue, KeyHeld, Torn
<1>2. CASE kyFiles.sealed.key = kyFiles.secret.key /\ kyFiles.sealed.pass = c.pass
  <2>1. k = kyFiles.sealed.key /\ EnrolledAs("totp", k, c.pass)
    BY <1>2 DEF unseal, kyInv, FilesOK
  <2>2. c.code.of = k /\ c.code.age = 0 /\ c.code \in [of : 1..MaxKeys, age : {0, 2}]
    BY <1>2, <2>1 DEF verifyCode, LoadCommand
  <2>3. c.code = [of |-> k, age |-> 0]
    BY <2>2
  <2>4. c.pass \in Passphrase
    BY DEF LoadCommand
  <2>5. QED
    BY <1>1, <2>1, <2>3, <2>4 DEF LoadsEnrolled
<1>3. CASE ~(kyFiles.sealed.key = kyFiles.secret.key /\ kyFiles.sealed.pass = c.pass)
  BY <1>1, <1>3 DEF unseal
<1>4. QED
  BY <1>2, <1>3

\* The key of a check that succeeds: no file holds what a wrong secret unseals.
LEMMA CheckedGoesOn ==
  ASSUME kyInv, NEW p \in Process, NEW c \in LoadCommand, LoadOK(c), c.pc = "check",
         NEW f \in KeyFile, kyFiles[f].key = c.key,
         Goes(p, [c EXCEPT !.pc = "key", !.signer = c.key, !.key = Missing]),
         UNCHANGED <<kyFiles, kyNext, kyEnrolled, kyTiers, kyAccepted>>
  PROVE  kyInv'
<1> DEFINE d == [c EXCEPT !.pc = "key", !.signer = c.key, !.key = Missing]
<1>1. c.key # Garbage
  BY DEF kyInv, FileValue, KeyHeld, Torn, Garbage
<1>2. LoadsEnrolled(c, c.key)
  BY <1>1 DEF LoadOK
<1>3. /\ d \in LoadCommand /\ d.pc = "key" /\ d.signer = c.key /\ d.tier = c.tier
      /\ d.pass = c.pass /\ d.code = c.code
  <2>1. Missing \in Int
    BY DEF Missing
  <2>2. QED
    BY <2>1 DEF LoadCommand
<1>4. Goes(p, d)
  OBVIOUS
<1> HIDE DEF d
<1>5. LoadOK(d)
  BY <1>2, <1>3 DEF LoadOK, LoadsEnrolled
<1>6. kyNext' \in Nat \ {Missing}
  BY DEF kyInv
<1>7. QED
  BY <1>3, <1>4, <1>5, <1>6, LoaderGoesOn

LEMMA ReadGoesOn ==
  ASSUME kyInv, NEW p \in Process, NEW c \in LoadCommand, LoadOK(c),
         NEW k \in Int, k = Garbage \/ LoadsEnrolled(c, k),
         Goes(p, [c EXCEPT !.pc = "check", !.key = k]),
         UNCHANGED <<kyFiles, kyNext, kyEnrolled, kyTiers, kyAccepted>>
  PROVE  kyInv'
<1> DEFINE d == [c EXCEPT !.pc = "check", !.key = k]
<1>1. /\ d \in LoadCommand /\ d.pc = "check" /\ d.signer = c.signer /\ d.key = k
      /\ d.tier = c.tier /\ d.pass = c.pass /\ d.code = c.code
  BY DEF LoadCommand
<1>2. Goes(p, d)
  OBVIOUS
<1> HIDE DEF d
<1>3. LoadOK(d)
  BY <1>1 DEF LoadOK, LoadsEnrolled
<1>4. kyNext' \in Nat \ {Missing}
  BY DEF kyInv
<1>5. QED
  BY <1>1, <1>2, <1>3, <1>4, LoaderGoesOn

LEMMA LoadTOTPKeeps ==
  ASSUME kyInv, NEW p \in Process, kyCommands[p].cmd \in {"create", "rotate"}, loadTOTPSigner(p)
  PROVE  kyInv'
<1>1. PICK c, k : c = kyCommands[p] /\ k = unseal(kyFiles.sealed, kyFiles.secret.key, c.pass)
  OBVIOUS
<1>2. c \in LoadCommand /\ LoadOK(c) /\ c.tier = "totp"
  BY <1>1, CommandKinds DEF loadTOTPSigner
<1>3. UNCHANGED <<kyNext, kyEnrolled, kyTiers, kyAccepted>>
  BY DEF loadTOTPSigner
<1>4. CASE Refuses(p)
  BY <1>3, <1>4, RefusesKeeps
<1>5. CASE ~Refuses(p)
  <2>1. \/ /\ {kyFiles.sealed.key, kyFiles.secret.key} \cap {Missing, Torn} = {}
           /\ verifyCode(kyFiles.secret.key, c.code)
           /\ Goes(p, [c EXCEPT !.pc = "check", !.key = k]) /\ UNCHANGED kyFiles
        \/ /\ c.pc = "check" /\ kyFiles.checksum.key = c.key
           /\ Goes(p, [c EXCEPT !.pc = "key", !.signer = c.key, !.key = Missing])
           /\ UNCHANGED kyFiles
    BY <1>1, <1>5, Zenon DEF loadTOTPSigner
  <2>2. CASE /\ {kyFiles.sealed.key, kyFiles.secret.key} \cap {Missing, Torn} = {}
             /\ verifyCode(kyFiles.secret.key, c.code)
             /\ Goes(p, [c EXCEPT !.pc = "check", !.key = k]) /\ UNCHANGED kyFiles
    <3>1. kyFiles.sealed.key \notin {Missing, Torn}
      BY <2>2
    <3>2. k \in Int /\ (k = Garbage \/ LoadsEnrolled(c, k))
      BY <1>1, <1>2, <2>2, <3>1, UnsealedIsEnrolled
    <3>3. QED
      BY <1>2, <1>3, <2>2, <3>2, ReadGoesOn
  <2>3. CASE /\ c.pc = "check" /\ kyFiles.checksum.key = c.key
             /\ Goes(p, [c EXCEPT !.pc = "key", !.signer = c.key, !.key = Missing])
             /\ UNCHANGED kyFiles
    <3>1. "checksum" \in KeyFile
      BY DEF KeyFile
    <3>2. QED
      BY <1>2, <1>3, <2>3, <3>1, CheckedGoesOn
  <2>4. QED
    BY <2>1, <2>2, <2>3
<1>6. QED
  BY <1>4, <1>5

LEMMA LoadOSKeychainKeeps ==
  ASSUME kyInv, NEW p \in Process, kyCommands[p].cmd \in {"create", "rotate"}, loadOSKeychainSigner(p)
  PROVE  kyInv'
<1>1. PICK c, k : c = kyCommands[p] /\ k = kyFiles.meta.key
  OBVIOUS
<1>2. c \in LoadCommand /\ LoadOK(c) /\ c.tier = "os-keychain"
  BY <1>1, CommandKinds DEF loadOSKeychainSigner
<1>3. UNCHANGED <<kyNext, kyEnrolled, kyTiers, kyAccepted>>
  BY DEF loadOSKeychainSigner
<1>4. CASE Refuses(p)
  BY <1>3, <1>4, RefusesKeeps
<1>5. CASE ~Refuses(p)
  <2>1. \/ /\ k \notin {Missing, Torn}
           /\ Goes(p, [c EXCEPT !.pc = "check", !.key = k]) /\ UNCHANGED kyFiles
        \/ /\ c.pc = "check" /\ kyFiles.keychain.key = c.key
           /\ Goes(p, [c EXCEPT !.pc = "key", !.signer = c.key, !.key = Missing])
           /\ UNCHANGED kyFiles
    BY <1>1, <1>5, Zenon DEF loadOSKeychainSigner
  <2>2. CASE /\ k \notin {Missing, Torn}
             /\ Goes(p, [c EXCEPT !.pc = "check", !.key = k]) /\ UNCHANGED kyFiles
    <3>1. k \in Int
      BY <1>1 DEF kyInv, KeyFile, FileValue, KeyHeld, Torn
    <3>2. \E pass \in Passphrase : EnrolledAs("os-keychain", k, pass)
      BY <1>1, <2>2 DEF kyInv, FilesOK
    <3>3. LoadsEnrolled(c, k)
      BY <1>2, <3>2 DEF LoadsEnrolled
    <3>4. QED
      BY <1>2, <1>3, <2>2, <3>1, <3>3, ReadGoesOn
  <2>3. CASE /\ c.pc = "check" /\ kyFiles.keychain.key = c.key
             /\ Goes(p, [c EXCEPT !.pc = "key", !.signer = c.key, !.key = Missing])
             /\ UNCHANGED kyFiles
    <3>1. "keychain" \in KeyFile
      BY DEF KeyFile
    <3>2. QED
      BY <1>2, <1>3, <2>3, <3>1, CheckedGoesOn
  <2>4. QED
    BY <2>1, <2>2, <2>3
<1>6. QED
  BY <1>4, <1>5

\* A create or a rotation that has its signer goes on.
LEMMA SignerGoesOn ==
  ASSUME kyInv, NEW p \in Process, NEW c \in LoadCommand, LoadOK(c), NEW k \in Int,
         NEW stage \in {"send", "persist"}, k \in KeyHeld, stage = "persist" => k \in kyAccepted'
  PROVE  LET d == [c EXCEPT !.pc = stage, !.key = k]
         IN  d \in LoadCommand /\ (UNCHANGED kyEnrolled => CommandOK(d)')
<1> DEFINE d == [c EXCEPT !.pc = stage, !.key = k]
<1>1. /\ d \in LoadCommand /\ d.pc = stage /\ d.signer = c.signer /\ d.key = k
      /\ d.tier = c.tier /\ d.pass = c.pass /\ d.code = c.code
  BY DEF LoadCommand
<1> HIDE DEF d
<1>2. ASSUME UNCHANGED kyEnrolled PROVE CommandOK(d)'
  BY <1>1, <1>2 DEF CommandOK, LoadOK, LoadsEnrolled, EnrolledAs
<1>3. QED
  BY <1>1, <1>2 DEF d

LEMMA MintKeeps ==
  ASSUME kyInv, NEW p \in Process, mintAttestedSession(p)
  PROVE  kyInv'
<1>1. PICK c, f, n : c = kyCommands[p] /\ f = kyFiles.session.key /\ n = kyNext
  OBVIOUS
<1>2. c \in LoadCommand /\ LoadOK(c)
  BY <1>1, CommandKinds DEF mintAttestedSession, AtStep
<1>3. UNCHANGED <<kyEnrolled, kyTiers>> /\ n \in Nat \ {Missing} /\ n \in Int /\ n \in KeyHeld
  BY <1>1 DEF mintAttestedSession, kyInv, KeyHeld
<1>4. f \in Int /\ f \in KeyHeld
  BY <1>1 DEF kyInv, KeyFile, FileValue, KeyHeld, Torn
<1>5. CASE f = Torn
  <2>1. Refuses(p) /\ UNCHANGED <<kyNext, kyAccepted>>
    BY <1>1, <1>5 DEF mintAttestedSession, Torn, Missing
  <2>2. QED
    BY <1>3, <2>1, RefusesKeeps
<1>6. CASE f = Missing
  <2> DEFINE d == [c EXCEPT !.pc = "send", !.key = n]
  <2>1. f # Torn
    BY <1>6 DEF Missing, Torn
  <2>2. /\ kyNext' = n + 1 /\ Writes("session", Holds(n)) /\ Goes(p, d)
        /\ kyAccepted' = kyAccepted \cup {n}
    BY <1>1, <1>6, <2>1 DEF mintAttestedSession
  <2>3. d \in LoadCommand /\ CommandOK(d)'
    BY <1>2, <1>3, SignerGoesOn
  <2> HIDE DEF d
  <2>4. kyAccepted \subseteq kyAccepted'
    BY <2>2
  <2>5. /\ kyFiles' \in [KeyFile -> FileValue] /\ kyFiles'.sealed = kyFiles.sealed
        /\ kyFiles'.meta = kyFiles.meta /\ kyFiles'.session.key = n
    BY <1>3, <2>2, HoldsKey, FileWritten DEF KeyFile
  <2>6. FilesOK'
    BY <1>3, <2>2, <2>5 DEF FilesOK, kyInv, EnrolledAs
  <2>7. kyNext' \in Nat \ {Missing}
    BY <1>3, <2>2 DEF Missing
  <2>8. QED
    BY <1>3, <2>2, <2>3, <2>4, <2>5, <2>6, <2>7, ProcessMoves
<1>7. CASE f # Torn /\ f # Missing
  <2> DEFINE d == [c EXCEPT !.pc = "send", !.key = f]
  <2>1. Goes(p, d) /\ UNCHANGED <<kyFiles, kyNext, kyAccepted>>
    BY <1>1, <1>7, Zenon DEF mintAttestedSession
  <2>2. d \in LoadCommand /\ CommandOK(d)'
    BY <1>2, <1>3, <1>4, SignerGoesOn
  <2> HIDE DEF d
  <2>3. FilesOK' /\ kyFiles' \in [KeyFile -> FileValue]
    BY <1>3, <2>1, FilesStay
  <2>4. QED
    BY <1>1, <1>3, <2>1, <2>2, <2>3, ProcessMoves
<1>8. QED
  BY <1>5, <1>6, <1>7

LEMMA CreateAnsweredKeeps ==
  ASSUME kyInv, NEW p \in Process, CreateAnswered(p)
  PROVE  kyInv'
<1>1. /\ Refuses(p) /\ kyAccepted \subseteq kyAccepted'
      /\ UNCHANGED <<kyNext, kyEnrolled, kyTiers>>
  BY DEF CreateAnswered
<1>2. QED
  BY <1>1, RefusesKeeps

LEMMA RotateKeeps ==
  ASSUME kyInv, NEW p \in Process, runSessionRotate(p)
  PROVE  kyInv'
<1>1. PICK c, n : c = kyCommands[p] /\ n = kyNext
  OBVIOUS
<1>2. c \in LoadCommand /\ LoadOK(c)
  BY <1>1, CommandKinds DEF runSessionRotate
<1>3. UNCHANGED <<kyEnrolled, kyTiers>> /\ n \in Nat \ {Missing} /\ n \in Int /\ n \in KeyHeld /\ c.key \in Int
  BY <1>1, <1>2 DEF runSessionRotate, kyInv, LoadCommand, KeyHeld
<1>4. CASE /\ kyNext' = n + 1 /\ Goes(p, [c EXCEPT !.pc = "send", !.key = n])
           /\ UNCHANGED <<kyFiles, kyAccepted>>
  <2> DEFINE d == [c EXCEPT !.pc = "send", !.key = n]
  <2>1. d \in LoadCommand /\ CommandOK(d)'
    BY <1>2, <1>3, SignerGoesOn
  <2>2. Goes(p, d) /\ kyNext' \in Nat \ {Missing}
    BY <1>3, <1>4 DEF Missing
  <2> HIDE DEF d
  <2>3. FilesOK' /\ kyFiles' \in [KeyFile -> FileValue]
    BY <1>3, <1>4, FilesStay
  <2>4. QED
    BY <1>3, <1>4, <2>1, <2>2, <2>3, ProcessMoves
<1>5. CASE /\ c.pc = "send"
           /\ Goes(p, [c EXCEPT !.pc = "persist"]) /\ kyAccepted' = kyAccepted \cup {c.key}
           /\ UNCHANGED <<kyFiles, kyNext>>
  <2> DEFINE d == [c EXCEPT !.pc = "persist", !.key = c.key]
  <2>1. c.key \in KeyHeld
    BY <1>2, <1>5 DEF LoadOK
  <2>2. d \in LoadCommand /\ CommandOK(d)'
    BY <1>2, <1>3, <1>5, <2>1, SignerGoesOn
  <2>3. [c EXCEPT !.pc = "persist"] = d
    BY <1>2 DEF LoadCommand
  <2>4. Goes(p, d)
    BY <1>5, <2>3
  <2> HIDE DEF d
  <2>5. FilesOK' /\ kyFiles' \in [KeyFile -> FileValue] /\ kyAccepted \subseteq kyAccepted'
    BY <1>3, <1>5, FilesStay
  <2>6. QED
    BY <1>1, <1>3, <1>5, <2>2, <2>4, <2>5, ProcessMoves
<1>6. CASE /\ Refuses(p) /\ kyAccepted' \in {kyAccepted, kyAccepted \cup {c.key}}
           /\ UNCHANGED kyNext
  BY <1>3, <1>6, RefusesKeeps
<1>7. CASE /\ c.pc = "persist" /\ Writes("session", Holds(c.key)) /\ Goes(p, Idle)
           /\ UNCHANGED <<kyNext, kyAccepted>>
  <2>1. c.key \in kyAccepted /\ c.key \in KeyHeld
    BY <1>2, <1>7 DEF LoadOK
  <2>2. PICK v : v = Holds(c.key)
    OBVIOUS
  <2>3. v \in FileValue /\ v.key = c.key
    BY <2>1, <2>2, HoldsKey
  <2>4. CommandOK(Idle)'
    BY DEF CommandOK
  <2>5. /\ kyFiles' \in [KeyFile -> FileValue] /\ kyFiles'.sealed = kyFiles.sealed
        /\ kyFiles'.meta = kyFiles.meta /\ kyFiles'.session = v
    BY <1>7, <2>2, <2>3, FileWritten DEF KeyFile
  <2>6. FilesOK'
    BY <1>3, <1>7, <2>1, <2>3, <2>5 DEF FilesOK, kyInv, EnrolledAs
  <2>7. QED
    BY <1>1, <1>3, <1>7, <2>4, <2>5, <2>6, ProcessMoves
<1>8. QED
  BY <1>1, <1>4, <1>5, <1>6, <1>7, Zenon DEF runSessionRotate

\* Whatever file a process leaves torn is no part of an enrollment any more.
LEMMA DiesKeeps ==
  ASSUME kyInv, NEW p \in Process, Dies(p)
  PROVE  kyInv'
<1>1. Goes(p, Idle) /\ UNCHANGED <<kyNext, kyEnrolled, kyTiers, kyAccepted>> /\ kyNext' \in Nat \ {Missing}
  BY DEF Dies, kyInv
<1>2. CommandOK(Idle)'
  BY DEF CommandOK
<1>3. CASE UNCHANGED kyFiles
  <2>1. FilesOK' /\ kyFiles' \in [KeyFile -> FileValue]
    BY <1>1, <1>3, FilesStay
  <2>2. QED
    BY <1>1, <1>2, <2>1, ProcessMoves
<1>4. ASSUME NEW f, Writes(f, Holds(Torn))
      PROVE  kyInv'
  <2>1. Holds(Torn) \in FileValue /\ Holds(Torn).key = Torn
    BY HoldsKey DEF KeyHeld
  <2>2. PICK v \in FileValue : v.key = Torn /\ Writes(f, v)
    BY <1>4, <2>1, Zenon
  <2>3. /\ kyFiles' \in [KeyFile -> FileValue]
        /\ \A g \in KeyFile : kyFiles'[g] = kyFiles[g] \/ kyFiles'[g].key = Torn
    BY <2>2 DEF Writes, kyInv
  <2>4. /\ kyFiles'.sealed = kyFiles.sealed \/ kyFiles'.sealed.key = Torn
        /\ kyFiles'.meta = kyFiles.meta \/ kyFiles'.meta.key = Torn
        /\ kyFiles'.session = kyFiles.session \/ kyFiles'.session.key = Torn
    BY <2>3 DEF KeyFile
  <2>5. FilesOK'
    BY <1>1, <2>4 DEF FilesOK, kyInv, EnrolledAs
  <2>6. QED
    BY <1>1, <1>2, <2>3, <2>5, ProcessMoves
<1>5. QED
  BY <1>3, <1>4 DEF Dies

LEMMA KeysStart == kyInit => kyInv
<1> SUFFICES ASSUME kyInit PROVE kyInv
  OBVIOUS
<1>1. PICK v : v = Holds(Missing)
  OBVIOUS
<1>2. v \in FileValue /\ v.key = Missing
  BY <1>1, HoldsKey DEF KeyHeld, Missing
<1>3. kyFiles = [f \in KeyFile |-> v]
  BY <1>1, Zenon DEF kyInit, KeyFile
<1>4. /\ kyFiles \in [KeyFile -> FileValue] /\ kyFiles.sealed = v /\ kyFiles.meta = v /\ kyFiles.session = v
  BY <1>2, <1>3 DEF KeyFile
<1>5. kyNext \in Nat \ {Missing} /\ kyTiers \subseteq SignerTier
  BY KeysAssumption DEF kyInit, Missing
<1>6. /\ kyCommands \in [Process -> {Idle} \cup EnrollCommand \cup LoadCommand]
      /\ \A p \in Process : kyCommands[p] = Idle
  BY DEF kyInit
<1>7. QED
  BY <1>2, <1>4, <1>5, <1>6 DEF kyInv, FilesOK, CommandOK

LEMMA KeysKeep == kyInv /\ [kyNextStep]_kyVars => kyInv'
<1> SUFFICES ASSUME kyInv, [kyNextStep]_kyVars PROVE kyInv'
  OBVIOUS
<1>1. CASE UNCHANGED kyVars
  BY <1>1 DEF kyVars, kyInv, FilesOK, CommandOK, LoadOK, LoadsEnrolled, EnrolledAs
<1>2. ASSUME NEW p \in Process, StartEnroll(p) \/ enrollTOTPSigner(p) \/ enrollOSKeychainSigner(p)
      PROVE  kyInv'
  BY <1>2, StartEnrollKeeps, EnrollTOTPKeeps, EnrollOSKeychainKeeps
<1>3. ASSUME NEW p \in Process, StartSession(p) \/ LoadSteps(p)
      PROVE  kyInv'
  BY <1>3, StartSessionKeeps, LoadSoftwareKeeps, LoadTOTPKeeps, LoadOSKeychainKeeps DEF LoadSteps
<1>4. ASSUME NEW p \in Process,
             mintAttestedSession(p) \/ CreateAnswered(p) \/ runSessionRotate(p) \/ Dies(p)
      PROVE  kyInv'
  BY <1>4, MintKeeps, CreateAnsweredKeeps, RotateKeeps, DiesKeeps
<1>5. QED
  BY <1>1, <1>2, <1>3, <1>4, TimePassesKeeps DEF kyNextStep

\* However enrollments and sessions overlap, die half-way or follow one another: a
\* command signs only with the key of one enrollment, whose passphrase and whose
\* current code it was given, and no rotation that the daemon has not accepted
\* replaces the session's key (signer/totp.ts, signer/os-keychain.ts, session.ts).
THEOREM SignersAlwaysHold == kySpec => []SignersHold
<1>1. kyInv => SignersHold
  <2> SUFFICES ASSUME kyInv PROVE SignersHold
    OBVIOUS
  <2>1. ASSUME NEW p \in Process,
               kyCommands[p].cmd \in {"create", "rotate"}, kyCommands[p].signer # Missing,
               kyCommands[p].tier # "software"
        PROVE  \E e \in kyEnrolled :
                 /\ e.tier = kyCommands[p].tier /\ e.key = kyCommands[p].signer
                 /\ kyCommands[p].tier = "totp" =>
                      e.pass = kyCommands[p].pass /\ kyCommands[p].code = [of |-> e.key, age |-> 0]
    <3>1. LoadsEnrolled(kyCommands[p], kyCommands[p].signer)
      BY <2>1, CommandKinds DEF LoadOK
    <3>2. QED
      BY <3>1 DEF LoadsEnrolled, EnrolledAs
  <2>2. LoadedIsEnrolled
    BY <2>1 DEF LoadedIsEnrolled
  <2>3. QED
    BY <2>2 DEF SignersHold, RefusedRotateKeepsKey, kyInv, FilesOK
<1>2. QED
  BY <1>1, KeysStart, KeysKeep, PTL DEF kySpec

-----------------------------------------------------------------------------
(* RULE REGISTRIES, one command at a time.  What a command does depends on   *)
(* the list it has read: with a second process, or after one that died in    *)
(* the list, another one is on disk.                                         *)

AddRun ==
  [cmd : {"add"}, id : RegistryId, pc : {"clone", "wipe", "write"}, read : SUBSET RegistryId]
SyncRun == [cmd : {"sync"}, todo : SUBSET RegistryId]
RemoveRun == [cmd : {"remove"}, id : RegistryId]
RegistryRun == {NoRegistry} \cup AddRun \cup SyncRun \cup RemoveRun

\* An add works on a registry that is not there, from the list of those that are.
RunOK(r) ==
  /\ r.cmd = "add" => /\ r \in AddRun /\ r.id \notin rgAdded /\ rgAdded \subseteq r.read
                      /\ r.pc = "write" => rgDirs[r.id] = "clone"
  /\ r.cmd = "sync" => r \in SyncRun
  /\ r.cmd = "remove" => r \in RemoveRun /\ r.id \notin rgAdded
  /\ r.cmd # "idle" => rgFailed = {}

rgInv ==
  /\ rgList \in [ids : SUBSET RegistryId, whole : BOOLEAN]
  /\ rgDirs \in [RegistryId -> {"none", "partial", "clone"}]
  /\ rgAdded \subseteq RegistryId /\ rgFailed \subseteq RegistryId
  /\ rgRun \in [Caller -> RegistryRun]
  /\ AddedStays /\ FailedAddLeavesNothing
  /\ \A c \in Caller : RunOK(rgRun[c])

LEMMA OneRunMoves ==
  ASSUME \A c, d \in Caller : c = d, rgInv, NEW c \in Caller, NEW r \in RegistryRun,
         Then(c, r), RunOK(r)',
         rgList' \in [ids : SUBSET RegistryId, whole : BOOLEAN],
         rgDirs' \in [RegistryId -> {"none", "partial", "clone"}],
         rgAdded' \subseteq RegistryId, rgFailed' \subseteq RegistryId,
         AddedStays', FailedAddLeavesNothing'
  PROVE  rgInv'
<1>1. rgRun' \in [Caller -> RegistryRun] /\ \A d \in Caller : rgRun'[d] = r
  BY DEF Then, rgInv
<1>2. QED
  BY <1>1 DEF rgInv, RunOK

LEMMA EndsIsThen ==
  ASSUME NEW c, Ends(c)
  PROVE  Then(c, NoRegistry) /\ NoRegistry \in RegistryRun /\ RunOK(NoRegistry)'
<1>1. NoRegistry.cmd = "idle"
  BY DEF NoRegistry
<1>2. QED
  BY <1>1 DEF Ends, Then, RegistryRun, RunOK

LEMMA RunKinds ==
  ASSUME rgInv, NEW c \in Caller
  PROVE  /\ RunOK(rgRun[c])
         /\ rgBusy(c) => rgFailed = {}
BY DEF rgInv, rgBusy, RunOK

LEMMA StartAddKeeps ==
  ASSUME \A c, d \in Caller : c = d, rgInv, NEW c \in Caller,
         Readable, NEW r \in RegistryId \ rgList.ids,
         Then(c, [cmd |-> "add", id |-> r, pc |-> "clone", read |-> rgList.ids]),
         rgFailed' = {}, UNCHANGED <<rgList, rgDirs, rgAdded>>
  PROVE  rgInv'
<1>1. PICK ids : ids = rgList.ids
  OBVIOUS
<1> DEFINE t == [cmd |-> "add", id |-> r, pc |-> "clone", read |-> ids]
<1>2. ids \subseteq RegistryId /\ rgAdded \subseteq ids
  BY <1>1 DEF rgInv, AddedStays, Readable
<1>3. t \in AddRun /\ t.cmd = "add" /\ t.id = r /\ t.pc = "clone" /\ t.read = ids
  BY <1>2 DEF AddRun
<1>4. Then(c, t)
  BY <1>1
<1> HIDE DEF t
<1>5. r \notin rgAdded
  BY <1>1, <1>2
<1>6. RunOK(t)'
  BY <1>2, <1>3, <1>5 DEF RunOK
<1>7. AddedStays' /\ FailedAddLeavesNothing'
  BY DEF rgInv, AddedStays, FailedAddLeavesNothing
<1>8. QED
  BY <1>3, <1>4, <1>6, <1>7, OneRunMoves DEF rgInv, RegistryRun

\* Only registries that are not added change their directory.
LEMMA DirectoryChanges ==
  ASSUME rgInv, NEW r, r \notin rgAdded, NEW state \in {"none", "partial", "clone"},
         rgDirs' = [rgDirs EXCEPT ![r] = state], UNCHANGED <<rgList, rgAdded>>
  PROVE  rgDirs' \in [RegistryId -> {"none", "partial", "clone"}] /\ AddedStays'
         /\ (r \in RegistryId => rgDirs'[r] = state)
BY DEF rgInv, AddedStays

LEMMA CloneKeeps ==
  ASSUME \A c, d \in Caller : c = d, rgInv, NEW c \in Caller, NEW r, r = rgRun[c],
         r.cmd = "add", r.pc = "clone",
         \/ /\ rgDirs' = [rgDirs EXCEPT ![r.id] = "clone"]
            /\ Then(c, [r EXCEPT !.pc = "write"])
         \/ rgDirs' = [rgDirs EXCEPT ![r.id] = "partial"] /\ Then(c, [r EXCEPT !.pc = "wipe"]),
         UNCHANGED <<rgList, rgAdded, rgFailed>>
  PROVE  rgInv'
<1>1. r \in AddRun /\ r.id \notin rgAdded /\ rgAdded \subseteq r.read /\ rgFailed = {}
  BY RunKinds DEF rgBusy, RunOK
<1>2. PICK stage \in {"write", "wipe"}, state \in {"none", "partial", "clone"} :
        /\ rgDirs' = [rgDirs EXCEPT ![r.id] = state] /\ Then(c, [r EXCEPT !.pc = stage])
        /\ stage = "write" => state = "clone"
  OBVIOUS
<1> DEFINE t == [r EXCEPT !.pc = stage]
<1>3. t \in AddRun /\ t.cmd = "add" /\ t.id = r.id /\ t.pc = stage /\ t.read = r.read /\ r.id \in RegistryId
  BY <1>1 DEF AddRun
<1>4. Then(c, t)
  BY <1>2
<1> HIDE DEF t
<1>5. /\ rgDirs' \in [RegistryId -> {"none", "partial", "clone"}] /\ AddedStays'
      /\ rgDirs'[r.id] = state
  BY <1>1, <1>2, <1>3, DirectoryChanges
<1>6. RunOK(t)'
  BY <1>1, <1>2, <1>3, <1>5 DEF RunOK
<1>7. FailedAddLeavesNothing'
  BY <1>1 DEF FailedAddLeavesNothing
<1>8. QED
  BY <1>1, <1>3, <1>4, <1>5, <1>6, <1>7, OneRunMoves DEF rgInv, RegistryRun

LEMMA AddKeeps ==
  ASSUME \A c, d \in Caller : c = d, rgInv, NEW c \in Caller, runRulesAdd(c)
  PROVE  rgInv'
<1>1. PICK r : r = rgRun[c]
  OBVIOUS
<1>2. RunOK(r) /\ (r.cmd # "idle" => rgFailed = {})
  BY <1>1, RunKinds DEF rgBusy
<1>3. CASE /\ r.cmd = "add" /\ r.pc = "wipe"
           /\ rgDirs' = [rgDirs EXCEPT ![r.id] = "none"]
           /\ rgFailed' = {r.id} /\ Ends(c)
           /\ UNCHANGED <<rgList, rgAdded>>
  <2>1. r \in AddRun /\ r.id \in RegistryId /\ r.id \notin rgAdded
    BY <1>2, <1>3 DEF RunOK, AddRun
  <2>2. /\ rgDirs' \in [RegistryId -> {"none", "partial", "clone"}] /\ AddedStays'
        /\ rgDirs'[r.id] = "none"
    BY <1>3, <2>1, DirectoryChanges
  <2>3. FailedAddLeavesNothing' /\ rgFailed' \subseteq RegistryId
    BY <1>3, <2>1, <2>2 DEF FailedAddLeavesNothing
  <2>4. QED
    BY <1>3, <2>2, <2>3, EndsIsThen, OneRunMoves DEF rgInv
<1>4. CASE /\ r.cmd = "add" /\ r.pc = "write"
           /\ writeRegistries(r.read \cup {r.id})
           /\ rgAdded' = rgAdded \cup {r.id} /\ Ends(c)
           /\ UNCHANGED <<rgDirs, rgFailed>>
  <2>1. /\ r.id \in RegistryId /\ r.read \subseteq RegistryId /\ rgAdded \subseteq r.read
        /\ rgDirs[r.id] = "clone"
    BY <1>2, <1>4 DEF RunOK, AddRun
  <2>2. /\ rgList' \in [ids : SUBSET RegistryId, whole : BOOLEAN]
        /\ rgList'.ids = r.read \cup {r.id} /\ rgAdded' \subseteq RegistryId
    BY <1>4, <2>1 DEF writeRegistries, rgInv
  <2>3. AddedStays' /\ FailedAddLeavesNothing'
    BY <1>4, <2>1, <2>2 DEF rgInv, AddedStays, FailedAddLeavesNothing
  <2>4. QED
    BY <1>4, <2>2, <2>3, EndsIsThen, OneRunMoves DEF rgInv
<1>5. QED
  BY <1>1, <1>3, <1>4, StartAddKeeps, CloneKeeps, Zenon DEF runRulesAdd

\* A command that looks at the registries first adds the upstream one.
LEMMA EnsureUpstreamKeeps ==
  ASSUME \A c, d \in Caller : c = d, rgInv, NEW c \in Caller, ensureUpstreamRegistered(c)
  PROVE  rgInv'
<1>1. /\ rgList' \in [ids : SUBSET RegistryId, whole : BOOLEAN]
      /\ rgList.ids \subseteq rgList'.ids /\ rgList.ids \subseteq RegistryId /\ rgList.whole
  <2>1. rgList.ids \subseteq RegistryId /\ rgList.whole /\ Upstream \in RegistryId
    BY DEF ensureUpstreamRegistered, rgInv, RegistryId, Readable
  <2>2. rgList' = rgList \/ rgList' = [ids |-> rgList.ids \cup {Upstream}, whole |-> TRUE]
    BY DEF ensureUpstreamRegistered, writeRegistries
  <2>3. rgList.ids \cup {Upstream} \in SUBSET RegistryId
    BY <2>1
  <2>4. CASE rgList' = rgList
    BY <2>1, <2>4 DEF rgInv
  <2>5. CASE rgList' = [ids |-> rgList.ids \cup {Upstream}, whole |-> TRUE]
    BY <2>1, <2>3, <2>5
  <2>6. QED
    BY <2>2, <2>4, <2>5
<1>2. rgFailed' = {} /\ UNCHANGED <<rgDirs, rgAdded>> /\ rgRun[c].cmd = "idle"
  BY DEF ensureUpstreamRegistered, rgBusy
<1>3. AddedStays' /\ FailedAddLeavesNothing'
  BY <1>1, <1>2 DEF rgInv, AddedStays, FailedAddLeavesNothing
<1>4. CASE UNCHANGED rgRun
  BY <1>1, <1>2, <1>3, <1>4 DEF rgInv, RunOK
<1>5. CASE Then(c, [cmd |-> "sync", todo |-> rgList.ids \cup {Upstream}])
  <2>1. PICK ids : ids = rgList.ids \cup {Upstream}
    OBVIOUS
  <2> DEFINE t == [cmd |-> "sync", todo |-> ids]
  <2>2. ids \subseteq RegistryId
    BY <1>1, <2>1 DEF RegistryId
  <2>3. t \in SyncRun /\ t.cmd = "sync"
    BY <2>2 DEF SyncRun
  <2>4. Then(c, t)
    BY <1>5, <2>1
  <2> HIDE DEF t
  <2>5. RunOK(t)'
    BY <1>2, <2>3 DEF RunOK
  <2>6. QED
    BY <1>1, <1>2, <1>3, <2>3, <2>4, <2>5, OneRunMoves DEF rgInv, RegistryRun
<1>6. QED
  BY <1>4, <1>5 DEF ensureUpstreamRegistered

LEMMA SyncKeeps ==
  ASSUME \A c, d \in Caller : c = d, rgInv, NEW c \in Caller, runRulesSync(c)
  PROVE  rgInv'
<1>1. PICK r : r = rgRun[c]
  OBVIOUS
<1>2. r.cmd = "sync" /\ r \in SyncRun /\ rgFailed = {} /\ UNCHANGED <<rgList, rgAdded, rgFailed>>
  BY <1>1, RunKinds DEF runRulesSync, rgBusy, RunOK
<1>3. FailedAddLeavesNothing'
  BY <1>2 DEF FailedAddLeavesNothing
<1>4. CASE r.todo = {}
  <2>1. Ends(c) /\ UNCHANGED rgDirs
    BY <1>1, <1>4 DEF runRulesSync
  <2>2. AddedStays'
    BY <1>2, <2>1 DEF rgInv, AddedStays
  <2>3. QED
    BY <1>2, <1>3, <2>1, <2>2, EndsIsThen, OneRunMoves DEF rgInv
<1>5. CASE r.todo # {}
  <2>1. PICK id \in r.todo :
          /\ Then(c, [r EXCEPT !.todo = @ \ {id}])
          /\ IF rgDirs[id] = "none"
               THEN rgDirs' \in {rgDirs, [rgDirs EXCEPT ![id] = "clone"]}
               ELSE UNCHANGED rgDirs
    BY <1>1, <1>5 DEF runRulesSync
  <2> DEFINE t == [r EXCEPT !.todo = @ \ {id}]
  <2>2. t \in SyncRun /\ t.cmd = "sync"
    BY <1>2 DEF SyncRun
  <2>3. Then(c, t)
    BY <2>1
  <2> HIDE DEF t
  <2>4. RunOK(t)'
    BY <1>2, <2>2 DEF RunOK
  <2>5. rgDirs' \in [RegistryId -> {"none", "partial", "clone"}] /\ AddedStays'
    BY <1>2, <2>1 DEF rgInv, AddedStays
  <2>6. QED
    BY <1>2, <1>3, <2>2, <2>3, <2>4, <2>5, OneRunMoves DEF rgInv, RegistryRun
<1>6. QED
  BY <1>4, <1>5

LEMMA RemoveKeeps ==
  ASSUME \A c, d \in Caller : c = d, rgInv, NEW c \in Caller, runRulesRemove(c)
  PROVE  rgInv'
<1>1. ASSUME Readable, NEW r \in rgList.ids, writeRegistries(rgList.ids \ {r}),
             Then(c, [cmd |-> "remove", id |-> r]), rgAdded' = rgAdded \ {r},
             rgFailed' = {}, UNCHANGED rgDirs
      PROVE  rgInv'
  <2> DEFINE t == [cmd |-> "remove", id |-> r]
  <2>1. r \in RegistryId /\ rgList.ids \subseteq RegistryId /\ rgAdded \subseteq rgList.ids
    BY <1>1 DEF rgInv, AddedStays, Readable
  <2>2. t \in RemoveRun /\ t.cmd = "remove" /\ t.id = r
    BY <2>1 DEF RemoveRun
  <2>3. Then(c, t)
    BY <1>1
  <2> HIDE DEF t
  <2>4. RunOK(t)'
    BY <1>1, <2>2 DEF RunOK
  <2>5. /\ rgList' \in [ids : SUBSET RegistryId, whole : BOOLEAN] /\ rgList'.ids = rgList.ids \ {r}
        /\ rgAdded' \subseteq RegistryId
    BY <1>1, <2>1 DEF writeRegistries, rgInv
  <2>6. AddedStays' /\ FailedAddLeavesNothing'
    BY <1>1, <2>1, <2>5 DEF rgInv, AddedStays, FailedAddLeavesNothing
  <2>7. QED
    BY <1>1, <2>2, <2>3, <2>4, <2>5, <2>6, OneRunMoves DEF rgInv, RegistryRun
<1>2. ASSUME rgRun[c].cmd = "remove", rgDirs' = [rgDirs EXCEPT ![rgRun[c].id] = "none"],
             Ends(c), UNCHANGED <<rgList, rgAdded, rgFailed>>
      PROVE  rgInv'
  <2>1. PICK r : r = rgRun[c]
    OBVIOUS
  <2>2. r.id \notin rgAdded /\ rgFailed = {}
    BY <1>2, <2>1, RunKinds DEF rgBusy, RunOK
  <2>3. rgDirs' \in [RegistryId -> {"none", "partial", "clone"}] /\ AddedStays'
    BY <1>2, <2>1, <2>2, DirectoryChanges
  <2>4. FailedAddLeavesNothing'
    BY <1>2, <2>2 DEF FailedAddLeavesNothing
  <2>5. QED
    BY <1>2, <2>3, <2>4, EndsIsThen, OneRunMoves DEF rgInv
<1>3. QED
  BY <1>1, <1>2 DEF runRulesRemove

\* A clone that is cut short is of a registry that is not added.
LEMMA CallerDiesKeeps ==
  ASSUME \A c, d \in Caller : c = d, rgInv, NEW c \in Caller, CallerDies(c)
  PROVE  rgInv'
<1>1. PICK r : r = rgRun[c]
  OBVIOUS
<1>2. Ends(c) /\ rgFailed = {} /\ UNCHANGED <<rgAdded, rgFailed>> /\ RunOK(r)
  BY <1>1, RunKinds DEF CallerDies
<1>3. FailedAddLeavesNothing'
  BY <1>2 DEF FailedAddLeavesNothing
<1>4. CASE UNCHANGED <<rgList, rgDirs>>
  <2>1. AddedStays'
    BY <1>2, <1>4 DEF rgInv, AddedStays
  <2>2. QED
    BY <1>2, <1>3, <1>4, <2>1, EndsIsThen, OneRunMoves DEF rgInv
<1>5. ASSUME NEW id, rgDirs[id] = "none", id \in RegistryId,
             rgDirs' = [rgDirs EXCEPT ![id] = "partial"], UNCHANGED rgList
      PROVE  rgInv'
  <2>1. id \notin rgAdded
    BY <1>5 DEF rgInv, AddedStays
  <2>2. rgDirs' \in [RegistryId -> {"none", "partial", "clone"}] /\ AddedStays'
    BY <1>2, <1>5, <2>1, DirectoryChanges
  <2>3. QED
    BY <1>2, <1>3, <1>5, <2>2, EndsIsThen, OneRunMoves DEF rgInv
<1>6. CASE rgList' = [ids |-> {}, whole |-> FALSE] /\ UNCHANGED rgDirs
  <2>1. AddedStays' /\ rgList' \in [ids : SUBSET RegistryId, whole : BOOLEAN]
    BY <1>2, <1>6 DEF rgInv, AddedStays
  <2>2. QED
    BY <1>2, <1>3, <1>6, <2>1, EndsIsThen, OneRunMoves DEF rgInv
<1>7. /\ r.cmd = "add" => r.id \in RegistryId
      /\ r.cmd = "sync" => r.todo \subseteq RegistryId
  BY <1>2 DEF RunOK, AddRun, SyncRun
<1>8. QED
  BY <1>1, <1>4, <1>5, <1>6, <1>7 DEF CallerDies

LEMMA RegistriesKeep ==
  ASSUME \A c, d \in Caller : c = d
  PROVE  rgInv /\ [rgNext]_rgVars => rgInv'
<1> SUFFICES ASSUME rgInv, [rgNext]_rgVars PROVE rgInv'
  OBVIOUS
<1>1. CASE UNCHANGED <<rgList, rgDirs, rgRun, rgAdded, rgFailed>>
  BY <1>1 DEF rgInv, RunOK, AddedStays, FailedAddLeavesNothing
<1>2. ASSUME NEW c \in Caller,
             runRulesAdd(c) \/ ensureUpstreamRegistered(c) \/ runRulesSync(c)
             \/ runRulesRemove(c) \/ CallerDies(c)
      PROVE  rgInv'
  BY <1>2, AddKeeps, EnsureUpstreamKeeps, SyncKeeps, RemoveKeeps, CallerDiesKeeps
<1>3. QED
  BY <1>1, <1>2 DEF rgNext, runRulesInstall, runRulesUninstall, rgVars

\* rules.ts, one command at a time: a registry that was reported as added stays
\* cloned and listed until it is removed, whichever commands follow, fail or die,
\* and an add that has failed leaves nothing in the way of the next.
THEOREM RegistriesAlwaysHold ==
  ASSUME \A c, d \in Caller : c = d
  PROVE  rgSpec => []RegistriesHold
<1>1. rgInit => rgInv
  <2> SUFFICES ASSUME rgInit PROVE rgInv
    OBVIOUS
  <2>1. \A c \in Caller : rgRun[c] = NoRegistry /\ NoRegistry.cmd = "idle"
    BY DEF rgInit, NoRegistry
  <2>2. rgRun \in [Caller -> RegistryRun]
    BY DEF rgInit, RegistryRun
  <2>3. /\ rgList \in [ids : SUBSET RegistryId, whole : BOOLEAN]
        /\ rgDirs \in [RegistryId -> {"none", "partial", "clone"}] /\ rgAdded = {} /\ rgFailed = {}
    BY DEF rgInit
  <2>4. QED
    BY <2>1, <2>2, <2>3 DEF rgInv, RunOK, AddedStays, FailedAddLeavesNothing
<1>2. rgInv => RegistriesHold
  BY DEF rgInv, RegistriesHold
<1>3. rgInv /\ [rgNext]_rgVars => rgInv'
  BY RegistriesKeep
<1>4. QED
  BY <1>1, <1>2, <1>3, PTL DEF rgSpec

-----------------------------------------------------------------------------
(* GUARDRAILS, for any concurrent checks, entries, configured providers and  *)
(* number of traces.  The stages of a check are what its classifiers said, as *)
(* long as it is open; its number then belongs to its ledger entry alone.     *)

Asking == {"stage", "listing", "caching", "running"}
Said == {"allow", "deny", "abstain"}
GuardCall ==
  [at : Asking \cup {"idle", "append", "record"}, call : Nat, asked : Seq(gdEntry),
   stages : Seq(Said), held : SUBSET gdEntry, seq : Nat]
GuardEntry ==
  [call : Nat, asked : Seq(gdEntry), stages : Seq(Said), verdict : Said \cup {"skipped"}]

SaidOf(n, e, verdict) == [call |-> n, entry |-> e, verdict |-> verdict] \in gdSaid
Open(call) == call.at \in Asking \cup {"append"}

\* The stages of a check and what was said of it are the same.
ChecksAnswered(call) ==
  /\ Len(call.stages) <= Len(call.asked)
  /\ \A i \in 1..Len(call.stages) :
       call.stages[i] # "abstain" => SaidOf(call.call, call.asked[i], call.stages[i])
  /\ \A e \in gdEntry : SaidOf(call.call, e, "deny") =>
       \E i \in 1..Len(call.stages) : call.stages[i] = "deny"

CheckOK(call) ==
  /\ Open(call) => call.call \in 1..gdCount /\ ChecksAnswered(call)
  /\ call.at \in Asking => Len(call.stages) < Len(call.asked)
  /\ call.at = "listing" => Turn(call).provider \in gdConfigured
  /\ call.at = "append" => \/ Len(call.stages) = Len(call.asked)
                           \/ \E i \in 1..Len(call.stages) : call.stages[i] = "deny"
  /\ call.at = "record" => call.seq \in 1..Len(gdLedger) /\ gdLedger[call.seq] = Trace(call)

gdTypeOK ==
  /\ gdEnabled \in Seq(gdEntry) /\ gdCount \in Nat
  /\ gdCatalog \in [gdConfigured -> SUBSET gdEntry]
  /\ gdCalls \in [gdCaller -> GuardCall]
  /\ gdSaid \subseteq [call : 1..gdCount, entry : gdEntry, verdict : {"allow", "deny"}]
  /\ gdLedger \in Seq(GuardEntry) /\ \A n \in 1..Len(gdLedger) : gdLedger[n].call <= gdCount

\* No two open checks have one number, and none that of an entry.
NumbersApart ==
  \A c \in gdCaller : Open(gdCalls[c]) =>
    /\ \A d \in gdCaller : d # c /\ Open(gdCalls[d]) => gdCalls[d].call # gdCalls[c].call
    /\ \A n \in 1..Len(gdLedger) : gdLedger[n].call # gdCalls[c].call

TracesKept ==
  /\ gdOrder \in Seq(Nat) /\ Len(gdOrder) <= gdMaxTraces
  /\ \A i, j \in 1..Len(gdOrder) : gdOrder[i] = gdOrder[j] => i = j
  /\ DOMAIN gdTraces = ToSet(gdOrder)
  /\ \A n \in ToSet(gdOrder) : n \in 1..Len(gdLedger) /\ gdTraces[n] = gdLedger[n]

gdInv ==
  /\ gdTypeOK /\ NumbersApart /\ TracesKept /\ VerdictsAreAnswers
  /\ \A c \in gdCaller : CheckOK(gdCalls[c])

-----------------------------------------------------------------------------
\* Entries are of other checks than those that are still open.
LEMMA EntriesStay ==
  ASSUME gdInv, UNCHANGED gdLedger, NEW m,
         \A n \in 1..Len(gdLedger) : gdLedger[n].call # m,
         \A n, e, v : n # m => (SaidOf(n, e, v)' <=> SaidOf(n, e, v))
  PROVE  VerdictsAreAnswers'
<1> SUFFICES ASSUME NEW n \in DOMAIN gdLedger, gdLedger[n].verdict # "skipped"
             PROVE  LET t == gdLedger[n] IN
                    /\ t.verdict = "deny" <=> \E e \in gdEntry : SaidOf(t.call, e, "deny")'
                    /\ t.verdict = "deny" => \E e \in ToSet(t.asked) : SaidOf(t.call, e, "deny")'
                    /\ t.verdict = "allow" => \A e \in ToSet(t.asked) : SaidOf(t.call, e, "allow")'
  BY DEF VerdictsAreAnswers, SaidOf
<1>1. n \in 1..Len(gdLedger) /\ gdLedger[n].call # m
  BY DEF gdInv, gdTypeOK
<1>2. LET t == gdLedger[n] IN
      /\ t.verdict = "deny" <=> \E e \in gdEntry : SaidOf(t.call, e, "deny")
      /\ t.verdict = "deny" => \E e \in ToSet(t.asked) : SaidOf(t.call, e, "deny")
      /\ t.verdict = "allow" => \A e \in ToSet(t.asked) : SaidOf(t.call, e, "allow")
  BY DEF gdInv, VerdictsAreAnswers, SaidOf
<1>3. QED
  BY <1>1, <1>2

\* One check goes on; what is said meanwhile is said of it.
LEMMA OneCheckMoves ==
  ASSUME gdInv, NEW c \in gdCaller, NEW call \in GuardCall, gdGoes(c, call),
         Open(call) => Open(gdCalls[c]) /\ call.call = gdCalls[c].call,
         CheckOK(call)', gdSaid \subseteq gdSaid',
         gdSaid' \subseteq [call : 1..gdCount, entry : gdEntry, verdict : {"allow", "deny"}],
         \A s \in gdSaid' \ gdSaid : Open(gdCalls[c]) /\ s.call = gdCalls[c].call,
         UNCHANGED <<gdEnabled, gdCount, gdCatalog, gdLedger>>, TracesKept'
  PROVE  gdInv'
<1>1. /\ gdCalls' \in [gdCaller -> GuardCall] /\ gdCalls'[c] = call
      /\ \A d \in gdCaller : d # c => gdCalls'[d] = gdCalls[d]
  BY DEF gdInv, gdTypeOK, gdGoes
<1>2. gdTypeOK'
  BY <1>1 DEF gdInv, gdTypeOK
<1>3. NumbersApart'
  BY <1>1 DEF gdInv, NumbersApart
<1>4. \A n, e, v : SaidOf(n, e, v)' /\ ~SaidOf(n, e, v) => Open(gdCalls[c]) /\ n = gdCalls[c].call
  <2> SUFFICES ASSUME NEW n, NEW e, NEW v, SaidOf(n, e, v)', ~SaidOf(n, e, v)
               PROVE  Open(gdCalls[c]) /\ n = gdCalls[c].call
    OBVIOUS
  <2>1. PICK s : s = [call |-> n, entry |-> e, verdict |-> v]
    OBVIOUS
  <2>2. s \in gdSaid' \ gdSaid /\ s.call = n
    BY <2>1 DEF SaidOf
  <2>3. QED
    BY <2>2
<1>5. \A n, e, v : SaidOf(n, e, v) => SaidOf(n, e, v)'
  BY DEF SaidOf
<1>6. VerdictsAreAnswers'
  <2>1. CASE Open(gdCalls[c])
    <3>1. \A n \in 1..Len(gdLedger) : gdLedger[n].call # gdCalls[c].call
      BY <2>1 DEF gdInv, NumbersApart
    <3>2. PICK m : m = gdCalls[c].call
      OBVIOUS
    <3>3. QED
      BY <1>4, <1>5, <3>1, <3>2, EntriesStay
  <2>2. CASE ~Open(gdCalls[c])
    <3>1. \A n, e, v : SaidOf(n, e, v)' <=> SaidOf(n, e, v)
      BY <1>4, <1>5, <2>2
    <3>2. PICK m : m = gdCount + 1
      OBVIOUS
    <3>3. \A n \in 1..Len(gdLedger) : gdLedger[n].call \in Nat /\ gdLedger[n].call <= gdCount
      <4> SUFFICES ASSUME NEW n \in 1..Len(gdLedger)
                   PROVE  gdLedger[n].call \in Nat /\ gdLedger[n].call <= gdCount
        OBVIOUS
      <4>1. gdLedger \in Seq(GuardEntry) /\ gdLedger[n].call <= gdCount
        BY DEF gdInv, gdTypeOK
      <4>2. gdLedger[n] \in GuardEntry
        BY <4>1
      <4>3. QED
        BY <4>1, <4>2 DEF GuardEntry
    <3>4. gdCount \in Nat
      BY DEF gdInv, gdTypeOK
    <3>5. \A n \in 1..Len(gdLedger) : gdLedger[n].call # m
      BY <3>2, <3>3, <3>4
    <3>6. QED
      BY <3>1, <3>5, EntriesStay
  <2>3. QED
    BY <2>1, <2>2
<1>7. ASSUME NEW d \in gdCaller PROVE CheckOK(gdCalls[d])'
  <2>1. CASE d = c
    BY <1>1, <2>1
  <2>2. CASE d # c
    <3>1. PICK x : x = gdCalls[d] /\ x = gdCalls'[d]
      BY <1>1, <2>2
    <3>2. CheckOK(x)
      BY <3>1 DEF gdInv
    <3>3. Open(x) => \A e, v : SaidOf(x.call, e, v)' <=> SaidOf(x.call, e, v)
      BY <1>4, <1>5, <2>2, <3>1 DEF gdInv, NumbersApart
    <3>4. Open(x) /\ ChecksAnswered(x) => ChecksAnswered(x)'
      BY <3>3, Zenon DEF ChecksAnswered
    <3>5. CheckOK(x)'
      BY <3>2, <3>4 DEF CheckOK
    <3>6. QED
      BY <3>1, <3>5
  <2>3. QED
    BY <2>1, <2>2
<1>8. QED
  BY <1>2, <1>3, <1>6, <1>7 DEF gdInv

\* A stage that has been answered, or has not, is the last of its check.
LEMMA StageAdded ==
  ASSUME NEW call \in GuardCall, Len(call.stages) < Len(call.asked), NEW verdict \in Said
  PROVE  LET next == AfterStage(call, verdict) IN
         /\ next \in GuardCall /\ next.call = call.call /\ next.asked = call.asked
         /\ next.stages = Append(call.stages, verdict)
         /\ Len(next.stages) = Len(call.stages) + 1 /\ next.stages[Len(call.stages) + 1] = verdict
         /\ \A i \in 1..Len(call.stages) : next.stages[i] = call.stages[i]
         /\ next.at = IF verdict = "deny" \/ Len(next.stages) = Len(next.asked) THEN "append" ELSE "stage"
<1>1. PICK stages : stages = Append(call.stages, verdict)
  OBVIOUS
<1>2. call.stages \in Seq(Said) /\ call.asked \in Seq(gdEntry)
  BY DEF GuardCall
<1>3. /\ stages \in Seq(Said) /\ Len(stages) = Len(call.stages) + 1
      /\ stages[Len(call.stages) + 1] = verdict
      /\ \A i \in 1..Len(call.stages) : stages[i] = call.stages[i]
  BY <1>1, <1>2
<1>4. PICK at : at = IF verdict = "deny" \/ Len(stages) = Len(call.asked) THEN "append" ELSE "stage"
  OBVIOUS
<1>5. at \in {"append", "stage"}
  BY <1>4
<1> DEFINE next == [call EXCEPT !.stages = stages, !.held = {}, !.at = at]
<1>6. next = AfterStage(call, verdict)
  BY <1>1, <1>4 DEF AfterStage
<1>7. /\ next \in GuardCall /\ next.call = call.call /\ next.asked = call.asked
      /\ next.stages = stages /\ next.at = at
  BY <1>3, <1>5 DEF GuardCall, Asking
<1> HIDE DEF next
<1>8. QED
  BY <1>1, <1>3, <1>4, <1>6, <1>7

\* What is said in a stage may be new, an abstention never is.
LEMMA StageAnswered ==
  ASSUME gdInv, NEW c \in gdCaller, gdCalls[c].at \in Asking, NEW verdict \in Said,
         gdGoes(c, AfterStage(gdCalls[c], verdict)),
         \/ verdict = "abstain" /\ UNCHANGED gdSaid
         \/ /\ verdict # "abstain"
            /\ gdSaid' = gdSaid \cup {[call |-> gdCalls[c].call, entry |-> Turn(gdCalls[c]),
                                       verdict |-> verdict]},
         UNCHANGED <<gdEnabled, gdCount, gdCatalog, gdLedger, gdTraces, gdOrder>>
  PROVE  gdInv'
<1>1. PICK call : call = gdCalls[c]
  OBVIOUS
<1>2. PICK next : next = AfterStage(call, verdict)
  OBVIOUS
<1>3. call \in GuardCall /\ Open(call) /\ CheckOK(call) /\ call.at \in Asking
  BY <1>1 DEF gdInv, gdTypeOK, Open
<1>4. Len(call.stages) < Len(call.asked) /\ call.call \in 1..gdCount /\ ChecksAnswered(call)
  BY <1>3 DEF CheckOK
<1>5. /\ next \in GuardCall /\ next.call = call.call /\ next.asked = call.asked
      /\ Len(next.stages) = Len(call.stages) + 1 /\ next.stages[Len(call.stages) + 1] = verdict
      /\ \A i \in 1..Len(call.stages) : next.stages[i] = call.stages[i]
      /\ next.at = IF verdict = "deny" \/ Len(next.stages) = Len(next.asked) THEN "append" ELSE "stage"
  BY <1>2, <1>3, <1>4, StageAdded
<1>6. PICK turn : turn = Turn(call)
  OBVIOUS
<1>7. turn \in gdEntry /\ turn = call.asked[Len(call.stages) + 1] /\ Len(call.stages) \in Nat
      /\ Len(call.asked) \in Nat
  <2>1. call.asked \in Seq(gdEntry) /\ call.stages \in Seq(Said)
    BY <1>3 DEF GuardCall
  <2>2. Len(call.stages) + 1 \in 1..Len(call.asked) /\ Len(call.stages) \in Nat /\ Len(call.asked) \in Nat
    BY <1>4, <2>1
  <2>3. QED
    BY <1>6, <2>1, <2>2 DEF Turn
<1> DEFINE said == [call |-> call.call, entry |-> turn, verdict |-> verdict]
<1>8. \/ gdSaid' = gdSaid /\ verdict = "abstain"
      \/ gdSaid' = gdSaid \cup {said} /\ verdict \in {"allow", "deny"}
  BY <1>1, <1>6 DEF Said
<1>9. said.call = call.call /\ (verdict # "abstain" => said \in [call : 1..gdCount, entry : gdEntry, verdict : {"allow", "deny"}])
  BY <1>4, <1>7 DEF Said
<1>10. \A i \in 1..Len(next.stages) :
        next.stages[i] # "abstain" => SaidOf(next.call, next.asked[i], next.stages[i])'
  <2> SUFFICES ASSUME NEW i \in 1..Len(next.stages), next.stages[i] # "abstain"
               PROVE  SaidOf(next.call, next.asked[i], next.stages[i])'
    OBVIOUS
  <2>1. CASE i \in 1..Len(call.stages)
    BY <1>4, <1>5, <1>8, <2>1 DEF ChecksAnswered, SaidOf
  <2>2. CASE i = Len(call.stages) + 1
    BY <1>5, <1>7, <1>8, <2>2 DEF SaidOf
  <2>3. QED
    BY <1>5, <1>7, <2>1, <2>2
<1>11. \A e \in gdEntry : SaidOf(next.call, e, "deny")' =>
         \E i \in 1..Len(next.stages) : next.stages[i] = "deny"
  <2> SUFFICES ASSUME NEW e \in gdEntry, SaidOf(next.call, e, "deny")'
               PROVE  \E i \in 1..Len(next.stages) : next.stages[i] = "deny"
    OBVIOUS
  <2>1. CASE SaidOf(call.call, e, "deny")
    BY <1>4, <1>5, <1>7, <2>1 DEF ChecksAnswered
  <2>2. CASE ~SaidOf(call.call, e, "deny")
    <3>1. verdict = "deny"
      BY <1>5, <1>8, <2>2 DEF SaidOf
    <3>2. QED
      BY <1>5, <1>7, <3>1
  <2>3. QED
    BY <2>1, <2>2
<1> HIDE DEF said
<1>12. ChecksAnswered(next)'
  <2>1. Len(next.stages) <= Len(next.asked)
    BY <1>4, <1>5, <1>7
  <2>2. QED
    BY <1>10, <1>11, <2>1 DEF ChecksAnswered
<1>13. CheckOK(next)'
  <2>1. next.at \in {"append", "stage"}
    BY <1>5
  <2>2. next.at = "stage" => Len(next.stages) < Len(next.asked)
    BY <1>4, <1>5, <1>7
  <2>3. next.at = "append" => \/ Len(next.stages) = Len(next.asked)
                              \/ \E i \in 1..Len(next.stages) : next.stages[i] = "deny"
    BY <1>5, <1>7
  <2>4. QED
    BY <1>4, <1>5, <1>12, <2>1, <2>2, <2>3 DEF CheckOK, Open, Asking
<1>14. /\ gdSaid \subseteq gdSaid'
       /\ gdSaid' \subseteq [call : 1..gdCount, entry : gdEntry, verdict : {"allow", "deny"}]
       /\ \A s \in gdSaid' \ gdSaid : Open(gdCalls[c]) /\ s.call = gdCalls[c].call
  BY <1>1, <1>3, <1>8, <1>9 DEF gdInv, gdTypeOK
<1>15. TracesKept'
  BY DEF gdInv, TracesKept
<1>16. gdGoes(c, next)
  BY <1>1, <1>2
<1>17. QED
  BY <1>1, <1>3, <1>5, <1>13, <1>14, <1>15, <1>16, OneCheckMoves

\* A check goes on to another place of its stage.
LEMMA StageGoesOn ==
  ASSUME gdInv, NEW c \in gdCaller, gdCalls[c].at \in Asking, NEW at \in {"listing", "caching", "running"},
         NEW held \in SUBSET gdEntry, gdGoes(c, [gdCalls[c] EXCEPT !.at = at, !.held = held]),
         at = "listing" => Turn(gdCalls[c]).provider \in gdConfigured,
         UNCHANGED <<gdEnabled, gdCount, gdCatalog, gdLedger, gdTraces, gdOrder, gdSaid>>
  PROVE  gdInv'
<1>1. PICK call : call = gdCalls[c]
  OBVIOUS
<1>2. call \in GuardCall /\ Open(call) /\ CheckOK(call) /\ call.at \in Asking
  BY <1>1 DEF gdInv, gdTypeOK, Open
<1> DEFINE next == [call EXCEPT !.at = at, !.held = held]
<1>3. /\ next \in GuardCall /\ next.call = call.call /\ next.asked = call.asked
      /\ next.stages = call.stages /\ next.at = at
  BY <1>2 DEF GuardCall, Asking
<1>4. gdGoes(c, next)
  BY <1>1
<1> HIDE DEF next
<1>5. Turn(next) = Turn(call)
  BY <1>3 DEF Turn
<1>6. ChecksAnswered(call) /\ ChecksAnswered(next)'
  BY <1>2, <1>3 DEF CheckOK, ChecksAnswered, SaidOf
<1>7. CheckOK(next)'
  <2>1. Turn(next)' = Turn(next)
    BY DEF Turn
  <2>2. QED
    BY <1>1, <1>2, <1>3, <1>5, <1>6, <2>1 DEF CheckOK, Open, Asking
<1>8. TracesKept' /\ gdSaid' \subseteq [call : 1..gdCount, entry : gdEntry, verdict : {"allow", "deny"}]
  BY DEF gdInv, gdTypeOK, TracesKept
<1>9. QED
  BY <1>1, <1>2, <1>3, <1>4, <1>7, <1>8, OneCheckMoves

\* The entry is in the listing, or its stage abstains.
LEMMA FoundInKeeps ==
  ASSUME gdInv, NEW c \in gdCaller, gdCalls[c].at \in Asking, NEW listing,
         gdGoes(c, FoundIn(gdCalls[c], listing)),
         UNCHANGED <<gdEnabled, gdCount, gdCatalog, gdLedger, gdTraces, gdOrder, gdSaid>>
  PROVE  gdInv'
<1>1. \/ gdGoes(c, [gdCalls[c] EXCEPT !.at = "running", !.held = {}])
      \/ gdGoes(c, AfterStage(gdCalls[c], "abstain"))
  BY DEF FoundIn
<1>2. "abstain" \in Said /\ {} \in SUBSET gdEntry
  BY DEF Said
<1>3. QED
  BY <1>1, <1>2, StageAnswered, StageGoesOn

LEMMA NextStageKeeps ==
  ASSUME gdInv, NEW c \in gdCaller, NextStage(c)
  PROVE  gdInv'
<1>1. PICK call, p : call = gdCalls[c] /\ p = Turn(call).provider
  OBVIOUS
<1>2. call \in GuardCall /\ call.at = "stage" /\ call.at \in Asking
  BY <1>1 DEF NextStage, gdInv, gdTypeOK, Asking
<1>3. UNCHANGED <<gdEnabled, gdCount, gdCatalog, gdLedger, gdTraces, gdOrder, gdSaid>>
  BY DEF NextStage, gdLocal
<1>4. \/ gdGoes(c, AfterStage(call, "abstain"))
      \/ p \in gdConfigured /\ gdGoes(c, [call EXCEPT !.at = "listing"])
      \/ \E listing \in gdCache[p] : gdGoes(c, FoundIn(call, listing))
  BY <1>1 DEF NextStage
<1>5. CASE gdGoes(c, AfterStage(call, "abstain"))
  BY <1>1, <1>2, <1>3, <1>5, StageAnswered DEF Said
<1>6. CASE p \in gdConfigured /\ gdGoes(c, [call EXCEPT !.at = "listing"])
  <2>1. call.held \in SUBSET gdEntry
    BY <1>2 DEF GuardCall
  <2>2. [call EXCEPT !.at = "listing"] = [call EXCEPT !.at = "listing", !.held = call.held]
    BY <1>2 DEF GuardCall
  <2>3. QED
    BY <1>1, <1>2, <1>3, <1>6, <2>1, <2>2, StageGoesOn
<1>7. CASE \E listing \in gdCache[p] : gdGoes(c, FoundIn(call, listing))
  BY <1>1, <1>2, <1>3, <1>7, FoundInKeeps
<1>8. QED
  BY <1>4, <1>5, <1>6, <1>7

LEMMA CatalogListedKeeps ==
  ASSUME gdInv, NEW c \in gdCaller, CatalogListed(c)
  PROVE  gdInv'
<1>1. PICK call : call = gdCalls[c]
  OBVIOUS
<1>2. call.at = "listing" /\ call.at \in Asking /\ CheckOK(call)
  BY <1>1 DEF CatalogListed, gdInv, Asking
<1>3. UNCHANGED <<gdEnabled, gdCount, gdCatalog, gdLedger, gdTraces, gdOrder, gdSaid>>
  BY DEF CatalogListed, gdLocal
<1>4. PICK held : held = gdCatalog[Turn(call).provider]
  OBVIOUS
<1>5. held \in SUBSET gdEntry
  BY <1>2, <1>4 DEF CheckOK, gdInv, gdTypeOK
<1>6. \/ gdGoes(c, [call EXCEPT !.at = "caching", !.held = held])
      \/ gdGoes(c, AfterStage(call, "abstain"))
  BY <1>1, <1>4 DEF CatalogListed
<1>7. "abstain" \in Said
  BY DEF Said
<1>8. QED
  BY <1>1, <1>2, <1>3, <1>5, <1>6, <1>7, StageAnswered, StageGoesOn

LEMMA CatalogCachedKeeps ==
  ASSUME gdInv, NEW c \in gdCaller, CatalogCached(c)
  PROVE  gdInv'
<1>1. gdCalls[c].at \in Asking /\ gdGoes(c, FoundIn(gdCalls[c], gdCalls[c].held))
  BY DEF CatalogCached, Asking
<1>2. UNCHANGED <<gdEnabled, gdCount, gdCatalog, gdLedger, gdTraces, gdOrder, gdSaid>>
  BY DEF CatalogCached, gdLocal
<1>3. QED
  BY <1>1, <1>2, FoundInKeeps

LEMMA RunRuntimeKeeps ==
  ASSUME gdInv, NEW c \in gdCaller, RunRuntime(c)
  PROVE  gdInv'
<1>1. gdCalls[c].at \in Asking
  BY DEF RunRuntime, Asking
<1>2. UNCHANGED <<gdEnabled, gdCount, gdCatalog, gdLedger, gdTraces, gdOrder>>
  BY DEF RunRuntime, gdLocal
<1>3. CASE gdGoes(c, AfterStage(gdCalls[c], "abstain")) /\ UNCHANGED gdSaid
  BY <1>1, <1>2, <1>3, StageAnswered DEF Said
<1>4. ASSUME NEW verdict \in {"allow", "deny"},
             gdSaid' = gdSaid \cup {[call |-> gdCalls[c].call, entry |-> Turn(gdCalls[c]), verdict |-> verdict]},
             gdGoes(c, AfterStage(gdCalls[c], verdict))
      PROVE  gdInv'
  BY <1>1, <1>2, <1>4, StageAnswered DEF Said
<1>5. QED
  BY <1>3, <1>4 DEF RunRuntime

LEMMA IdleCheck == gdIdle \in GuardCall /\ gdIdle.at = "idle"
BY DEF gdIdle, GuardCall

\* A check that ends, or has nothing to be asked any more.
LEMMA CheckEnds ==
  ASSUME gdInv, NEW c \in gdCaller, gdGoes(c, gdIdle), TracesKept',
         UNCHANGED <<gdEnabled, gdCount, gdCatalog, gdLedger, gdSaid>>
  PROVE  gdInv'
<1>1. CheckOK(gdIdle)'
  BY IdleCheck DEF CheckOK, Open, Asking
<1>2. gdSaid' \subseteq [call : 1..gdCount, entry : gdEntry, verdict : {"allow", "deny"}]
  BY DEF gdInv, gdTypeOK
<1>3. ~Open(gdIdle)
  BY IdleCheck DEF Open, Asking
<1>4. QED
  BY <1>1, <1>2, <1>3, IdleCheck, OneCheckMoves

\* A new check has a number of which nothing was said.
LEMMA EvaluateKeeps ==
  ASSUME gdInv, NEW c \in gdCaller, EvaluatePostPolicy(c)
  PROVE  gdInv'
<1>1. PICK n, at : n = gdCount' /\ at = IF gdEnabled = <<>> THEN "append" ELSE "stage"
  OBVIOUS
<1>2. PICK asked : asked = gdEnabled
  OBVIOUS
<1> DEFINE call == [gdIdle EXCEPT !.at = at, !.call = n, !.asked = asked]
<1>3. gdGoes(c, call)
  BY <1>1, <1>2 DEF EvaluatePostPolicy
<1>4. /\ gdCount' = gdCount + 1 /\ gdCount \in Nat /\ n = gdCount + 1 /\ n \in Nat
      /\ UNCHANGED <<gdEnabled, gdCatalog, gdTraces, gdOrder, gdLedger, gdSaid>>
  BY <1>1 DEF EvaluatePostPolicy, gdInv, gdTypeOK
<1>5. asked \in Seq(gdEntry) /\ at \in {"append", "stage"} /\ (at = "stage" => asked # <<>>)
      /\ (at = "append" => asked = <<>>)
  BY <1>1, <1>2 DEF gdInv, gdTypeOK
<1>6. /\ call \in GuardCall /\ call.at = at /\ call.call = n /\ call.asked = asked
      /\ call.stages = <<>>
  BY <1>4, <1>5, IdleCheck DEF GuardCall, gdIdle, Asking
<1> HIDE DEF call
<1>7. /\ gdCalls' \in [gdCaller -> GuardCall] /\ gdCalls'[c] = call
      /\ \A d \in gdCaller : d # c => gdCalls'[d] = gdCalls[d]
  BY <1>3, <1>6 DEF gdInv, gdTypeOK, gdGoes
<1>8. /\ gdSaid' \subseteq [call : 1..gdCount', entry : gdEntry, verdict : {"allow", "deny"}]
      /\ \A e, v : ~SaidOf(n, e, v)
  <2>1. gdSaid \subseteq [call : 1..gdCount, entry : gdEntry, verdict : {"allow", "deny"}]
    BY DEF gdInv, gdTypeOK
  <2>2. 1..gdCount \subseteq 1..gdCount' /\ n \notin 1..gdCount
    BY <1>4
  <2>3. \A s \in gdSaid : s.call \in 1..gdCount /\ s \in [call : 1..gdCount', entry : gdEntry, verdict : {"allow", "deny"}]
    BY <2>1, <2>2
  <2>4. ASSUME NEW e, NEW v, SaidOf(n, e, v) PROVE FALSE
    <3>1. [call |-> n, entry |-> e, verdict |-> v].call \in 1..gdCount
      BY <2>3, <2>4 DEF SaidOf
    <3>2. QED
      BY <2>2, <3>1
  <2>5. QED
    BY <1>4, <2>3, <2>4
<1>9. ASSUME NEW i \in 1..Len(gdLedger) PROVE gdLedger[i].call \in Nat /\ gdLedger[i].call <= gdCount
  <2>1. gdLedger \in Seq(GuardEntry) /\ gdLedger[i].call <= gdCount
    BY DEF gdInv, gdTypeOK
  <2>2. gdLedger[i] \in GuardEntry
    BY <2>1
  <2>3. QED
    BY <2>1, <2>2 DEF GuardEntry
<1>10. gdTypeOK'
  <2>1. \A i \in 1..Len(gdLedger) : gdLedger[i].call <= gdCount'
    BY <1>4, <1>9
  <2>2. gdLedger' \in Seq(GuardEntry) /\ gdCatalog' \in [gdConfigured -> SUBSET gdEntry]
        /\ gdEnabled' \in Seq(gdEntry) /\ gdCount' \in Nat
    BY <1>4 DEF gdInv, gdTypeOK
  <2>3. QED
    BY <1>4, <1>7, <1>8, <2>1, <2>2 DEF gdTypeOK
<1>11. NumbersApart'
  <2>1. \A i \in 1..Len(gdLedger) : gdLedger[i].call # n
    BY <1>4, <1>9
  <2>2. \A d \in gdCaller : Open(gdCalls[d]) => gdCalls[d].call # n
    BY <1>4 DEF gdInv, CheckOK
  <2>3. QED
    BY <1>4, <1>6, <1>7, <2>1, <2>2 DEF gdInv, NumbersApart
<1>12. \A d \in gdCaller : CheckOK(gdCalls[d])'
  <2>1. ChecksAnswered(call)' /\ Len(<<>>) = 0
    BY <1>4, <1>5, <1>6, <1>8 DEF ChecksAnswered, SaidOf
  <2>2. CheckOK(call)'
    <3>1. at = "stage" => 0 < Len(asked)
      BY <1>5
    <3>2. QED
      BY <1>4, <1>5, <1>6, <2>1, <3>1 DEF CheckOK, Open, Asking
  <2>3. ASSUME NEW d \in gdCaller, d # c PROVE CheckOK(gdCalls[d])'
    <3>1. PICK x : x = gdCalls[d] /\ x = gdCalls'[d]
      BY <1>7, <2>3
    <3>2. CheckOK(x)
      BY <3>1 DEF gdInv
    <3>3. x.call \in 1..gdCount => x.call \in 1..gdCount'
      BY <1>4
    <3>4. ChecksAnswered(x) => ChecksAnswered(x)'
      BY <1>4 DEF ChecksAnswered, SaidOf
    <3>5. CheckOK(x)'
      BY <1>4, <3>2, <3>3, <3>4 DEF CheckOK
    <3>6. QED
      BY <3>1, <3>5
  <2>4. QED
    BY <1>7, <2>2, <2>3
<1>13. TracesKept' /\ VerdictsAreAnswers'
  BY <1>4 DEF gdInv, TracesKept, VerdictsAreAnswers
<1>14. QED
  BY <1>10, <1>11, <1>12, <1>13 DEF gdInv

\* What an entry says of its check is what was said of it.
EntrySound(t) ==
  t.verdict # "skipped" =>
    /\ t.verdict = "deny" <=> \E e \in gdEntry : SaidOf(t.call, e, "deny")
    /\ t.verdict = "deny" => \E e \in ToSet(t.asked) : SaidOf(t.call, e, "deny")
    /\ t.verdict = "allow" => \A e \in ToSet(t.asked) : SaidOf(t.call, e, "allow")

LEMMA EntryAppended ==
  ASSUME gdInv, NEW t \in GuardEntry, gdLedger' = Append(gdLedger, t), EntrySound(t),
         gdCount' \in Nat, gdCount <= gdCount', t.call <= gdCount',
         UNCHANGED <<gdEnabled, gdCatalog, gdSaid, gdTraces, gdOrder>>,
         NEW C \in SUBSET gdCaller, gdCalls' \in [gdCaller -> GuardCall],
         \A c \in C : ~Open(gdCalls'[c]) /\ CheckOK(gdCalls[c])',
         \A c \in gdCaller \ C :
           gdCalls'[c] = gdCalls[c] /\ (Open(gdCalls[c]) => gdCalls[c].call # t.call)
  PROVE  gdInv'
<1>1. /\ gdLedger \in Seq(GuardEntry) /\ gdLedger' \in Seq(GuardEntry)
      /\ Len(gdLedger) \in Nat /\ Len(gdLedger') = Len(gdLedger) + 1
      /\ gdLedger'[Len(gdLedger) + 1] = t
      /\ \A n \in 1..Len(gdLedger) : gdLedger'[n] = gdLedger[n]
  BY DEF gdInv, gdTypeOK
<1>2. \A n \in 1..Len(gdLedger') : n \in 1..Len(gdLedger) \/ n = Len(gdLedger) + 1
  BY <1>1
<1>3. gdCount \in Nat /\ \A n \in 1..Len(gdLedger) : gdLedger[n].call \in Nat /\ gdLedger[n].call <= gdCount
  <2> SUFFICES ASSUME NEW n \in 1..Len(gdLedger)
               PROVE  gdCount \in Nat /\ gdLedger[n].call \in Nat /\ gdLedger[n].call <= gdCount
    BY DEF gdInv, gdTypeOK
  <2>1. gdLedger[n] \in GuardEntry /\ gdCount \in Nat /\ gdLedger[n].call <= gdCount
    BY <1>1 DEF gdInv, gdTypeOK
  <2>2. QED
    BY <2>1 DEF GuardEntry
<1>4. gdTypeOK'
  <2>1. \A n \in 1..Len(gdLedger') : gdLedger'[n].call <= gdCount'
    BY <1>1, <1>2, <1>3
  <2>2. gdSaid' \subseteq [call : 1..gdCount', entry : gdEntry, verdict : {"allow", "deny"}]
    <3>1. 1..gdCount \subseteq 1..gdCount'
      BY <1>3
    <3>2. gdSaid \subseteq [call : 1..gdCount, entry : gdEntry, verdict : {"allow", "deny"}]
      BY DEF gdInv, gdTypeOK
    <3>3. QED
      BY <3>1, <3>2
  <2>3. QED
    BY <1>1, <2>1, <2>2 DEF gdInv, gdTypeOK
<1>5. NumbersApart'
  <2> SUFFICES ASSUME NEW c \in gdCaller, Open(gdCalls'[c])
               PROVE  /\ \A d \in gdCaller : d # c /\ Open(gdCalls'[d]) => gdCalls'[d].call # gdCalls'[c].call
                      /\ \A n \in 1..Len(gdLedger') : gdLedger'[n].call # gdCalls'[c].call
    BY DEF NumbersApart, Open
  <2>1. gdCalls'[c] = gdCalls[c] /\ gdCalls[c].call # t.call
    OBVIOUS
  <2>2. \A d \in gdCaller : Open(gdCalls'[d]) => gdCalls'[d] = gdCalls[d]
    OBVIOUS
  <2>3. QED
    BY <1>1, <1>2, <2>1, <2>2 DEF gdInv, NumbersApart
<1>6. TracesKept'
  <2>1. gdOrder' = gdOrder /\ gdTraces' = gdTraces
    OBVIOUS
  <2>2. \A n \in ToSet(gdOrder) : n \in 1..Len(gdLedger') /\ gdTraces[n] = gdLedger'[n]
    BY <1>1 DEF gdInv, TracesKept
  <2>3. QED
    BY <2>1, <2>2 DEF gdInv, TracesKept
<1>7. VerdictsAreAnswers'
  <2>1. \A n \in 1..Len(gdLedger) : EntrySound(gdLedger[n])
    <3>1. DOMAIN gdLedger = 1..Len(gdLedger)
      BY <1>1
    <3>2. QED
      BY <3>1 DEF gdInv, VerdictsAreAnswers, EntrySound, SaidOf
  <2>2. \A n \in 1..Len(gdLedger') : EntrySound(gdLedger'[n])
    BY <1>1, <1>2, <2>1
  <2>3. DOMAIN gdLedger' = 1..Len(gdLedger')
    BY <1>1
  <2>4. gdSaid' = gdSaid
    OBVIOUS
  <2>5. QED
    BY <2>2, <2>3, <2>4 DEF VerdictsAreAnswers, EntrySound, SaidOf
<1>8. ASSUME NEW c \in gdCaller \ C PROVE CheckOK(gdCalls[c])'
  <2>1. PICK x : x = gdCalls[c] /\ x = gdCalls'[c]
    OBVIOUS
  <2>2. CheckOK(x)
    BY <2>1 DEF gdInv
  <2>3. 1..gdCount \subseteq 1..gdCount'
    BY <1>3
  <2>4. ChecksAnswered(x) => ChecksAnswered(x)'
    BY DEF ChecksAnswered, SaidOf
  <2>5. x.at = "record" => x.seq \in 1..Len(gdLedger') /\ gdLedger'[x.seq] = Trace(x)
    BY <1>1, <2>2 DEF CheckOK
  <2>6. CheckOK(x)'
    BY <2>2, <2>3, <2>4, <2>5 DEF CheckOK
  <2>7. QED
    BY <2>1, <2>6
<1>9. QED
  BY <1>4, <1>5, <1>6, <1>7, <1>8 DEF gdInv

\* An open check that has ended says exactly what its classifiers said.
LEMMA EndedSound ==
  ASSUME gdInv, NEW call \in GuardCall, call.at = "append", CheckOK(call)
  PROVE  /\ Trace(call) \in GuardEntry /\ EntrySound(Trace(call))
         /\ Trace(call).call = call.call /\ call.call \in 1..gdCount
<1>1. PICK verdict : verdict = guardrailVerdict(call.stages)
  OBVIOUS
<1>2. call.asked \in Seq(gdEntry) /\ call.stages \in Seq(Said) /\ call.call \in Nat
  BY DEF GuardCall
<1>3. /\ DOMAIN call.stages = 1..Len(call.stages) /\ DOMAIN call.asked = 1..Len(call.asked)
      /\ Len(call.stages) \in Nat /\ Len(call.asked) \in Nat
  BY <1>2
<1>4. /\ verdict \in Said
      /\ verdict = "deny" <=> \E i \in 1..Len(call.stages) : call.stages[i] = "deny"
      /\ verdict = "allow" => \A i \in 1..Len(call.stages) : call.stages[i] = "allow"
  <2>1. \A i \in 1..Len(call.stages) : call.stages[i] \in Said
    BY <1>2, <1>3
  <2>2. QED
    BY <1>1, <1>3, <2>1 DEF guardrailVerdict, Said
<1>5. /\ ChecksAnswered(call) /\ call.call \in 1..gdCount
      /\ Len(call.stages) = Len(call.asked) \/ verdict = "deny"
  BY <1>4 DEF CheckOK, Open
<1> DEFINE t == [call |-> call.call, asked |-> call.asked, stages |-> call.stages, verdict |-> verdict]
<1>6. Trace(call) = t
  BY <1>1 DEF Trace
<1>7. t \in GuardEntry /\ t.call = call.call /\ t.asked = call.asked /\ t.verdict = verdict
  BY <1>2, <1>4 DEF GuardEntry
<1> HIDE DEF t
<1>8. verdict = "deny" => \E i \in 1..Len(call.asked) : SaidOf(call.call, call.asked[i], "deny")
  <2> SUFFICES ASSUME verdict = "deny"
               PROVE  \E i \in 1..Len(call.asked) : SaidOf(call.call, call.asked[i], "deny")
    OBVIOUS
  <2>1. PICK i \in 1..Len(call.stages) : call.stages[i] = "deny"
    BY <1>4
  <2>2. i \in 1..Len(call.asked) /\ SaidOf(call.call, call.asked[i], "deny")
    BY <1>3, <1>5, <2>1 DEF ChecksAnswered
  <2>3. QED
    BY <2>2
<1>9. verdict = "allow" => \A i \in 1..Len(call.asked) : SaidOf(call.call, call.asked[i], "allow")
  <2> SUFFICES ASSUME verdict = "allow", NEW i \in 1..Len(call.asked)
               PROVE  SaidOf(call.call, call.asked[i], "allow")
    OBVIOUS
  <2>1. i \in 1..Len(call.stages) /\ call.stages[i] = "allow"
    BY <1>4, <1>5
  <2>2. QED
    BY <1>5, <2>1 DEF ChecksAnswered
<1>10. ToSet(call.asked) = {call.asked[i] : i \in 1..Len(call.asked)} /\ ToSet(call.asked) \subseteq gdEntry
  BY <1>2, <1>3 DEF ToSet
<1>11. (\E e \in gdEntry : SaidOf(call.call, e, "deny")) => verdict = "deny"
  BY <1>4, <1>5 DEF ChecksAnswered
<1>12. EntrySound(t)
  BY <1>7, <1>8, <1>9, <1>10, <1>11 DEF EntrySound
<1>13. QED
  BY <1>5, <1>6, <1>7, <1>12

LEMMA AppendTraceKeeps ==
  ASSUME gdInv, NEW c \in gdCaller, AppendTrace(c)
  PROVE  gdInv'
<1>1. PICK call : call = gdCalls[c]
  OBVIOUS
<1>2. call \in GuardCall /\ call.at = "append" /\ CheckOK(call) /\ Open(call)
  BY <1>1 DEF AppendTrace, gdInv, gdTypeOK, Open
<1>3. UNCHANGED <<gdEnabled, gdCatalog, gdTraces, gdOrder, gdSaid, gdCount>>
  BY DEF AppendTrace
<1>4. CASE gdGoes(c, gdIdle) /\ UNCHANGED gdLedger
  <2>1. TracesKept'
    BY <1>3, <1>4 DEF gdInv, TracesKept
  <2>2. QED
    BY <1>3, <1>4, <2>1, CheckEnds
<1>5. CASE /\ gdLedger' = Append(gdLedger, Trace(gdCalls[c]))
           /\ gdGoes(c, [gdCalls[c] EXCEPT !.at = "record", !.seq = Len(gdLedger')])
  <2>1. PICK t, n : t = Trace(call) /\ n = Len(gdLedger) + 1
    OBVIOUS
  <2>2. t \in GuardEntry /\ EntrySound(t) /\ t.call = call.call /\ call.call \in 1..gdCount
    BY <1>2, <2>1, EndedSound
  <2>3. /\ gdLedger' = Append(gdLedger, t) /\ Len(gdLedger') = n /\ n \in Nat /\ n >= 1
        /\ gdLedger'[n] = t /\ gdCount \in Nat
    BY <1>1, <1>5, <2>1 DEF gdInv, gdTypeOK
  <2> DEFINE next == [call EXCEPT !.at = "record", !.seq = n]
  <2>4. /\ next \in GuardCall /\ next.at = "record" /\ next.seq = n /\ next.call = call.call
        /\ next.asked = call.asked /\ next.stages = call.stages
    BY <1>2, <2>3 DEF GuardCall
  <2>5. gdGoes(c, next)
    BY <1>1, <1>5, <2>3
  <2> HIDE DEF next
  <2>6. /\ gdCalls' \in [gdCaller -> GuardCall] /\ gdCalls'[c] = next
        /\ \A d \in gdCaller \ {c} : gdCalls'[d] = gdCalls[d]
    BY <2>4, <2>5 DEF gdInv, gdTypeOK, gdGoes
  <2>7. ~Open(next) /\ Trace(next) = t
    BY <2>1, <2>4 DEF Open, Asking, Trace
  <2>8. CheckOK(next)'
    BY <2>3, <2>4, <2>7 DEF CheckOK, Open, Asking
  <2>9. CheckOK(gdCalls[c])'
    BY <2>6, <2>8
  <2>10. \A d \in gdCaller \ {c} : Open(gdCalls[d]) => gdCalls[d].call # t.call
    BY <1>1, <1>2, <2>2 DEF gdInv, NumbersApart
  <2>11. t.call <= gdCount' /\ gdCount' \in Nat /\ gdCount <= gdCount'
    BY <1>3, <2>2, <2>3
  <2>12. {c} \in SUBSET gdCaller /\ \A d \in {c} : ~Open(gdCalls'[d]) /\ CheckOK(gdCalls[d])'
    BY <2>6, <2>7, <2>9
  <2>13. QED
    BY <1>3, <2>2, <2>3, <2>6, <2>10, <2>11, <2>12, EntryAppended
<1>6. QED
  BY <1>4, <1>5 DEF AppendTrace

LEMMA DeniedLocallyKeeps ==
  ASSUME gdInv, NEW c \in gdCaller, DeniedLocally(c)
  PROVE  gdInv'
<1>1. PICK t : t = [Trace(gdIdle) EXCEPT !.verdict = "skipped"]
  OBVIOUS
<1>2. t \in GuardEntry /\ t.verdict = "skipped" /\ t.call = 0
  <2>1. t = [call |-> 0, asked |-> <<>>, stages |-> <<>>, verdict |-> "skipped"]
    BY <1>1 DEF Trace, gdIdle
  <2>2. QED
    BY <2>1 DEF GuardEntry
<1>3. gdLedger' = Append(gdLedger, t) /\ gdCount' = gdCount + 1 /\ gdCount \in Nat
      /\ UNCHANGED <<gdEnabled, gdCatalog, gdSaid, gdTraces, gdOrder, gdCalls>>
  BY <1>1 DEF DeniedLocally, gdInv, gdTypeOK
<1>4. EntrySound(t)
  BY <1>2 DEF EntrySound
<1>5. \A d \in gdCaller : gdCalls'[d] = gdCalls[d] /\ (Open(gdCalls[d]) => gdCalls[d].call # t.call)
  BY <1>2, <1>3 DEF gdInv, CheckOK
<1>6. gdCount' \in Nat /\ gdCount <= gdCount' /\ t.call <= gdCount' /\ gdCalls' \in [gdCaller -> GuardCall]
  BY <1>2, <1>3 DEF gdInv, gdTypeOK
<1>7. PICK C \in SUBSET gdCaller : C = {}
  OBVIOUS
<1>8. QED
  BY <1>2, <1>3, <1>4, <1>5, <1>6, <1>7, EntryAppended

\* The trace that is kept is that of the entry, and the oldest are evicted.
LEMMA RecordTraceKeeps ==
  ASSUME gdInv, NEW c \in gdCaller, RecordTrace(c)
  PROVE  gdInv'
<1>1. PICK call, q : call = gdCalls[c] /\ q = call.seq
  OBVIOUS
<1>2. call.at = "record" /\ CheckOK(call)
  BY <1>1 DEF RecordTrace, gdInv
<1>3. /\ q \in 1..Len(gdLedger) /\ gdLedger[q] = Trace(call)
      /\ gdOrder \in Seq(Nat) /\ Len(gdOrder) \in Nat /\ Len(gdLedger) \in Nat /\ gdMaxTraces \in Nat \ {0}
      /\ DOMAIN gdOrder = 1..Len(gdOrder)
  BY <1>1, <1>2, GuardrailAssumption DEF CheckOK, gdInv, gdTypeOK, TracesKept
<1>4. q \in Nat
  BY <1>3
<1>5. PICK order : order = IF q \in DOMAIN gdTraces THEN gdOrder ELSE Append(gdOrder, q)
  OBVIOUS
<1>6. /\ order \in Seq(Nat) /\ Len(order) \in Nat /\ DOMAIN order = 1..Len(order)
      /\ \A i, j \in 1..Len(order) : order[i] = order[j] => i = j
      /\ \A i \in 1..Len(order) : order[i] \in ToSet(gdOrder) \cup {q}
  <2>1. ToSet(gdOrder) = {gdOrder[i] : i \in 1..Len(gdOrder)}
    BY <1>3 DEF ToSet
  <2>2. CASE q \in DOMAIN gdTraces
    BY <1>3, <1>5, <2>1, <2>2 DEF gdInv, TracesKept
  <2>3. CASE q \notin DOMAIN gdTraces
    <3>1. order = Append(gdOrder, q) /\ q \notin ToSet(gdOrder)
      BY <1>5, <2>3 DEF gdInv, TracesKept
    <3>2. /\ order \in Seq(Nat) /\ Len(order) = Len(gdOrder) + 1 /\ order[Len(gdOrder) + 1] = q
          /\ \A i \in 1..Len(gdOrder) : order[i] = gdOrder[i]
      BY <1>3, <1>4, <3>1
    <3>3. \A i \in 1..Len(order) : i \in 1..Len(gdOrder) \/ i = Len(gdOrder) + 1
      BY <1>3, <3>2
    <3>4. \A i \in 1..Len(gdOrder) : order[i] \in ToSet(gdOrder) /\ order[i] # q
      BY <2>1, <3>1, <3>2
    <3>5. \A i, j \in 1..Len(gdOrder) : order[i] = order[j] => i = j
      BY <3>2 DEF gdInv, TracesKept
    <3>6. \A i, j \in 1..Len(order) : order[i] = order[j] => i = j
      BY <3>2, <3>3, <3>4, <3>5
    <3>7. QED
      BY <3>2, <3>3, <3>4, <3>6
  <2>4. QED
    BY <2>2, <2>3
<1>7. PICK excess : excess = IF Len(order) > gdMaxTraces THEN Len(order) - gdMaxTraces ELSE 0
  OBVIOUS
<1>8. PICK kept : kept = SubSeq(order, excess + 1, Len(order))
  OBVIOUS
<1>9. /\ excess \in Nat /\ excess <= Len(order) /\ Len(order) - excess <= gdMaxTraces
  <2>1. CASE Len(order) > gdMaxTraces
    <3>1. excess = Len(order) - gdMaxTraces
      BY <1>7, <2>1
    <3>2. QED
      BY <1>3, <1>6, <2>1, <3>1
  <2>2. CASE ~(Len(order) > gdMaxTraces)
    <3>1. excess = 0
      BY <1>7, <2>2
    <3>2. QED
      BY <1>3, <1>6, <2>2, <3>1
  <2>3. QED
    BY <2>1, <2>2
<1>10. /\ kept \in Seq(Nat) /\ Len(kept) = Len(order) - excess
       /\ \A i \in 1..Len(kept) : kept[i] = order[excess + i] /\ excess + i \in 1..Len(order)
  <2>1. PICK m, k : m = excess + 1 /\ k = Len(order)
    OBVIOUS
  <2>2. m \in 1..(Len(order) + 1) /\ k \in (m - 1)..Len(order)
    BY <1>6, <1>9, <2>1
  <2>3. /\ SubSeq(order, m, k) \in Seq(Nat) /\ Len(SubSeq(order, m, k)) = k - m + 1
        /\ \A i \in 1..(k - m + 1) : SubSeq(order, m, k)[i] = order[m + i - 1]
    BY <1>6, <2>2, SubSeqProperties
  <2>4. kept = SubSeq(order, m, k) /\ k - m + 1 = Len(order) - excess
    BY <1>6, <1>8, <1>9, <2>1
  <2>5. \A i \in 1..(Len(order) - excess) :
          m + i - 1 = excess + i /\ excess + i \in 1..Len(order)
    BY <1>6, <1>9, <2>1
  <2>6. QED
    BY <2>3, <2>4, <2>5
<1>11. \A i, j \in 1..Len(kept) : kept[i] = kept[j] => i = j
  <2> SUFFICES ASSUME NEW i \in 1..Len(kept), NEW j \in 1..Len(kept), kept[i] = kept[j]
               PROVE  i = j
    OBVIOUS
  <2>1. excess + i = excess + j
    BY <1>6, <1>10
  <2>2. i \in Int /\ j \in Int
    OBVIOUS
  <2>3. QED
    BY <1>9, <2>1, <2>2
<1>12. ToSet(kept) \subseteq ToSet(gdOrder) \cup {q}
  <2>1. ToSet(kept) = {kept[i] : i \in 1..Len(kept)}
    BY <1>10 DEF ToSet
  <2>2. QED
    BY <1>6, <1>10, <2>1
<1> DEFINE traces == [n \in DOMAIN gdTraces \cup {q} |-> IF n = q THEN Trace(call) ELSE gdTraces[n]]
<1>13. \A n \in ToSet(kept) : n \in 1..Len(gdLedger) /\ traces[n] = gdLedger[n]
  BY <1>3, <1>12 DEF gdInv, TracesKept
<1>14. gdOrder' = kept /\ gdTraces' = [n \in ToSet(kept) |-> traces[n]] /\ gdGoes(c, gdIdle)
       /\ UNCHANGED <<gdEnabled, gdCount, gdCatalog, gdLedger, gdSaid>>
  BY <1>1, <1>5, <1>7, <1>8 DEF RecordTrace
<1> HIDE DEF traces
<1>15. TracesKept'
  <2>1. DOMAIN gdTraces' = ToSet(gdOrder')
    BY <1>14
  <2>2. \A n \in ToSet(gdOrder') : n \in 1..Len(gdLedger') /\ gdTraces'[n] = gdLedger'[n]
    BY <1>13, <1>14
  <2>3. gdOrder' \in Seq(Nat) /\ Len(gdOrder') <= gdMaxTraces
    BY <1>9, <1>10, <1>14
  <2>4. QED
    BY <1>11, <1>14, <2>1, <2>2, <2>3 DEF TracesKept
<1>16. QED
  BY <1>14, <1>15, CheckEnds

\* Users, providers and the page's requests touch nothing that a check has.
LEMMA OthersKeep ==
  ASSUME gdInv, UNCHANGED <<gdCalls, gdTraces, gdOrder, gdLedger, gdSaid, gdCount>>,
         gdEnabled' \in Seq(gdEntry), gdCatalog' \in [gdConfigured -> SUBSET gdEntry]
  PROVE  gdInv'
<1>1. gdTypeOK'
  BY DEF gdInv, gdTypeOK
<1>2. NumbersApart' /\ TracesKept'
  BY DEF gdInv, NumbersApart, TracesKept
<1>3. VerdictsAreAnswers'
  BY DEF gdInv, VerdictsAreAnswers
<1>4. \A c \in gdCaller : CheckOK(gdCalls[c])'
  BY DEF gdInv, CheckOK, ChecksAnswered, SaidOf
<1>5. QED
  BY <1>1, <1>2, <1>3, <1>4 DEF gdInv

\* After a restart no check is open and no trace is kept.
LEMMA GuardrailsRestartKeeps ==
  ASSUME gdInv, GuardrailsRestart
  PROVE  gdInv'
<1>1. /\ gdCalls' \in [gdCaller -> GuardCall]
      /\ \A c \in gdCaller : gdCalls'[c] = gdIdle /\ ~Open(gdCalls'[c]) /\ CheckOK(gdCalls[c])'
  <2>1. gdCalls' = [c \in gdCaller |-> gdIdle]
    BY DEF GuardrailsRestart
  <2>2. ~Open(gdIdle) /\ CheckOK(gdIdle)'
    BY IdleCheck DEF Open, Asking, CheckOK
  <2>3. QED
    BY <2>1, <2>2, IdleCheck
<1>2. /\ gdEnabled' = <<>> /\ gdTraces' = <<>> /\ gdOrder' = <<>>
      /\ UNCHANGED <<gdCatalog, gdLedger, gdSaid, gdCount>>
  BY DEF GuardrailsRestart
<1>3. gdTypeOK'
  BY <1>1, <1>2 DEF gdInv, gdTypeOK
<1>4. NumbersApart'
  BY <1>1 DEF NumbersApart
<1>5. VerdictsAreAnswers'
  BY <1>2 DEF gdInv, VerdictsAreAnswers
<1>6. TracesKept'
  <2>1. ToSet(<<>>) = {} /\ DOMAIN <<>> = {} /\ Len(<<>>) = 0 /\ 1..0 = {}
    BY DEF ToSet
  <2>2. gdMaxTraces >= 0
    BY GuardrailAssumption
  <2>3. QED
    BY <1>2, <2>1, <2>2 DEF TracesKept
<1>7. QED
  BY <1>1, <1>3, <1>4, <1>5, <1>6 DEF gdInv

LEMMA GuardrailsStart == gdInit => gdInv
<1> SUFFICES ASSUME gdInit PROVE gdInv
  OBVIOUS
<1>1. /\ gdCalls \in [gdCaller -> GuardCall]
      /\ \A c \in gdCaller : ~Open(gdCalls[c]) /\ CheckOK(gdCalls[c])
  BY IdleCheck DEF gdInit, Open, Asking, CheckOK
<1>2. /\ gdEnabled \in Seq(gdEntry) /\ gdTraces = <<>> /\ gdOrder = <<>> /\ gdLedger = <<>>
      /\ gdSaid = {} /\ gdCount = 0 /\ gdCatalog \in [gdConfigured -> SUBSET gdEntry]
  BY GuardrailAssumption DEF gdInit
<1>3. ToSet(<<>>) = {} /\ DOMAIN <<>> = {} /\ Len(<<>>) = 0 /\ gdMaxTraces >= 0
  BY GuardrailAssumption DEF ToSet
<1>4. gdTypeOK
  BY <1>1, <1>2, <1>3 DEF gdTypeOK
<1>5. TracesKept
  BY <1>2, <1>3 DEF TracesKept
<1>6. NumbersApart /\ VerdictsAreAnswers
  BY <1>1, <1>2, <1>3 DEF NumbersApart, VerdictsAreAnswers
<1>7. QED
  BY <1>1, <1>4, <1>5, <1>6 DEF gdInv

LEMMA GuardrailsKeep == gdInv /\ [gdNext]_gdVars => gdInv'
<1> SUFFICES ASSUME gdInv, [gdNext]_gdVars PROVE gdInv'
  OBVIOUS
<1>1. ASSUME NEW c \in gdCaller,
             EvaluatePostPolicy(c) \/ NextStage(c) \/ CatalogListed(c) \/ CatalogCached(c)
      PROVE  gdInv'
  BY <1>1, EvaluateKeeps, NextStageKeeps, CatalogListedKeeps, CatalogCachedKeeps
<1>2. ASSUME NEW c \in gdCaller,
             RunRuntime(c) \/ AppendTrace(c) \/ DeniedLocally(c) \/ RecordTrace(c)
      PROVE  gdInv'
  BY <1>2, RunRuntimeKeeps, AppendTraceKeeps, DeniedLocallyKeeps, RecordTraceKeeps
<1>3. gdEnabled \in Seq(gdEntry) /\ gdCatalog \in [gdConfigured -> SUBSET gdEntry]
  BY DEF gdInv, gdTypeOK
<1>4. CASE ListCatalogStatus \/ CatalogExpires \/ UNCHANGED gdVars
  BY <1>3, <1>4, OthersKeep DEF ListCatalogStatus, CatalogExpires, gdVars
<1>5. CASE SaveGuardrailEnabled
  BY <1>3, <1>5, GuardrailAssumption, OthersKeep DEF SaveGuardrailEnabled
<1>6. CASE CatalogChanges
  <2>1. gdCatalog' \in [gdConfigured -> SUBSET gdEntry]
    BY <1>3, <1>6 DEF CatalogChanges
  <2>2. QED
    BY <1>3, <1>6, <2>1, OthersKeep DEF CatalogChanges
<1>7. QED
  BY <1>1, <1>2, <1>4, <1>5, <1>6, GuardrailsRestartKeeps DEF gdNext

\* guardrails/service.go: a check is denied exactly if a classifier that was enabled
\* when it came said so of it, it is allowed only if all of them did, and a trace is
\* that of its entry, however many checks, changes and restarts overlap.
THEOREM GuardrailsAlwaysHold == gdSpec => []GuardrailsHold
<1>1. gdInv => GuardrailsHold
  <2> SUFFICES ASSUME gdInv PROVE TracesAreTheirs /\ VerdictsAreAnswers
    BY DEF GuardrailsHold
  <2>1. /\ gdOrder \in Seq(Nat) /\ Len(gdOrder) \in Nat /\ DOMAIN gdOrder = 1..Len(gdOrder)
        /\ DOMAIN gdLedger = 1..Len(gdLedger)
    BY DEF gdInv, TracesKept, gdTypeOK
  <2>2. \A i, j \in 1..Len(gdOrder) : gdOrder[i] = gdOrder[j] => i = j
    BY DEF gdInv, TracesKept
  <2>3. gdOrder \in Bijection(1..Len(gdOrder), ToSet(gdOrder))
    <3>1. ToSet(gdOrder) = {gdOrder[i] : i \in 1..Len(gdOrder)}
      BY <2>1 DEF ToSet
    <3>2. QED
      BY <2>1, <2>2, <3>1, Fun_IsBij
  <2>4. Cardinality(ToSet(gdOrder)) = Len(gdOrder)
    <3>1. ExistsBijection(1..Len(gdOrder), ToSet(gdOrder))
      BY <2>3 DEF ExistsBijection
    <3>2. QED
      BY <2>1, <3>1, FS_CountingElements
  <2>5. QED
    BY <2>1, <2>4 DEF gdInv, TracesKept, TracesAreTheirs
<1>2. QED
  BY <1>1, GuardrailsStart, GuardrailsKeep, PTL DEF gdSpec

-----------------------------------------------------------------------------
(* CHECKUPS, for any harnesses and contents of their files.  A report that   *)
(* is read once at its end stands for answers that were given one after the  *)
(* other; the invariant says of every step which answers it already has.     *)

Question == {"health", "verify", "mode", "policy", "sessions"}
SawField == Question \cup {"gate"}
NotAsked == ""
SawOf == {NotAsked, "good", "bad", "none", "allow", "monitor", "deny"}
Found(q, status) == checkOf(<<q, "">>, status)

Recorded(q) ==
  ckSaw[q] \in {"good", "bad", "none"} /\ Found(q, StatusOf(q, ckSaw[q])) \in ckChecks

\* What doctor has found when it is about to take a step.
DoctorOK ==
  /\ ckStep \in Question \cup {"start", "report", "done"}
  /\ ckStep # "start" => \A h \in ckHarness : HarnessChecks(h) \subseteq ckChecks
  /\ ckStep \in {"verify", "mode", "policy", "sessions"} => Recorded("health")
  /\ ckStep \in {"mode", "policy", "sessions"} => Recorded("verify")
  /\ ckStep \in {"policy", "sessions"} => Recorded("mode")
  /\ ckStep = "sessions" => Recorded("policy")
  /\ ckStep \in {"report", "done"} =>
       Recorded("health") /\ (ckSaw["health"] = "none" \/ \A q \in Question : Recorded(q))
  /\ ckStep = "done" /\ ckExit = 0 => \A c \in ckChecks : c.status # "error"

\* The commands with one question.
AnswerOK ==
  /\ ckStep \in {"start", "done"}
  /\ ckStep = "done" /\ ckExit = 0 =>
       /\ ckCommand = "status" => ckSaw["health"] = "good"
       /\ ckCommand = "verify" => ckSaw["verify"] = "good"
       /\ ckCommand = "fake-hook" => ckSaw["gate"] \in {"allow", "monitor"}

PickerField == {"cursor", "checked", "chosen", "toUninstall", "toggled"}
LeftAlone(rows) ==
  /\ Precheck \ rows \subseteq ckPicker.toggled
  /\ \A h \in rows : Enabled(h) /\ (h \in ckPicker.toggled \/ detectAll[h].installed)
PickerOK ==
  /\ ckStep \in {"start", "keys", "done"}
  /\ DOMAIN ckPicker = PickerField /\ ckPicker = [f \in PickerField |-> ckPicker[f]]
  /\ ckStep \in {"start", "keys"} => ckPicker.chosen = {} /\ ckPicker.toUninstall = {}
  /\ ckStep = "start" => ckPicker.toggled = {}
  /\ ckStep = "keys" => LeftAlone(ckPicker.checked)
  /\ ckStep = "done" => LeftAloneStays

ckInv ==
  /\ ckCommand \in {"doctor", "status", "verify", "fake-hook", "install"}
  /\ ckSaw \in [SawField -> SawOf]
  /\ ckCommand = "doctor" => DoctorOK
  /\ ckCommand \in {"status", "verify", "fake-hook"} => AnswerOK
  /\ ckCommand = "install" => PickerOK

-----------------------------------------------------------------------------
LEMMA FoundStatus ==
  ASSUME NEW q, NEW status
  PROVE  Found(q, status).status = status
BY Zenon DEF Found, checkOf

\* An answer is "good" exactly if its check is "ok"; the first two are errors.
LEMMA StatusOfAnswer ==
  ASSUME NEW q \in Question, NEW a \in {"good", "bad", "none"}
  PROVE  /\ StatusOf(q, a) = "ok" <=> a = "good"
         /\ q \in {"health", "verify"} /\ a # "good" => StatusOf(q, a) = "error"
<1>1. ASSUME a = "good" PROVE StatusOf(q, a) = "ok"
  BY <1>1 DEF StatusOf
<1>2. ASSUME a # "good", q \in {"health", "verify"} PROVE StatusOf(q, a) = "error"
  BY <1>2 DEF StatusOf
<1>3. ASSUME a # "good", q \notin {"health", "verify"} PROVE StatusOf(q, a) = "warn"
  BY <1>3 DEF StatusOf
<1>4. "ok" # "error" /\ "ok" # "warn"
  OBVIOUS
<1>5. QED
  BY <1>1, <1>2, <1>3, <1>4, Zenon

LEMMA QuestionOrder ==
  /\ ToSet(Questions) = Question /\ Len(Questions) = 5 /\ DOMAIN Questions = 1..5
  /\ Questions[1] = "health" /\ Questions[2] = "verify" /\ Questions[3] = "mode"
  /\ Questions[4] = "policy" /\ Questions[5] = "sessions"
<1>1. /\ Len(Questions) = 5 /\ DOMAIN Questions = 1..5
      /\ Questions[1] = "health" /\ Questions[2] = "verify" /\ Questions[3] = "mode"
      /\ Questions[4] = "policy" /\ Questions[5] = "sessions"
  BY DEF Questions
<1>2. ToSet(Questions) = {Questions[i] : i \in 1..5}
  BY <1>1 DEF ToSet
<1>3. 1..5 = {1, 2, 3, 4, 5}
  OBVIOUS
<1>4. QED
  BY <1>1, <1>2, <1>3 DEF Question

\* Where doctor goes from a question.
StepAfter(q, a) ==
  LET i == CHOOSE n \in DOMAIN Questions : Questions[n] = q IN
  IF i = Len(Questions) \/ (q = "health" /\ a = "none") THEN "report" ELSE Questions[i + 1]

LEMMA QuestionNext ==
  ASSUME NEW q \in Question, NEW a, NEW next, next = StepAfter(q, a)
  PROVE  /\ q = "health" => next = IF a = "none" THEN "report" ELSE "verify"
         /\ q = "verify" => next = "mode"
         /\ q = "mode" => next = "policy"
         /\ q = "policy" => next = "sessions"
         /\ q = "sessions" => next = "report"
<1>1. PICK i : i = CHOOSE n \in DOMAIN Questions : Questions[n] = q
  OBVIOUS
<1>2. \E n \in DOMAIN Questions : Questions[n] = q
  BY QuestionOrder DEF Question
<1>3. i \in DOMAIN Questions /\ Questions[i] = q
  BY <1>1, <1>2
<1>4. i \in {1, 2, 3, 4, 5}
  BY <1>3, QuestionOrder
<1>5. next = IF i = 5 \/ (q = "health" /\ a = "none") THEN "report" ELSE Questions[i + 1]
  BY <1>1, QuestionOrder DEF StepAfter
<1>6. /\ q = "health" => i = 1
      /\ q = "verify" => i = 2
      /\ q = "mode" => i = 3
      /\ q = "policy" => i = 4
      /\ q = "sessions" => i = 5
  BY <1>3, <1>4, QuestionOrder
<1>7. QED
  BY <1>5, <1>6, QuestionOrder DEF Question

\* The file of a harness does not change under a command.
LEMMA DisksStay ==
  ASSUME UNCHANGED ckDisk
  PROVE  detectAll' = detectAll /\ Precheck' = Precheck /\ \A h : HarnessChecks(h)' = HarnessChecks(h)
<1>1. detectAll' = detectAll
  BY Zenon DEF detectAll, State, claudeAgentlockState, claudeDesktopAgentlockState,
               codexAgentlockState, agentlockHookState, devStubAgentlockState
<1>2. QED
  BY <1>1, Zenon DEF Precheck, HarnessChecks, Enabled

LEMMA DetectKeeps ==
  ASSUME ckInv, DetectHarnesses
  PROVE  ckInv'
<1>1. ckCommand = "doctor" /\ ckCommand' = "doctor" /\ ckStep' = "health" /\ ckSaw' = ckSaw /\ ckDisk' = ckDisk
  BY DEF DetectHarnesses
<1>2. \A h \in ckHarness : HarnessChecks(h) \subseteq ckChecks'
  BY Zenon DEF DetectHarnesses
<1>3. DoctorOK'
  BY <1>1, <1>2, DisksStay DEF DoctorOK, Question
<1>4. QED
  BY <1>1, <1>3 DEF ckInv

LEMMA AskKeeps ==
  ASSUME ckInv, Ask
  PROVE  ckInv'
<1>1. PICK q, next : q = ckStep /\ next = ckStep'
  OBVIOUS
<1>2. ckCommand = "doctor" /\ ckCommand' = "doctor" /\ q \in Question /\ ckDisk' = ckDisk /\ DoctorOK
  BY <1>1, QuestionOrder DEF Ask, ckInv
<1>3. PICK a \in {"good", "bad", "none"} :
        /\ ckChecks' = ckChecks \cup {Found(q, StatusOf(q, a))}
        /\ ckSaw' = [ckSaw EXCEPT ![q] = a]
        /\ next = StepAfter(q, a)
  <2>1. {AnswerTo(q), "none"} \subseteq {"good", "bad", "none"}
    BY DEF AnswerTo
  <2>2. PICK a \in {AnswerTo(ckStep), "none"} :
          /\ ckChecks' = ckChecks \cup {Found(ckStep, StatusOf(ckStep, a))}
          /\ ckSaw' = [ckSaw EXCEPT ![ckStep] = a]
          /\ ckStep' = StepAfter(ckStep, a)
    BY Zenon DEF Ask, Found, StepAfter
  <2>3. QED
    BY <1>1, <2>1, <2>2, Zenon
<1>4. /\ ckSaw' \in [SawField -> SawOf] /\ ckSaw'[q] = a
      /\ \A p \in Question : p # q => ckSaw'[p] = ckSaw[p]
  <2>1. a \in SawOf /\ q \in SawField /\ Question \subseteq SawField
    BY <1>2 DEF SawOf, SawField
  <2>2. QED
    BY <1>3, <2>1 DEF ckInv
<1>5. Recorded(q)' /\ \A p \in Question : Recorded(p) => Recorded(p)'
  <2>1. PICK found : found = Found(q, StatusOf(q, a))
    OBVIOUS
  <2>2. Found(q, StatusOf(q, ckSaw'[q])) \in ckChecks'
    BY <1>3, <1>4
  <2>3. ASSUME NEW p \in Question, p # q, Recorded(p) PROVE Recorded(p)'
    BY <1>3, <1>4, <2>3 DEF Recorded
  <2>4. Recorded(q)'
    BY <1>3, <1>4, <2>2 DEF Recorded
  <2>5. QED
    BY <2>3, <2>4
<1>6. /\ q = "health" => next = IF a = "none" THEN "report" ELSE "verify"
      /\ q = "verify" => next = "mode"
      /\ q = "mode" => next = "policy"
      /\ q = "policy" => next = "sessions"
      /\ q = "sessions" => next = "report"
  BY <1>2, <1>3, QuestionNext
<1>7. \A h \in ckHarness : HarnessChecks(h)' \subseteq ckChecks'
  <2>1. \A h \in ckHarness : HarnessChecks(h) \subseteq ckChecks
    BY <1>1, <1>2 DEF DoctorOK, Question
  <2>2. QED
    BY <1>2, <1>3, <2>1, DisksStay
<1>8. ckStep' \in Question \cup {"report"}
  BY <1>1, <1>2, <1>6 DEF Question
<1>9. /\ ckStep' \in {"verify", "mode", "policy", "sessions"} => Recorded("health")'
      /\ ckStep' \in {"mode", "policy", "sessions"} => Recorded("verify")'
      /\ ckStep' \in {"policy", "sessions"} => Recorded("mode")'
      /\ ckStep' = "sessions" => Recorded("policy")'
  BY <1>1, <1>2, <1>5, <1>6 DEF DoctorOK, Question
<1>10. ckStep' = "report" =>
         Recorded("health")' /\ (ckSaw'["health"] = "none" \/ \A p \in Question : Recorded(p)')
  BY <1>1, <1>2, <1>4, <1>5, <1>6 DEF DoctorOK, Question
<1>11. DoctorOK'
  BY <1>7, <1>8, <1>9, <1>10 DEF DoctorOK, Question
<1>12. QED
  BY <1>2, <1>4, <1>11 DEF ckInv

LEMMA RunDoctorKeeps ==
  ASSUME ckInv, runDoctor
  PROVE  ckInv'
<1>1. /\ ckCommand = "doctor" /\ ckCommand' = "doctor" /\ ckStep = "report" /\ ckStep' = "done"
      /\ ckSaw' = ckSaw /\ ckDisk' = ckDisk /\ ckChecks' = ckChecks
      /\ ckExit' = IF \E c \in ckChecks : c.status = "error" THEN 1 ELSE 0
  BY DEF runDoctor
<1>2. /\ \A h \in ckHarness : HarnessChecks(h) \subseteq ckChecks
      /\ Recorded("health") /\ (ckSaw["health"] = "none" \/ \A q \in Question : Recorded(q))
  BY <1>1 DEF ckInv, DoctorOK
<1>3. \A q : Recorded(q) => Recorded(q)'
  BY <1>1 DEF Recorded
<1>4. \A h \in ckHarness : HarnessChecks(h)' \subseteq ckChecks'
  BY <1>1, <1>2, DisksStay
<1>5. ckExit' = 0 => \A c \in ckChecks' : c.status # "error"
  BY <1>1
<1>6. DoctorOK'
  BY <1>1, <1>2, <1>3, <1>4, <1>5 DEF DoctorOK, Question
<1>7. QED
  BY <1>1, <1>6 DEF ckInv

\* status, ledger verify and fake-hook end after their one question.
LEMMA OneQuestionKeeps ==
  ASSUME ckInv, runStatus \/ runLedgerVerify \/ runFakeHook
  PROVE  ckInv'
<1>1. ckCommand' = ckCommand /\ ckStep' = "done" /\ ckCommand \in {"status", "verify", "fake-hook"}
  BY Zenon DEF runStatus, runLedgerVerify, runFakeHook
<1>2. ASSUME runStatus
      PROVE  /\ ckSaw' \in [SawField -> SawOf] /\ ckCommand = "status"
             /\ ckExit' = 0 => ckSaw'["health"] = "good"
  <2>1. PICK a \in {AnswerTo("health"), "none"} :
          ckSaw' = [ckSaw EXCEPT !["health"] = a] /\ ckExit' = IF a = "none" THEN 1 ELSE 0
    BY <1>2, Zenon DEF runStatus
  <2>2. a \in {"good", "none"}
    BY DEF AnswerTo
  <2>3. a \in SawOf /\ "health" \in SawField
    BY <2>2 DEF SawOf, SawField, Question
  <2>4. QED
    BY <1>2, <2>1, <2>2, <2>3 DEF ckInv, runStatus
<1>3. ASSUME runLedgerVerify
      PROVE  /\ ckSaw' \in [SawField -> SawOf] /\ ckCommand = "verify"
             /\ ckExit' = 0 => ckSaw'["verify"] = "good"
  <2>1. PICK a \in {AnswerTo("verify"), "none"} :
          /\ ckSaw' = [ckSaw EXCEPT !["verify"] = a]
          /\ ckExit' = CASE a = "none" -> 1 [] a = "bad" -> 4 [] OTHER -> 0
    BY <1>3, Zenon DEF runLedgerVerify
  <2>2. a \in {"good", "bad", "none"}
    BY DEF AnswerTo
  <2>3. a \in SawOf /\ "verify" \in SawField
    BY <2>2 DEF SawOf, SawField, Question
  <2>4. QED
    BY <1>3, <2>1, <2>2, <2>3 DEF ckInv, runLedgerVerify
<1>4. ASSUME runFakeHook
      PROVE  /\ ckSaw' \in [SawField -> SawOf] /\ ckCommand = "fake-hook"
             /\ ckExit' = 0 => ckSaw'["gate"] \in {"allow", "monitor"}
  <2>1. CASE ckExit' = 2 /\ UNCHANGED ckSaw
    BY <1>4, <2>1 DEF ckInv, runFakeHook
  <2>2. ASSUME NEW a \in (IF ckDaemon.up THEN {"allow", "monitor", "deny"} ELSE {}) \cup {"none"},
               ckSaw' = [ckSaw EXCEPT !["gate"] = a],
               ckExit' = CASE a = "none" -> 1 [] a = "deny" -> 3 [] OTHER -> 0
        PROVE  ckSaw' \in [SawField -> SawOf] /\ (ckExit' = 0 => ckSaw'["gate"] \in {"allow", "monitor"})
    <3>1. a \in {"allow", "monitor", "deny", "none"}
      OBVIOUS
    <3>2. a \in SawOf /\ "gate" \in SawField
      BY <3>1 DEF SawOf, SawField
    <3>3. QED
      BY <2>2, <3>1, <3>2 DEF ckInv
  <2>3. \/ ckExit' = 2 /\ UNCHANGED ckSaw
        \/ \E a \in (IF ckDaemon.up THEN {"allow", "monitor", "deny"} ELSE {}) \cup {"none"} :
             /\ ckSaw' = [ckSaw EXCEPT !["gate"] = a]
             /\ ckExit' = CASE a = "none" -> 1 [] a = "deny" -> 3 [] OTHER -> 0
    BY <1>4, Zenon DEF runFakeHook
  <2>4. ckCommand = "fake-hook"
    BY <1>4, Zenon DEF runFakeHook
  <2>5. QED
    BY <2>1, <2>2, <2>3, <2>4, Zenon
<1>5. ckSaw' \in [SawField -> SawOf]
  BY <1>2, <1>3, <1>4, Zenon
<1>6. AnswerOK'
  BY <1>1, <1>2, <1>3, <1>4 DEF AnswerOK
<1>7. QED
  BY <1>1, <1>5, <1>6 DEF ckInv

-----------------------------------------------------------------------------
LEMMA ShowPickerKeeps ==
  ASSUME ckInv, ShowPicker
  PROVE  ckInv'
<1>1. /\ ckCommand = "install" /\ ckCommand' = "install" /\ ckStep = "start" /\ ckStep' = "keys"
      /\ ckSaw' = ckSaw /\ ckDisk' = ckDisk /\ PickerOK
      /\ ckPicker' = [ckPicker EXCEPT !["cursor"] = firstEnabledIndex, !["checked"] = Precheck]
  BY DEF ShowPicker, ckInv
<1>2. /\ DOMAIN ckPicker' = PickerField /\ ckPicker' = [f \in PickerField |-> ckPicker'[f]]
      /\ ckPicker'.checked = Precheck /\ ckPicker'.chosen = {} /\ ckPicker'.toUninstall = {}
  BY <1>1 DEF PickerOK, PickerField
<1>3. Precheck' = Precheck /\ detectAll' = detectAll
  BY <1>1, DisksStay
<1>4. \A h \in Precheck : Enabled(h) /\ detectAll[h].installed
  BY Zenon DEF Precheck
<1>5. LeftAlone(ckPicker.checked)'
  BY <1>2, <1>3, <1>4 DEF LeftAlone
<1>6. PickerOK'
  BY <1>1, <1>2, <1>5 DEF PickerOK
<1>7. QED
  BY <1>1, <1>6 DEF ckInv

\* A key toggles one row, or all of those that are enabled.
LEMMA PickerKeysKeeps ==
  ASSUME ckInv, PickerKeys
  PROVE  ckInv'
<1>1. /\ ckCommand' = ckCommand /\ ckStep = "keys" /\ ckStep' = "keys"
      /\ ckSaw' = ckSaw /\ ckDisk' = ckDisk
  BY DEF PickerKeys
<1>2. ckCommand = "install" /\ PickerOK
  BY <1>1 DEF ckInv, DoctorOK, AnswerOK, Question
<1>3. LeftAlone(ckPicker.checked)
  BY <1>1, <1>2 DEF PickerOK
<1>4. Precheck' = Precheck /\ detectAll' = detectAll
  BY <1>1, DisksStay
<1>5. /\ DOMAIN ckPicker' = PickerField /\ ckPicker' = [f \in PickerField |-> ckPicker'[f]]
      /\ ckPicker'.chosen = {} /\ ckPicker'.toUninstall = {}
  BY <1>1, <1>2 DEF PickerOK, PickerField, PickerKeys
<1>6. LeftAlone(ckPicker.checked)'
  <2>1. SUFFICES /\ Precheck \ ckPicker'.checked \subseteq ckPicker'.toggled
                 /\ \A h \in ckPicker'.checked :
                      Enabled(h) /\ (h \in ckPicker'.toggled \/ detectAll[h].installed)
    BY <1>4 DEF LeftAlone
  <2>2. CASE ckPicker'.checked = ckPicker.checked /\ ckPicker'.toggled = ckPicker.toggled
    BY <1>3, <2>2 DEF LeftAlone
  <2>3. ASSUME NEW at, Enabled(at), ckPicker'.toggled = ckPicker.toggled \cup {at},
               ckPicker'.checked = IF at \in ckPicker.checked THEN ckPicker.checked \ {at}
                                   ELSE ckPicker.checked \cup {at}
        PROVE  /\ Precheck \ ckPicker'.checked \subseteq ckPicker'.toggled
               /\ \A h \in ckPicker'.checked :
                     Enabled(h) /\ (h \in ckPicker'.toggled \/ detectAll[h].installed)
    BY <1>3, <2>3 DEF LeftAlone
  <2>4. CASE ckPicker'.checked = toggleAll(ckPicker.checked) /\ ckPicker'.toggled = ckHarness
    BY <2>4 DEF toggleAll, Precheck
  <2>5. \/ ckPicker'.checked = ckPicker.checked /\ ckPicker'.toggled = ckPicker.toggled
        \/ \E at : /\ Enabled(at) /\ ckPicker'.toggled = ckPicker.toggled \cup {at}
                   /\ ckPicker'.checked = IF at \in ckPicker.checked THEN ckPicker.checked \ {at}
                                          ELSE ckPicker.checked \cup {at}
        \/ ckPicker'.checked = toggleAll(ckPicker.checked) /\ ckPicker'.toggled = ckHarness
    BY <1>1, <1>2 DEF PickerOK, PickerField, PickerKeys
  <2>6. QED
    BY <2>2, <2>3, <2>4, <2>5
<1>7. PickerOK'
  BY <1>1, <1>5, <1>6 DEF PickerOK
<1>8. QED
  BY <1>1, <1>2, <1>7 DEF ckInv

LEMMA FinishKeeps ==
  ASSUME ckInv, Finish
  PROVE  ckInv'
<1>1. /\ ckCommand' = ckCommand /\ ckStep = "keys" /\ ckStep' = "done"
      /\ ckSaw' = ckSaw /\ ckDisk' = ckDisk
  BY DEF Finish
<1>2. ckCommand = "install" /\ PickerOK
  BY <1>1 DEF ckInv, DoctorOK, AnswerOK, Question
<1>3. LeftAlone(ckPicker.checked) /\ ckPicker.chosen = {} /\ ckPicker.toUninstall = {}
  BY <1>1, <1>2 DEF PickerOK
<1>4. Precheck' = Precheck /\ detectAll' = detectAll
  BY <1>1, DisksStay
<1>5. /\ DOMAIN ckPicker' = PickerField /\ ckPicker' = [f \in PickerField |-> ckPicker'[f]]
      /\ ckPicker'.toggled = ckPicker.toggled
      /\ \/ ckPicker'.chosen = ckPicker.checked /\ ckPicker'.toUninstall = Precheck \ ckPicker.checked
         \/ ckPicker'.chosen = {} /\ ckPicker'.toUninstall = {}
  BY <1>2, <1>3 DEF PickerOK, PickerField, Finish
<1>6. LeftAloneStays'
  BY <1>3, <1>4, <1>5 DEF LeftAlone, LeftAloneStays
<1>7. PickerOK'
  BY <1>1, <1>5, <1>6 DEF PickerOK
<1>8. QED
  BY <1>1, <1>2, <1>7 DEF ckInv

LEMMA StillsKeep ==
  ASSUME ckInv, UNCHANGED <<ckDisk, ckCommand, ckStep, ckChecks, ckExit, ckPicker, ckSaw>>
  PROVE  ckInv'
<1>1. detectAll' = detectAll /\ Precheck' = Precheck /\ \A h : HarnessChecks(h)' = HarnessChecks(h)
  BY DisksStay
<1>2. \A q : Recorded(q)' <=> Recorded(q)
  BY Zenon DEF Recorded
<1>3. DoctorOK => DoctorOK'
  BY <1>1, <1>2 DEF DoctorOK
<1>4. AnswerOK => AnswerOK'
  BY DEF AnswerOK
<1>5. PickerOK => PickerOK'
  BY <1>1 DEF PickerOK, LeftAlone, LeftAloneStays
<1>6. QED
  BY <1>3, <1>4, <1>5 DEF ckInv

-----------------------------------------------------------------------------
LEMMA CheckupInvariant == ckSpec => []ckInv
<1>1. ckInit => ckInv
  <2>1. SUFFICES ASSUME ckInit PROVE ckInv
    OBVIOUS
  <2>2. ckSaw \in [SawField -> SawOf]
    <3>1. ckSaw = [health |-> NotAsked, verify |-> NotAsked, mode |-> NotAsked,
                   policy |-> NotAsked, sessions |-> NotAsked, gate |-> NotAsked]
      BY <2>1, Zenon DEF ckInit, NotAsked
    <3>2. NotAsked \in SawOf /\ SawField = {"health", "verify", "mode", "policy", "sessions", "gate"}
      BY DEF SawOf, SawField, Question
    <3>3. QED
      BY <3>1, <3>2
  <2>3. /\ ckCommand \in {"doctor", "status", "verify", "fake-hook", "install"} /\ ckStep = "start"
        /\ ckPicker = [cursor |-> 1, checked |-> {}, chosen |-> {}, toUninstall |-> {}, toggled |-> {}]
    BY <2>1, Zenon DEF ckInit
  <2>4. DoctorOK /\ AnswerOK
    BY <2>3 DEF DoctorOK, AnswerOK
  <2>5. PickerOK
    BY <2>3 DEF PickerOK, PickerField
  <2>6. QED
    BY <2>2, <2>3, <2>4, <2>5 DEF ckInv
<1>2. ckInv /\ [ckNext]_ckVars => ckInv'
  <2>1. ASSUME ckInv, ckNext PROVE ckInv'
    <3>1. CASE DetectHarnesses  BY <2>1, <3>1, DetectKeeps
    <3>2. CASE Ask  BY <2>1, <3>2, AskKeeps
    <3>3. CASE runDoctor  BY <2>1, <3>3, RunDoctorKeeps
    <3>4. CASE runStatus \/ runLedgerVerify \/ runFakeHook  BY <2>1, <3>4, OneQuestionKeeps
    <3>5. CASE ShowPicker  BY <2>1, <3>5, ShowPickerKeeps
    <3>6. CASE PickerKeys  BY <2>1, <3>6, PickerKeysKeeps
    <3>7. CASE Finish  BY <2>1, <3>7, FinishKeeps
    <3>8. CASE DaemonChanges
      <4>1. UNCHANGED <<ckDisk, ckCommand, ckStep, ckChecks, ckExit, ckPicker, ckSaw>>
        BY <3>8, Zenon DEF DaemonChanges
      <4>2. QED
        BY <2>1, <4>1, StillsKeep
    <3>9. QED
      BY <2>1, <3>1, <3>2, <3>3, <3>4, <3>5, <3>6, <3>7, <3>8, Zenon DEF ckNext
  <2>2. ASSUME ckInv, UNCHANGED ckVars PROVE ckInv'
    BY <2>2, StillsKeep DEF ckVars
  <2>3. QED
    BY <2>1, <2>2
<1>3. QED
  BY <1>1, <1>2, PTL DEF ckSpec

LEMMA ZeroIsSound ==
  ASSUME ckInv
  PROVE  ZeroMeansSound
<1>1. SUFFICES ASSUME ckStep = "done", ckExit = 0
               PROVE  /\ ckCommand = "doctor" => ckSaw["health"] = "good" /\ ckSaw["verify"] = "good"
                      /\ ckCommand = "status" => ckSaw["health"] = "good"
                      /\ ckCommand = "verify" => ckSaw["verify"] = "good"
                      /\ ckCommand = "fake-hook" => ckSaw["gate"] \in {"allow", "monitor"}
  BY Zenon DEF ZeroMeansSound
<1>2. ASSUME ckCommand = "doctor" PROVE ckSaw["health"] = "good" /\ ckSaw["verify"] = "good"
  <2>1. /\ Recorded("health") /\ (ckSaw["health"] = "none" \/ \A q \in Question : Recorded(q))
        /\ \A c \in ckChecks : c.status # "error"
    BY <1>1, <1>2 DEF ckInv, DoctorOK
  <2>2. ASSUME NEW q \in {"health", "verify"}, Recorded(q) PROVE ckSaw[q] = "good"
    <3>1. ckSaw[q] \in {"good", "bad", "none"} /\ Found(q, StatusOf(q, ckSaw[q])) \in ckChecks
      BY <2>2 DEF Recorded
    <3>2. StatusOf(q, ckSaw[q]) # "error"
      BY <2>1, <3>1, FoundStatus, Zenon
    <3>3. q \in Question
      BY DEF Question
    <3>4. QED
      BY <3>1, <3>2, <3>3, StatusOfAnswer, Zenon
  <2>3. ckSaw["health"] = "good"
    BY <2>1, <2>2
  <2>4. Recorded("verify")
    BY <2>1, <2>3 DEF Question
  <2>5. QED
    BY <2>2, <2>3, <2>4
<1>3. ASSUME ckCommand # "doctor"
      PROVE  /\ ckCommand = "status" => ckSaw["health"] = "good"
             /\ ckCommand = "verify" => ckSaw["verify"] = "good"
             /\ ckCommand = "fake-hook" => ckSaw["gate"] \in {"allow", "monitor"}
  BY <1>1, <1>3 DEF ckInv, AnswerOK
<1>4. QED
  BY <1>2, <1>3

\* What doctor finds of a harness that is here, when all of it is "ok".
LEMMA CleanHarness ==
  ASSUME NEW h \in ckHarness \cap SUPPORTED_HARNESSES, ckDisk[h].dir,
         \A c \in HarnessChecks(h) : c.status = "ok"
  PROVE  ckDisk[h].text = "ours" /\ detectAll[h].daemonURL # "other"
<1>1. PICK code : code = checkOf(<<"not_wired", h>>, "warn")
  OBVIOUS
<1>2. PICK other : other = checkOf(<<"daemon_mismatch", h>>, "warn")
  OBVIOUS
<1>3. code.status # "ok" /\ other.status # "ok"
  BY <1>1, <1>2 DEF checkOf
<1>4. PICK d : d = detectAll[h]
  OBVIOUS
<1>5. d = [here |-> ckDisk[h].dir, installed |-> State(h).installed, daemonURL |-> State(h).daemonURL]
  BY <1>4, Zenon DEF detectAll
<1>6. ckKind[h] \in {"claude", "desktop", "codex", "hooks"}
  BY CheckupAssumption, Zenon DEF ckHarness
<1>7. PICK wired : State(h) = [installed |-> ckDisk[h].text = "ours", daemonURL |-> wired]
  BY <1>6 DEF State, claudeAgentlockState, claudeDesktopAgentlockState, codexAgentlockState,
              agentlockHookState, NOT_INSTALLED, InstalledAt
<1>8. d.here = ckDisk[h].dir /\ d.installed = (ckDisk[h].text = "ours")
  BY <1>5, <1>7
<1>9. HarnessChecks(h) =
        IF ~d.installed THEN {code}
        ELSE {checkOf(<<"wired", h>>, "ok")} \cup (IF d.daemonURL = "other" THEN {other} ELSE {})
  BY <1>1, <1>2, <1>4, <1>8, Zenon DEF HarnessChecks
<1>10. d.installed
  BY <1>3, <1>9
<1>11. d.daemonURL # "other"
  BY <1>3, <1>9, <1>10
<1>12. QED
  BY <1>4, <1>8, <1>10, <1>11

LEMMA CleanIsWired ==
  ASSUME ckInv
  PROVE  CleanMeansWired
<1>1. SUFFICES ASSUME ckCommand = "doctor", ckStep = "done", \A c \in ckChecks : c.status = "ok"
               PROVE  /\ \A n \in DOMAIN Questions : ckSaw[Questions[n]] = "good"
                      /\ \A h \in ckHarness \cap SUPPORTED_HARNESSES :
                           ckDisk[h].dir => ckDisk[h].text = "ours" /\ detectAll[h].daemonURL # "other"
  BY Zenon DEF CleanMeansWired
<1>2. /\ \A h \in ckHarness : HarnessChecks(h) \subseteq ckChecks
      /\ Recorded("health") /\ (ckSaw["health"] = "none" \/ \A q \in Question : Recorded(q))
  BY <1>1 DEF ckInv, DoctorOK
<1>3. ASSUME NEW q \in Question, Recorded(q) PROVE ckSaw[q] = "good"
  <2>1. ckSaw[q] \in {"good", "bad", "none"} /\ Found(q, StatusOf(q, ckSaw[q])) \in ckChecks
    BY <1>3 DEF Recorded
  <2>2. StatusOf(q, ckSaw[q]) = "ok"
    BY <1>1, <2>1, FoundStatus, Zenon
  <2>3. QED
    BY <2>1, <2>2, StatusOfAnswer, Zenon
<1>4. ckSaw["health"] = "good"
  BY <1>2, <1>3 DEF Question
<1>5. \A q \in Question : ckSaw[q] = "good"
  BY <1>2, <1>3, <1>4
<1>6. \A n \in DOMAIN Questions : Questions[n] \in Question
  BY QuestionOrder DEF Question
<1>7. QED
  BY <1>1, <1>2, <1>5, <1>6, CleanHarness

LEMMA LeftAloneIsKept ==
  ASSUME ckInv
  PROVE  LeftAloneStays
BY DEF ckInv, PickerOK, LeftAloneStays

\* The exit code and the report of a checkup stand for every answer they were
\* given, whatever becomes of the daemon between two questions, and the picker of
\* agentlock install changes only what its user toggled (cli/src/commands/
\* doctor.ts, status.ts, ledger.ts, fake-hook.ts; cli/src/tui/multiselect.tsx).
THEOREM CheckupAlwaysHolds == ckSpec => []CheckupHolds
<1>1. ckInv => CheckupHolds
  BY ZeroIsSound, CleanIsWired, LeftAloneIsKept DEF CheckupHolds
<1>2. QED
  BY <1>1, CheckupInvariant, PTL

-----------------------------------------------------------------------------
(* TERMINAL DASHBOARD, for any number of rows, any catalog, any gates and      *)
(* lists of any length: the marked row is on the screen although lists shrink *)
(* and grow under it, as the cursor never leaves the window that is drawn.     *)

UiField == {"tab", "cursor", "scroll", "filters", "field", "text", "detail", "gateDetail",
            "showInternal", "pending", "editorActive", "window"}

\* Of every tab the cursor is in the window, whatever the length of its list.
WindowKept(u) ==
  /\ DOMAIN u = UiField /\ u.tab \in TabName
  /\ u.cursor \in [TabName -> Nat] /\ u.scroll \in [TabName -> Nat]
  /\ \A t \in TabName : u.scroll[t] <= u.cursor[t] /\ u.cursor[t] < u.scroll[t] + Rows

\* What is heard from the daemon are lists, on their way too.
SeenSound(s) ==
  /\ DOMAIN s = {"policy", "mode", "enabled", "sessions", "insights", "events", "catalog"}
  /\ IsSeq(s.policy) /\ IsSeq(s.sessions) /\ IsSeq(s.events) /\ IsSeq(s.catalog)
DaemonSound(d) ==
  /\ DOMAIN d = {"gates", "mode", "enabled", "sessions", "ledger"}
  /\ IsSeq(d.gates) /\ IsSeq(d.sessions)
RequestSound(r) ==
  /\ DOMAIN r = {"kind", "arg", "answer"}
  /\ r.kind \in {"policyView", "listSessions"} /\ r.answer # None => IsSeq(r.answer)
FlightSound(f) == IsSeq(f) /\ \A i \in 1 .. Len(f) : RequestSound(f[i])

tuInv == WindowKept(ui) /\ SeenSound(seen) /\ DaemonSound(daemon) /\ FlightSound(flight)

LEMMA TabsAre ==
  /\ TabName = {"stats", "events", "guardrails", "sessions", "gates", "mode"}
  /\ Len(TABS) = 6 /\ \A i \in 1 .. 6 : TABS[i] \in TabName
<1>1. DOMAIN TABS = 1 .. 6 /\ Len(TABS) = 6
  BY DEF TABS
<1>2. \A i \in 1 .. 6 : TABS[i] \in TabName
  BY <1>1 DEF TabName
<1>3. TabName = {TABS[1], TABS[2], TABS[3], TABS[4], TABS[5], TABS[6]}
  BY <1>1 DEF TabName
<1>4. /\ TABS[1] = "stats" /\ TABS[2] = "events" /\ TABS[3] = "guardrails"
      /\ TABS[4] = "sessions" /\ TABS[5] = "gates" /\ TABS[6] = "mode"
  BY DEF TABS
<1> QED
  BY <1>1, <1>2, <1>3, <1>4

LEMMA EmptyIsSeq == IsSeq(<<>>)
<1>1. <<>> \in Seq({})
  OBVIOUS
<1> QED
  BY <1>1, SeqIsSeq

LEMMA AmongAny ==
  ASSUME NEW s, NEW S, IsSeq(s)
  PROVE  IsSeq(Among(s, S))
<1>1. s = [i \in 1 .. Len(s) |-> s[i]] /\ Len(s) \in Nat
  BY DEF IsSeq
<1>2. s \in Seq({s[i] : i \in 1 .. Len(s)})
  BY <1>1, SeqOfFunction
<1>3. PICK U : s \in Seq(U)
  BY <1>2
<1>4. Among(s, S) \in Seq(U)
  BY <1>3, AmongFacts
<1> QED
  BY <1>4, SeqIsSeq

LEMMA SeqDomain ==
  ASSUME NEW s, IsSeq(s)
  PROVE  DOMAIN s = 1 .. Len(s) /\ Len(s) \in Nat
BY DEF IsSeq

LEMMA FunctionIsSeq ==
  ASSUME NEW n \in Nat, NEW s, s = [i \in 1 .. n |-> s[i]]
  PROVE  IsSeq(s)
BY SeqOfFunction

LEMMA ListsAreSeqs ==
  ASSUME SeenSound(seen), NEW t \in TabName
  PROVE  IsSeq(Listed(t)) /\ IsSeq(RowsOf(t))
<1>1. /\ IsSeq(seen.events) /\ IsSeq(seen.sessions) /\ IsSeq(seen.policy) /\ IsSeq(seen.catalog)
      /\ IsSeq(<<>>)
  BY EmptyIsSeq DEF SeenSound
<1>2. IsSeq(filteredEvents)
  <2>1. \E S : filteredEvents = Among(seen.events, S)
    BY Zenon DEF filteredEvents
  <2> QED
    BY <2>1, <1>1, AmongAny
<1>3. \A S : IsSeq(Among(seen.sessions, S))
  BY <1>1, AmongAny
<1>4. IsSeq(Listed(t))
  BY <1>1, <1>2, <1>3 DEF Listed
<1> QED
  BY <1>1, <1>4 DEF RowsOf, visibleSessions

-----------------------------------------------------------------------------
LEMMA OtherFields ==
  ASSUME WindowKept(ui), NEW v, DOMAIN v = UiField, v.cursor = ui.cursor, v.scroll = ui.scroll,
         v.tab \in TabName
  PROVE  WindowKept(v)
BY DEF WindowKept

LEMMA TopKeepsWindow ==
  ASSUME NEW u, WindowKept(u), NEW t \in TabName
  PROVE  WindowKept(TopOf(u, t))
<1>1. Rows \in Nat \ {0}
  BY DashboardAssumption DEF DashboardAssumption
<1>2. PICK c : c = [u.cursor EXCEPT ![t] = 0]
  OBVIOUS
<1>3. PICK o : o = [u.scroll EXCEPT ![t] = 0]
  OBVIOUS
<1>4. PICK v : v = TopOf(u, t)
  OBVIOUS
<1>5. DOMAIN v = UiField /\ v.tab = u.tab /\ v.cursor = c /\ v.scroll = o
  BY <1>2, <1>3, <1>4 DEF TopOf, WindowKept, UiField
<1>6. /\ c \in [TabName -> Nat] /\ o \in [TabName -> Nat]
      /\ \A p \in TabName : o[p] <= c[p] /\ c[p] < o[p] + Rows
  BY <1>1, <1>2, <1>3 DEF WindowKept
<1>7. u.tab \in TabName
  BY DEF WindowKept
<1>8. WindowKept(v)
  BY <1>5, <1>6, <1>7 DEF WindowKept
<1> QED
  BY <1>4, <1>8

LEMMA KeysKeepWindow ==
  ASSUME tuInv
  PROVE  /\ CloseKey => WindowKept(ui')
         /\ FilterDoneKey => WindowKept(ui')
         /\ cycleEventFilter => WindowKept(ui')
         /\ ClearFieldKey => WindowKept(ui')
         /\ TypeKey => WindowKept(ui')
         /\ TabKey => WindowKept(ui')
         /\ WindowKey => WindowKept(ui')
         /\ EventsKey => WindowKept(ui')
         /\ SessionsKey => WindowKept(ui')
         /\ GateDetailKey => WindowKept(ui')
<1>1. WindowKept(ui) /\ DOMAIN ui = UiField /\ ui.tab \in TabName
  BY DEF tuInv, WindowKept
<1>2. "events" \in TabName /\ "sessions" \in TabName
  BY TabsAre
<1>3. \A v : DOMAIN v = UiField /\ v.cursor = ui.cursor /\ v.scroll = ui.scroll /\ v.tab = ui.tab
               => WindowKept(v) /\ WindowKept(TopOf(v, "events")) /\ WindowKept(TopOf(v, "sessions"))
  <2> TAKE v
  <2> HAVE DOMAIN v = UiField /\ v.cursor = ui.cursor /\ v.scroll = ui.scroll /\ v.tab = ui.tab
  <2>1. WindowKept(v)
    BY <1>1, OtherFields
  <2> QED
    BY <2>1, <1>2, TopKeepsWindow
<1> USE <1>1
<1>4. CloseKey => WindowKept(ui')
  <2> SUFFICES ASSUME CloseKey PROVE WindowKept(ui')
    OBVIOUS
  <2>1. /\ DOMAIN ui' = UiField /\ ui'.cursor = ui.cursor
        /\ ui'.scroll = ui.scroll /\ ui'.tab = ui.tab
    BY DEF CloseKey, UiField
  <2> QED
    BY <2>1, <1>3
<1>5. FilterDoneKey => WindowKept(ui')
  <2> SUFFICES ASSUME FilterDoneKey PROVE WindowKept(ui')
    OBVIOUS
  <2>0. PICK saved :
          saved = IF ui.field = "rule" THEN [ui EXCEPT !.filters.rule = ui.text] ELSE ui
    OBVIOUS
  <2>1. /\ DOMAIN saved = UiField /\ saved.cursor = ui.cursor
        /\ saved.scroll = ui.scroll /\ saved.tab = ui.tab
    BY <2>0 DEF UiField
  <2>2. \E f, x : ui' = TopOf([saved EXCEPT !.field = f, !.text = x], "events")
    BY <2>0, Zenon DEF FilterDoneKey
  <2>3. PICK f, x : ui' = TopOf([saved EXCEPT !.field = f, !.text = x], "events")
    BY <2>2
  <2>4. PICK v : v = [saved EXCEPT !.field = f, !.text = x]
    OBVIOUS
  <2>5. /\ DOMAIN v = UiField /\ v.cursor = ui.cursor /\ v.scroll = ui.scroll /\ v.tab = ui.tab
    BY <2>1, <2>4 DEF UiField
  <2> QED
    BY <2>3, <2>4, <2>5, <1>3
<1>6. cycleEventFilter => WindowKept(ui')
  <2> SUFFICES ASSUME cycleEventFilter PROVE WindowKept(ui')
    OBVIOUS
  <2>2. \E x : ui' = TopOf([ui EXCEPT !.filters[ui.field] = x], "events")
    BY Zenon DEF cycleEventFilter
  <2>3. PICK v : /\ ui' = TopOf(v, "events") /\ DOMAIN v = UiField /\ v.cursor = ui.cursor
                 /\ v.scroll = ui.scroll /\ v.tab = ui.tab
    BY <2>2 DEF UiField
  <2> QED
    BY <2>3, <1>3
<1>7. ClearFieldKey => WindowKept(ui')
  <2> SUFFICES ASSUME ClearFieldKey PROVE WindowKept(ui')
    OBVIOUS
  <2>2. \E x : ui' = TopOf([ui EXCEPT !.filters[ui.field] = x], "events")
    BY Zenon DEF ClearFieldKey
  <2>3. PICK v : /\ ui' = TopOf(v, "events") /\ DOMAIN v = UiField /\ v.cursor = ui.cursor
                 /\ v.scroll = ui.scroll /\ v.tab = ui.tab
    BY <2>2 DEF UiField
  <2> QED
    BY <2>3, <1>3
<1>8. TypeKey => WindowKept(ui')
  <2> SUFFICES ASSUME TypeKey PROVE WindowKept(ui')
    OBVIOUS
  <2>1. /\ DOMAIN ui' = UiField /\ ui'.cursor = ui.cursor
        /\ ui'.scroll = ui.scroll /\ ui'.tab = ui.tab
    BY DEF TypeKey, UiField
  <2> QED
    BY <2>1, <1>3
<1>9. TabKey => WindowKept(ui')
  <2> SUFFICES ASSUME TabKey PROVE WindowKept(ui')
    OBVIOUS
  <2>0. PICK i : i = CHOOSE k \in DOMAIN TABS : TABS[k] = ui.tab
    OBVIOUS
  <2>1. PICK d \in {0, 4} : ui' = [ui EXCEPT !.tab = TABS[((i + d) % Len(TABS)) + 1]]
    BY <2>0 DEF TabKey
  <2>2. i \in 1 .. 6
    <3>1. \E k \in DOMAIN TABS : TABS[k] = ui.tab
      BY DEF TabName
    <3>2. DOMAIN TABS = 1 .. 6
      BY DEF TABS
    <3> QED
      BY <3>1, <3>2, <2>0
  <2>3. PICK n \in 1 .. 6 : n = ((i + d) % Len(TABS)) + 1
    BY <2>2, TabsAre
  <2>4. TABS[n] \in TabName
    BY TabsAre
  <2>5. /\ DOMAIN ui' = UiField /\ ui'.cursor = ui.cursor
        /\ ui'.scroll = ui.scroll /\ ui'.tab \in TabName
    BY <2>1, <2>3, <2>4 DEF UiField
  <2> QED
    BY <2>5, OtherFields
<1>10. WindowKey => WindowKept(ui')
  <2> SUFFICES ASSUME WindowKey PROVE WindowKept(ui')
    OBVIOUS
  <2>1. /\ DOMAIN ui' = UiField /\ ui'.cursor = ui.cursor
        /\ ui'.scroll = ui.scroll /\ ui'.tab = ui.tab
    BY DEF WindowKey, UiField
  <2> QED
    BY <2>1, <1>3
<1>11. EventsKey => WindowKept(ui')
  <2> SUFFICES ASSUME EventsKey PROVE WindowKept(ui')
    OBVIOUS
  <2>1. CASE ui' = TopOf([ui EXCEPT !.filters = EMPTY_FILTERS], "events")
    <3>1. PICK v : v = [ui EXCEPT !.filters = EMPTY_FILTERS]
      OBVIOUS
    <3>2. DOMAIN v = UiField /\ v.cursor = ui.cursor /\ v.scroll = ui.scroll /\ v.tab = ui.tab
      BY <3>1 DEF UiField
    <3> QED
      BY <2>1, <3>1, <3>2, <1>3
  <2>2. CASE \/ ui' = [ui EXCEPT !.detail = Selected("events").seq]
             \/ ui' = [ui EXCEPT !.field = "source", !.text = NoText]
             \/ ui' = [ui EXCEPT !.filters.internal = ~@]
             \/ ui' = [ui EXCEPT !.filters.outcomes = ~@]
    <3>1. /\ DOMAIN ui' = UiField /\ ui'.cursor = ui.cursor
          /\ ui'.scroll = ui.scroll /\ ui'.tab = ui.tab
      BY <2>2 DEF UiField
    <3> QED
      BY <3>1, <1>3
  <2> QED
    BY <2>1, <2>2 DEF EventsKey
<1>12. SessionsKey => WindowKept(ui')
  <2> SUFFICES ASSUME SessionsKey PROVE WindowKept(ui')
    OBVIOUS
  <2>1. PICK v : v = [ui EXCEPT !.showInternal = ~@] /\ ui' = TopOf(v, "sessions")
    BY DEF SessionsKey
  <2>2. DOMAIN v = UiField /\ v.cursor = ui.cursor /\ v.scroll = ui.scroll /\ v.tab = ui.tab
    BY <2>1 DEF UiField
  <2> QED
    BY <2>1, <2>2, <1>3
<1>13. GateDetailKey => WindowKept(ui')
  <2> SUFFICES ASSUME GateDetailKey PROVE WindowKept(ui')
    OBVIOUS
  <2>1. /\ DOMAIN ui' = UiField /\ ui'.cursor = ui.cursor
        /\ ui'.scroll = ui.scroll /\ ui'.tab = ui.tab
    BY DEF GateDetailKey, UiField
  <2> QED
    BY <2>1, <1>3
<1> QED
  BY <1>4, <1>5, <1>6, <1>7, <1>8, <1>9, <1>10, <1>11, <1>12, <1>13, Zenon

\* j and k: the window follows the cursor by one row.
LEMMA MoveKeepsWindow ==
  ASSUME tuInv, moveCursor
  PROVE  WindowKept(ui')
<1>1. Rows \in Nat \ {0}
  BY DashboardAssumption DEF DashboardAssumption
<1>2. PICK t \in TabName : t = ui.tab
  BY DEF tuInv, WindowKept
<1>3. PICK max : max = Len(RowsOf(t))
  OBVIOUS
<1>4. max \in Nat
  <2>1. IsSeq(RowsOf(t))
    BY ListsAreSeqs DEF tuInv
  <2> QED
    BY <2>1, <1>3 DEF IsSeq
<1>5. PICK c \in Nat : c = ui.cursor[t]
  BY DEF tuInv, WindowKept
<1>6. PICK off \in Nat : off = ui.scroll[t]
  BY DEF tuInv, WindowKept
<1>7. off <= c /\ c < off + Rows
  BY <1>5, <1>6 DEF tuInv, WindowKept
<1>8. PICK delta \in {-1, 1} :
        LET next == Clamped(c + delta, max - 1) IN
        ui' = [ui EXCEPT !.cursor[t] = next,
                         !.scroll[t] = IF next < off THEN next
                                       ELSE IF next >= off + Rows THEN next - Rows + 1 ELSE off]
  BY <1>2, <1>3, <1>5, <1>6 DEF moveCursor
<1>9. max > 0
  BY <1>2, <1>3 DEF moveCursor
<1>10. PICK next \in Nat : next = Clamped(c + delta, max - 1)
  BY <1>4, <1>5, <1>8, <1>9 DEF Clamped
<1>11. next <= c + 1
  BY <1>4, <1>5, <1>8, <1>9, <1>10 DEF Clamped
<1>12. PICK o : o = IF next < off THEN next ELSE IF next >= off + Rows THEN next - Rows + 1 ELSE off
  OBVIOUS
<1>13. o \in Nat /\ o <= next /\ next < o + Rows
  BY <1>1, <1>5, <1>6, <1>7, <1>10, <1>11, <1>12
<1>14. ui' = [ui EXCEPT !.cursor[t] = next, !.scroll[t] = o]
  BY <1>8, <1>10, <1>12
<1>15. /\ DOMAIN ui' = UiField /\ ui'.tab = ui.tab
       /\ ui'.cursor = [ui.cursor EXCEPT ![t] = next]
       /\ ui'.scroll = [ui.scroll EXCEPT ![t] = o]
  BY <1>14 DEF tuInv, WindowKept, UiField
<1>16. PICK cs : cs = [ui.cursor EXCEPT ![t] = next]
  OBVIOUS
<1>17. PICK os : os = [ui.scroll EXCEPT ![t] = o]
  OBVIOUS
<1>18. /\ cs \in [TabName -> Nat] /\ os \in [TabName -> Nat]
       /\ \A p \in TabName : os[p] <= cs[p] /\ cs[p] < os[p] + Rows
  BY <1>10, <1>13, <1>16, <1>17 DEF tuInv, WindowKept
<1>19. ui'.cursor = cs /\ ui'.scroll = os
  BY <1>15, <1>16, <1>17
<1>20. ui.tab \in TabName
  BY DEF tuInv, WindowKept
<1> QED
  BY <1>15, <1>18, <1>19, <1>20 DEF WindowKept

\* What is neither a move nor a reset leaves the cursor where it is.
LEMMA RestKeepsWindow ==
  ASSUME tuInv
  PROVE  /\ DeleteKey => WindowKept(ui')
         /\ EditKey => WindowKept(ui')
         /\ Expire => WindowKept(ui')
         /\ \A i : GateEdited(i) => WindowKept(ui')
         /\ \A fl : CaseArrives(fl) => WindowKept(ui')
         /\ \A fl : runEditor(fl) => WindowKept(ui')
<1>1. WindowKept(ui) /\ DOMAIN ui = UiField /\ ui.tab \in TabName
  BY DEF tuInv, WindowKept
<1>2. \A x : WindowKept([ui EXCEPT !.pending = x]) /\ WindowKept([ui EXCEPT !.editorActive = x])
  <2> TAKE x
  <2>1. PICK v : v = [ui EXCEPT !.pending = x]
    OBVIOUS
  <2>2. PICK w : w = [ui EXCEPT !.editorActive = x]
    OBVIOUS
  <2>3. /\ DOMAIN v = UiField /\ v.cursor = ui.cursor /\ v.scroll = ui.scroll /\ v.tab = ui.tab
        /\ DOMAIN w = UiField /\ w.cursor = ui.cursor /\ w.scroll = ui.scroll /\ w.tab = ui.tab
    BY <1>1, <2>1, <2>2 DEF UiField
  <2>4. WindowKept(v) /\ WindowKept(w)
    BY <1>1, <2>3, OtherFields
  <2> QED
    BY <2>1, <2>2, <2>4
<1>3. DeleteKey => WindowKept(ui')
  <2>1. DeleteKey => \E x : ui' = ui \/ ui' = [ui EXCEPT !.pending = x]
    BY Zenon DEF DeleteKey
  <2> QED
    BY <2>1, <1>1, <1>2
<1>4. EditKey => WindowKept(ui')
  <2>1. EditKey => ui' = [ui EXCEPT !.editorActive = TRUE]
    BY Zenon DEF EditKey
  <2> QED
    BY <2>1, <1>2
<1>5. Expire => WindowKept(ui')
  BY <1>2 DEF Expire
<1>6. \A i : GateEdited(i) => WindowKept(ui')
  <2>1. \A i : GateEdited(i) => \E x : ui' = ui \/ ui' = [ui EXCEPT !.pending = x]
    BY DEF GateEdited
  <2> QED
    BY <2>1, <1>1, <1>2
<1>7. \A fl : CaseArrives(fl) => WindowKept(ui')
  BY <1>1, <1>2 DEF CaseArrives
<1>8. \A fl : runEditor(fl) => WindowKept(ui')
  BY <1>2 DEF runEditor
<1> QED
  BY <1>3, <1>4, <1>5, <1>6, <1>7, <1>8

-----------------------------------------------------------------------------
(* Requests and answers. *)

LEMMA NewRequest ==
  ASSUME NEW kind, NEW arg
  PROVE  RequestSound(Request(kind, arg))
BY DEF RequestSound, Request

LEMMA OneSent ==
  ASSUME FlightSound(flight), NEW r, RequestSound(r), flight' = flight \o <<r>>
  PROVE  FlightSound(flight')
<1>1. <<r>> \in Seq({r}) /\ Len(<<r>>) = 1 /\ <<r>>[1] = r
  OBVIOUS
<1>2. PICK one : one = <<r>> /\ IsSeq(one) /\ Len(one) = 1 /\ one[1] = r
  BY <1>1, SeqIsSeq
<1>3. PICK f : f = flight \o one
  OBVIOUS
<1>4. /\ IsSeq(f) /\ Len(f) = Len(flight) + 1
      /\ \A k \in 1 .. Len(flight) : f[k] = flight[k]
      /\ f[Len(flight) + 1] = r
  <2>1. /\ IsSeq(flight \o one) /\ Len(flight \o one) = Len(flight) + Len(one)
        /\ \A k \in 1 .. Len(flight) : (flight \o one)[k] = flight[k]
        /\ \A k \in 1 .. Len(one) : (flight \o one)[Len(flight) + k] = one[k]
    <3>1. IsSeq(flight) /\ IsSeq(one)
      BY <1>2 DEF FlightSound
    <3> QED
      BY <3>1, ConcatAny
  <2> QED
    BY <2>1, <1>2, <1>3
<1>5. Len(flight) \in Nat
  BY DEF FlightSound, IsSeq
<1>6. \A k \in 1 .. Len(f) : RequestSound(f[k])
  BY <1>4, <1>5 DEF FlightSound
<1>7. FlightSound(f)
  BY <1>4, <1>6 DEF FlightSound
<1> QED
  BY <1>2, <1>3, <1>7

LEMMA OneGone ==
  ASSUME NEW f, FlightSound(f), NEW i \in DOMAIN f
  PROVE  FlightSound(RemoveAt(f, i))
<1>1. IsSeq(f) /\ Len(f) \in Nat /\ i \in 1 .. Len(f)
  BY SeqDomain DEF FlightSound
<1>2. PICK g : g = RemoveAt(f, i)
  OBVIOUS
<1>3. /\ IsSeq(g) /\ Len(g) = Len(f) - 1
      /\ \A k \in 1 .. Len(f) - 1 : g[k] = IF k < i THEN f[k] ELSE f[k + 1]
  BY <1>1, <1>2, RemoveAny
<1>4. \A k \in 1 .. Len(g) : RequestSound(g[k])
  BY <1>1, <1>3 DEF FlightSound
<1> QED
  BY <1>2, <1>3, <1>4 DEF FlightSound

LEMMA PollsSent ==
  ASSUME FlightSound(flight), Send(Polls(focus))
  PROVE  FlightSound(flight')
<1>1. \/ Polls(focus) = <<>>
      \/ \E kind, arg : Polls(focus) = <<Request(kind, arg)>>
  BY DEF Polls, policyView
<1>2. CASE Polls(focus) = <<>>
  <2>1. PICK none : none = <<>> /\ IsSeq(none) /\ Len(none) = 0
    BY EmptyIsSeq
  <2>2. PICK f : f = flight \o none
    OBVIOUS
  <2>3. IsSeq(flight) /\ Len(flight) \in Nat
    BY SeqDomain DEF FlightSound
  <2>4. /\ IsSeq(flight \o none) /\ Len(flight \o none) = Len(flight) + Len(none)
        /\ \A k \in 1 .. Len(flight) : (flight \o none)[k] = flight[k]
    BY <2>1, <2>3, ConcatAny
  <2>5. IsSeq(f) /\ Len(f) = Len(flight) /\ \A k \in 1 .. Len(flight) : f[k] = flight[k]
    BY <2>1, <2>2, <2>3, <2>4
  <2>6. FlightSound(f)
    BY <2>5 DEF FlightSound
  <2> QED
    BY <2>1, <2>2, <2>6, <1>2 DEF Send
<1>3. CASE \E kind, arg : Polls(focus) = <<Request(kind, arg)>>
  <2>1. PICK r : RequestSound(r) /\ Polls(focus) = <<r>>
    BY <1>3, NewRequest
  <2> QED
    BY <2>1, OneSent DEF Send
<1> QED
  BY <1>1, <1>2, <1>3

LEMMA OneAppended ==
  ASSUME NEW f, FlightSound(f), NEW r, RequestSound(r)
  PROVE  FlightSound(Append(f, r))
<1>1. IsSeq(f) /\ Len(f) \in Nat
  BY SeqDomain DEF FlightSound
<1>2. PICK g : g = Append(f, r)
  OBVIOUS
<1>3. /\ IsSeq(g) /\ Len(g) = Len(f) + 1 /\ g[Len(f) + 1] = r
      /\ \A k \in 1 .. Len(f) : g[k] = f[k]
  BY <1>1, <1>2, AppendAny
<1>4. \A k \in 1 .. Len(g) : RequestSound(g[k])
  BY <1>1, <1>3 DEF FlightSound
<1> QED
  BY <1>2, <1>3, <1>4 DEF FlightSound

LEMMA KeysKeepFlight ==
  ASSUME FlightSound(flight)
  PROVE  /\ Tick => FlightSound(flight')
         /\ RefreshKey => FlightSound(flight')
         /\ ModeKey => FlightSound(flight')
         /\ WindowKey => FlightSound(flight')
         /\ toggleGuardrail => FlightSound(flight')
         /\ PatchKey => FlightSound(flight')
         /\ DeleteKey => FlightSound(flight')
         /\ \A fl : Install(fl) => FlightSound(flight')
<1>1. \A kind, arg : Send(<<Request(kind, arg)>>) => FlightSound(flight')
  BY NewRequest, OneSent DEF Send
<1>2. Tick => FlightSound(flight')
  BY PollsSent DEF Tick
<1>3. RefreshKey => FlightSound(flight')
  BY PollsSent DEF RefreshKey
<1>4. ModeKey => FlightSound(flight')
  BY <1>1 DEF ModeKey
<1>5. WindowKey => FlightSound(flight')
  BY <1>1 DEF WindowKey
<1>6. toggleGuardrail => FlightSound(flight')
  BY <1>1 DEF toggleGuardrail, saveGuardrailEnabled
<1>7. PatchKey => FlightSound(flight')
  BY <1>1 DEF PatchKey
<1>8. DeleteKey => FlightSound(flight')
  BY <1>1 DEF DeleteKey
<1>9. \A fl : Install(fl) => FlightSound(flight')
  BY <1>1 DEF Install, policyView
<1> QED
  BY <1>2, <1>3, <1>4, <1>5, <1>6, <1>7, <1>8, <1>9

LEMMA ViewIsSeq ==
  ASSUME DaemonSound(daemon)
  PROVE  IsSeq(PolicyView)
<1>1. DOMAIN daemon.gates = 1 .. Len(daemon.gates) /\ Len(daemon.gates) \in Nat
  BY SeqDomain DEF DaemonSound
<1>2. PolicyView = [i \in 1 .. Len(daemon.gates) |-> PolicyView[i]]
  BY <1>1 DEF PolicyView
<1> QED
  BY <1>1, <1>2, FunctionIsSeq

LEMMA HandleSound ==
  ASSUME FlightSound(flight), DaemonSound(daemon), NEW i \in DOMAIN flight, Handle(i)
  PROVE  FlightSound(flight') /\ DaemonSound(daemon')
<1>1. IsSeq(flight) /\ DOMAIN flight = 1 .. Len(flight) /\ Len(flight) \in Nat
  BY SeqDomain DEF FlightSound
<1>2. PICK r : r = flight[i] /\ RequestSound(r)
  BY <1>1 DEF FlightSound
<1>3. PICK a :
        /\ a = CASE r.kind = "getMode"          -> daemon.mode
                 [] r.kind = "patchMode"        -> r.arg
                 [] r.kind = "listSessions"     -> daemon.sessions
                 [] r.kind = "policyView"       -> PolicyView
                 [] r.kind = "guardrailEnabled" -> daemon.enabled
                 [] r.kind = "saveGuardrailEnabled" -> r.arg.next
                 [] r.kind = "ledgerInsights"   -> [window |-> r.arg, total |-> Len(daemon.ledger)]
        /\ flight' = [flight EXCEPT ![i].answer = a]
        /\ daemon' = CASE r.kind = "patchMode" -> [daemon EXCEPT !.mode = a]
                       [] r.kind = "saveGuardrailEnabled" -> [daemon EXCEPT !.enabled = a]
                       [] OTHER -> daemon
  BY <1>2 DEF Handle
<1>4. r.kind = "listSessions" => IsSeq(a)
  BY <1>3 DEF DaemonSound
<1>5. r.kind = "policyView" => IsSeq(a)
  BY <1>3, ViewIsSeq
<1>6. PICK q : q = [r EXCEPT !.answer = a]
  OBVIOUS
<1>7. RequestSound(q)
  BY <1>2, <1>4, <1>5, <1>6 DEF RequestSound
<1>8. PICK g : g = [flight EXCEPT ![i] = q]
  OBVIOUS
<1>9. /\ g = [k \in 1 .. Len(flight) |-> g[k]] /\ g[i] = q
      /\ \A k \in 1 .. Len(flight) : k # i => g[k] = flight[k]
  BY <1>1, <1>8
<1>10. IsSeq(g) /\ Len(g) = Len(flight)
  BY <1>1, <1>9, SeqOfFunction
<1>11. FlightSound(g)
  BY <1>7, <1>9, <1>10 DEF FlightSound
<1>12. flight' = g
  BY <1>2, <1>3, <1>6, <1>8
<1>13. DaemonSound(daemon')
  BY <1>3 DEF DaemonSound
<1> QED
  BY <1>11, <1>12, <1>13

LEMMA ReceiveSound ==
  ASSUME FlightSound(flight), SeenSound(seen), NEW i \in DOMAIN flight, Receive(i)
  PROVE  FlightSound(flight') /\ SeenSound(seen')
<1>1. IsSeq(flight) /\ DOMAIN flight = 1 .. Len(flight) /\ Len(flight) \in Nat
  BY SeqDomain DEF FlightSound
<1>2. PICK r : r = flight[i] /\ RequestSound(r)
  BY <1>1 DEF FlightSound
<1>3. /\ r.answer # None
      /\ seen' = CASE r.kind \in {"getMode", "patchMode"} -> [seen EXCEPT !.mode = r.answer]
                   [] r.kind = "listSessions"   -> [seen EXCEPT !.sessions = r.answer]
                   [] r.kind = "policyView"     -> [seen EXCEPT !.policy = r.answer]
                   [] r.kind = "ledgerInsights" -> [seen EXCEPT !.insights = r.answer]
                   [] OTHER                     -> [seen EXCEPT !.enabled = r.answer]
  BY <1>2 DEF Receive
<1>4. SeenSound(seen')
  BY <1>2, <1>3 DEF SeenSound, RequestSound
<1>5. FlightSound(flight')
  BY OneGone DEF Receive
<1> QED
  BY <1>4, <1>5

LEMMA FailsSound ==
  ASSUME FlightSound(flight), SeenSound(seen), NEW i \in DOMAIN flight, Fails(i)
  PROVE  FlightSound(flight') /\ SeenSound(seen')
<1>1. FlightSound(flight')
  BY OneGone DEF Fails
<1>2. SeenSound(seen')
  BY DEF Fails, SeenSound
<1> QED
  BY <1>1, <1>2

LEMMA GatesAfterIsSeq ==
  ASSUME DaemonSound(daemon), NEW r, GatesAfter(r) # None
  PROVE  IsSeq(GatesAfter(r))
<1>1. IsSeq(daemon.gates) /\ DOMAIN daemon.gates = 1 .. Len(daemon.gates) /\ Len(daemon.gates) \in Nat
  BY SeqDomain DEF DaemonSound
<1>2. PICK at : at = GateIndex(r.arg.id)
  OBVIOUS
<1>3. PICK i : i = CHOOSE k \in at : TRUE
  OBVIOUS
<1>4. at # {} => i \in 1 .. Len(daemon.gates)
  BY <1>1, <1>2, <1>3 DEF GateIndex
<1>5. CASE r.kind = "patchGate" /\ at # {}
  <2>1. PICK g : g = GatesAfter(r)
    OBVIOUS
  <2>2. g = [daemon.gates EXCEPT ![i][r.arg.field] = r.arg.value]
    BY <1>2, <1>3, <1>5, <2>1 DEF GatesAfter
  <2>3. g = [k \in 1 .. Len(daemon.gates) |-> g[k]]
    BY <1>1, <2>2
  <2> QED
    BY <1>1, <2>1, <2>3, FunctionIsSeq
<1>6. CASE r.kind = "deleteGate" /\ at # {}
  <2>1. GatesAfter(r) = RemoveAt(daemon.gates, i)
    BY <1>2, <1>3, <1>6 DEF GatesAfter
  <2> QED
    BY <1>1, <1>4, <1>6, <2>1, RemoveAny
<1> QED
  BY <1>2, <1>5, <1>6 DEF GatesAfter

LEMMA GateEditedSound ==
  ASSUME FlightSound(flight), DaemonSound(daemon), NEW i \in DOMAIN flight, GateEdited(i)
  PROVE  FlightSound(flight') /\ DaemonSound(daemon')
<1>1. FlightSound(RemoveAt(flight, i))
  BY OneGone
<1>2. FlightSound(Append(RemoveAt(flight, i), policyView))
  <2>1. RequestSound(policyView)
    BY NewRequest DEF policyView
  <2> QED
    BY <1>1, <2>1, OneAppended
<1>3. PICK after : after = GatesAfter(flight[i])
  OBVIOUS
<1>4. CASE after = None
  BY <1>1, <1>3, <1>4 DEF GateEdited
<1>5. CASE after # None
  <2>1. IsSeq(after)
    BY <1>3, <1>5, GatesAfterIsSeq
  <2>2. /\ daemon' = [daemon EXCEPT !.gates = after]
        /\ flight' = Append(RemoveAt(flight, i), policyView)
    BY <1>3, <1>5 DEF GateEdited
  <2>3. DaemonSound(daemon')
    BY <2>1, <2>2 DEF DaemonSound
  <2> QED
    BY <1>2, <2>2, <2>3
<1> QED
  BY <1>4, <1>5

LEMMA GatesEditedElsewhere ==
  ASSUME DaemonSound(daemon)
  PROVE  /\ OthersEdit => DaemonSound(daemon')
         /\ \A fl : Install(fl) => DaemonSound(daemon')
         /\ LedgerGrows => DaemonSound(daemon')
<1>1. IsSeq(daemon.gates) /\ DOMAIN daemon.gates = 1 .. Len(daemon.gates) /\ Len(daemon.gates) \in Nat
  BY SeqDomain DEF DaemonSound
<1>2. IsSeq(SessionList)
  BY SeqIsSeq, DashboardAssumption DEF DashboardAssumption
<1>3. ASSUME NEW g, IsSeq(g)
      PROVE  DaemonSound([daemon EXCEPT !.gates = g])
  BY <1>3 DEF DaemonSound
<1>4. \A j, x : IsSeq([daemon.gates EXCEPT ![j] = x])
  <2> TAKE j, x
  <2>1. PICK g : g = [daemon.gates EXCEPT ![j] = x]
    OBVIOUS
  <2>2. g = [k \in 1 .. Len(daemon.gates) |-> g[k]]
    BY <1>1, <2>1
  <2> QED
    BY <1>1, <2>1, <2>2, FunctionIsSeq
<1>5. ASSUME OthersEdit PROVE DaemonSound(daemon')
  <2>1. CASE \E i \in DOMAIN daemon.gates : daemon' = [daemon EXCEPT !.gates = RemoveAt(@, i)]
    <3>1. PICK i \in DOMAIN daemon.gates : daemon' = [daemon EXCEPT !.gates = RemoveAt(daemon.gates, i)]
      BY <2>1
    <3>2. IsSeq(RemoveAt(daemon.gates, i))
      BY <1>1, RemoveAny
    <3> QED
      BY <1>3, <3>1, <3>2
  <2>2. CASE \E i \in DOMAIN daemon.gates : daemon' = [daemon EXCEPT !.gates[i].disabled = ~@]
    <3>1. PICK i \in DOMAIN daemon.gates : daemon' = [daemon EXCEPT !.gates[i].disabled = ~@]
      BY <2>2
    <3>2. PICK x : x = [daemon.gates[i] EXCEPT !.disabled = ~@]
      OBVIOUS
    <3>3. daemon' = [daemon EXCEPT !.gates = [daemon.gates EXCEPT ![i] = x]]
      BY <3>1, <3>2
    <3> QED
      BY <1>3, <1>4, <3>3
  <2>3. CASE daemon' = [daemon EXCEPT !.mode = IF @ = "firewall" THEN "monitor" ELSE "firewall"]
    BY <2>3 DEF DaemonSound
  <2>4. CASE \E s \in SUBSET Enforceable : daemon' = [daemon EXCEPT !.enabled = s]
    BY <2>4 DEF DaemonSound
  <2>5. CASE daemon' = [daemon EXCEPT !.sessions = SessionList]
    BY <1>2, <2>5 DEF DaemonSound
  <2> QED
    BY <1>5, <2>1, <2>2, <2>3, <2>4, <2>5 DEF OthersEdit
<1>6. ASSUME NEW fl, Install(fl) PROVE DaemonSound(daemon')
  <2>1. PICK at : at = GateIndex(fl.gate.id)
    OBVIOUS
  <2>2. \/ daemon' = daemon
        \/ daemon' = [daemon EXCEPT !.gates = Append(daemon.gates, fl.gate)]
        \/ daemon' = [daemon EXCEPT !.gates =
                        [daemon.gates EXCEPT ![CHOOSE i \in at : TRUE] = fl.gate]]
    BY <1>6, <2>1 DEF Install
  <2>3. IsSeq(Append(daemon.gates, fl.gate))
    BY <1>1, AppendAny
  <2> QED
    BY <1>3, <1>4, <2>2, <2>3
<1>7. ASSUME LedgerGrows PROVE DaemonSound(daemon')
  BY <1>7 DEF LedgerGrows, DaemonSound
<1> QED
  BY <1>5, <1>6, <1>7

LEMMA ReadSound ==
  ASSUME SeenSound(seen), readSSE
  PROVE  SeenSound(seen')
<1>1. Buffer \in Nat
  BY DashboardAssumption DEF DashboardAssumption
<1>2. PICK all : all = <<daemon.ledger[tail.next]>> \o seen.events
  OBVIOUS
<1>3. IsSeq(all)
  <2>1. PICK one : one = <<daemon.ledger[tail.next]>>
    OBVIOUS
  <2>2. one \in Seq({daemon.ledger[tail.next]})
    BY <2>1
  <2>3. IsSeq(one) /\ IsSeq(seen.events)
    BY <2>2, SeqIsSeq DEF SeenSound
  <2>4. IsSeq(one \o seen.events)
    BY <2>3, ConcatAny
  <2> QED
    BY <1>2, <2>1, <2>4
<1>4. PICK n : n = IF Len(all) < Buffer THEN Len(all) ELSE Buffer
  OBVIOUS
<1>5. IsSeq(SubSeq(all, 1, n))
  <2>1. Len(all) \in Nat
    BY <1>3 DEF IsSeq
  <2>2. 1 \in 1 .. Len(all) + 1 /\ n \in 1 - 1 .. Len(all)
    BY <1>1, <1>4, <2>1
  <2> QED
    BY <1>3, <2>2, SubSeqAny
<1>6. seen' = [seen EXCEPT !.events = SubSeq(all, 1, n)]
  BY <1>2, <1>4 DEF readSSE
<1> QED
  BY <1>5, <1>6 DEF SeenSound

-----------------------------------------------------------------------------
LEMMA InitialGatesIsSeq == IsSeq(InitialGates)
<1>1. PICK S : S = {InitialGate(g) : g \in GateId}
  OBVIOUS
<1>2. PICK f : f = [g \in GateId |-> InitialGate(g)]
  OBVIOUS
<1>3. f \in Surjection(GateId, S)
  BY <1>1, <1>2 DEF Surjection
<1>4. IsFiniteSet(S)
  <2>1. IsFiniteSet(GateId)
    BY DashboardAssumption DEF DashboardAssumption
  <2> QED
    BY <2>1, <1>3, FS_Surjection
<1>5. PICK n \in Nat : n = Cardinality(S) /\ ExistsBijection(1 .. n, S)
  BY <1>4, FS_CardinalityType
<1>6. \E b \in [1 .. n -> S] : IsInjective(b)
  BY <1>5 DEF ExistsBijection, Bijection, Injection
<1>7. PICK s : s = SetToSeq(S)
  OBVIOUS
<1>8. s \in [1 .. n -> S]
  BY <1>5, <1>6, <1>7 DEF SetToSeq
<1>9. s = [i \in 1 .. n |-> s[i]]
  BY <1>8
<1>10. IsSeq(s)
  BY <1>5, <1>9, FunctionIsSeq
<1> QED
  BY <1>1, <1>7, <1>10 DEF InitialGates

LEMMA tuStart == Init => tuInv
<1> SUFFICES ASSUME Init PROVE tuInv
  OBVIOUS
<1>1. IsSeq(<<>>) /\ IsSeq(InitialGates)
  BY EmptyIsSeq, InitialGatesIsSeq
<1>2. IsSeq(Catalog)
  BY SeqIsSeq, DashboardAssumption DEF DashboardAssumption
<1>3. DaemonSound(daemon)
  <2>1. PICK g : IsSeq(g) /\ daemon = [gates |-> g, mode |-> "firewall", enabled |-> {},
                                       sessions |-> <<>>, ledger |-> <<>>]
    BY <1>1 DEF Init
  <2> QED
    BY <1>1, <2>1 DEF DaemonSound
<1>4. SeenSound(seen)
  <2>1. PICK c : IsSeq(c) /\ seen = [policy |-> <<>>, mode |-> None, enabled |-> {},
                   sessions |-> <<>>, insights |-> None, events |-> <<>>, catalog |-> c]
    BY <1>1, <1>2 DEF Init
  <2> QED
    BY <1>1, <2>1 DEF SeenSound
<1>5. WindowKept(ui)
  <2>1. focus \in TabName
    BY TabsAre, DashboardAssumption DEF Init, DashboardAssumption
  <2>2. Rows \in Nat \ {0}
    BY DashboardAssumption DEF DashboardAssumption
  <2>3. PICK filters, text :
          ui = [tab |-> focus, cursor |-> [t \in TabName |-> 0], scroll |-> [t \in TabName |-> 0],
                filters |-> filters, field |-> None, text |-> text, detail |-> None,
                gateDetail |-> None, showInternal |-> FALSE, pending |-> None,
                editorActive |-> FALSE, window |-> "24h"]
    BY Zenon DEF Init
  <2>4. /\ DOMAIN ui = UiField /\ ui.tab = focus
        /\ ui.cursor = [t \in TabName |-> 0] /\ ui.scroll = [t \in TabName |-> 0]
    BY <2>3 DEF UiField
  <2> QED
    BY <2>1, <2>2, <2>4 DEF WindowKept
<1>6. FlightSound(flight)
  <2>1. flight = <<>> /\ Len(<<>>) = 0
    BY DEF Init
  <2> QED
    BY <2>1, <1>1 DEF FlightSound
<1> QED
  BY <1>3, <1>4, <1>5, <1>6 DEF tuInv

LEMMA tuStep ==
  ASSUME tuInv, Next
  PROVE  tuInv'
<1>1. /\ WindowKept(ui) /\ SeenSound(seen) /\ DaemonSound(daemon) /\ FlightSound(flight)
  BY DEF tuInv
<1>2. CASE Keys
  <2>1. CloseKey \/ FilterDoneKey \/ cycleEventFilter \/ ClearFieldKey \/ TypeKey \/ TabKey
           \/ moveCursor \/ EventsKey \/ SessionsKey \/ GateDetailKey
        => tuInv'
    <3> SUFFICES ASSUME CloseKey \/ FilterDoneKey \/ cycleEventFilter \/ ClearFieldKey \/ TypeKey \/ TabKey
                        \/ moveCursor \/ EventsKey \/ SessionsKey \/ GateDetailKey
                 PROVE  tuInv'
      OBVIOUS
    <3>1. WindowKept(ui')
      BY KeysKeepWindow, MoveKeepsWindow
    <3>2. UNCHANGED <<seen, daemon, flight>>
      BY Zenon DEF CloseKey, FilterDoneKey, cycleEventFilter, ClearFieldKey, TypeKey, TabKey,
                   moveCursor, EventsKey, SessionsKey, GateDetailKey, KeysOnly
    <3> QED
      BY <1>1, <3>1, <3>2 DEF tuInv
  <2>2. CASE ReportKey
    <3>1. UNCHANGED <<ui, seen, daemon, flight>>
      BY <2>2 DEF ReportKey
    <3> QED
      BY <1>1, <3>1 DEF tuInv
  <2>3. CASE RefreshKey \/ ModeKey \/ PatchKey
    <3>1. FlightSound(flight')
      BY <1>1, <2>3, KeysKeepFlight
    <3>2. UNCHANGED <<ui, seen, daemon>>
      BY <2>3 DEF RefreshKey, ModeKey, PatchKey
    <3> QED
      BY <1>1, <3>1, <3>2 DEF tuInv
  <2>4. CASE WindowKey \/ DeleteKey
    <3>1. FlightSound(flight')
      BY <1>1, <2>4, KeysKeepFlight
    <3>2. WindowKept(ui')
      BY <2>4, KeysKeepWindow, RestKeepsWindow
    <3>3. UNCHANGED <<seen, daemon>>
      BY <2>4 DEF WindowKey, DeleteKey
    <3> QED
      BY <1>1, <3>1, <3>2, <3>3 DEF tuInv
  <2>5. CASE toggleGuardrail
    <3>1. FlightSound(flight')
      BY <1>1, <2>5, KeysKeepFlight
    <3>2. SeenSound(seen')
      BY <1>1, <2>5 DEF toggleGuardrail, SeenSound
    <3>3. UNCHANGED <<ui, daemon>>
      BY <2>5 DEF toggleGuardrail
    <3> QED
      BY <1>1, <3>1, <3>2, <3>3 DEF tuInv
  <2>6. CASE EditKey
    <3>1. WindowKept(ui')
      BY <2>6, RestKeepsWindow
    <3>2. UNCHANGED <<seen, daemon, flight>>
      BY <2>6, Zenon DEF EditKey
    <3> QED
      BY <1>1, <3>1, <3>2 DEF tuInv
  <2> QED
    BY <1>2, <2>1, <2>2, <2>3, <2>4, <2>5, <2>6, Zenon DEF Keys
<1>3. CASE Network
  <2>1. PICK i \in DOMAIN flight : Handle(i) \/ Receive(i) \/ GateEdited(i)
    BY <1>3 DEF Network
  <2>2. CASE Handle(i)
    <3>1. UNCHANGED <<seen, ui>>
      BY <2>2 DEF Handle
    <3> QED
      BY <1>1, <2>2, <3>1, HandleSound DEF tuInv
  <2>3. CASE Receive(i)
    <3>1. UNCHANGED <<daemon, ui>>
      BY <2>3 DEF Receive
    <3> QED
      BY <1>1, <2>3, <3>1, ReceiveSound DEF tuInv
  <2>4. CASE GateEdited(i)
    <3>1. UNCHANGED seen
      BY <2>4 DEF GateEdited
    <3>2. WindowKept(ui')
      BY <2>4, RestKeepsWindow
    <3> QED
      BY <1>1, <2>4, <3>1, <3>2, GateEditedSound DEF tuInv
  <2> QED
    BY <2>1, <2>2, <2>3, <2>4
<1>4. CASE Flows
  <2>1. PICK fl \in flows : CaseArrives(fl) \/ runEditor(fl) \/ Install(fl) \/ Repair(fl)
    BY <1>4 DEF Flows
  <2>2. CASE CaseArrives(fl) \/ runEditor(fl)
    <3>1. WindowKept(ui')
      BY <2>2, RestKeepsWindow
    <3>2. UNCHANGED <<seen, daemon, flight>>
      BY <2>2 DEF CaseArrives, runEditor
    <3> QED
      BY <1>1, <3>1, <3>2 DEF tuInv
  <2>3. CASE Install(fl)
    <3>1. UNCHANGED <<seen, ui>>
      BY <2>3 DEF Install
    <3> QED
      BY <1>1, <2>3, <3>1, KeysKeepFlight, GatesEditedElsewhere DEF tuInv
  <2>4. CASE Repair(fl)
    <3>1. UNCHANGED <<ui, seen, daemon, flight>>
      BY <2>4 DEF Repair
    <3> QED
      BY <1>1, <3>1 DEF tuInv
  <2> QED
    BY <2>1, <2>2, <2>3, <2>4
<1>5. CASE Tick
  <2>1. UNCHANGED <<ui, seen, daemon>>
    BY <1>5 DEF Tick
  <2> QED
    BY <1>1, <1>5, <2>1, KeysKeepFlight DEF tuInv
<1>6. CASE Expire
  <2>1. UNCHANGED <<seen, daemon, flight>>
    BY <1>6 DEF Expire, KeysOnly
  <2> QED
    BY <1>1, <1>6, <2>1, RestKeepsWindow DEF tuInv
<1>7. CASE \E i \in DOMAIN flight : Fails(i)
  <2>1. PICK i \in DOMAIN flight : Fails(i)
    BY <1>7
  <2>2. UNCHANGED <<ui, daemon>>
    BY <2>1 DEF Fails
  <2> QED
    BY <1>1, <2>1, <2>2, FailsSound DEF tuInv
<1>8. CASE Connect \/ Disconnect
  <2>1. UNCHANGED <<ui, seen, daemon, flight>>
    BY <1>8 DEF Connect, Disconnect
  <2> QED
    BY <1>1, <2>1 DEF tuInv
<1>9. CASE readSSE
  <2>1. UNCHANGED <<ui, daemon, flight>>
    BY <1>9 DEF readSSE
  <2> QED
    BY <1>1, <1>9, <2>1, ReadSound DEF tuInv
<1>10. CASE OthersEdit \/ LedgerGrows
  <2>1. UNCHANGED <<ui, seen, flight>>
    BY <1>10 DEF OthersEdit, LedgerGrows
  <2> QED
    BY <1>1, <1>10, <2>1, GatesEditedElsewhere DEF tuInv
<1> QED
  BY <1>2, <1>3, <1>4, <1>5, <1>6, <1>7, <1>8, <1>9, <1>10 DEF Next

\* The row that the next key acts on is drawn and marked, if there is one.
LEMMA tuMarked ==
  ASSUME tuInv
  PROVE  CursorOnScreen
<1>1. ASSUME NEW t \in TabName, ui.cursor[t] < Len(Listed(t))
      PROVE  ui.cursor[t] + 1 \in Drawn(t) /\ Marked(t, ui.cursor[t] + 1)
  <2>1. IsSeq(Listed(t))
    BY ListsAreSeqs DEF tuInv
  <2>2. DOMAIN Listed(t) = 1 .. Len(Listed(t)) /\ Len(Listed(t)) \in Nat
    BY <2>1, SeqDomain
  <2>3. /\ ui.cursor[t] \in Nat /\ ui.scroll[t] \in Nat
        /\ ui.scroll[t] <= ui.cursor[t] /\ ui.cursor[t] < ui.scroll[t] + Rows
    BY DEF tuInv, WindowKept
  <2>4. Rows \in Nat
    BY DashboardAssumption DEF DashboardAssumption
  <2> QED
    BY <1>1, <2>2, <2>3, <2>4 DEF Drawn, Marked
<1>2. \A t \in {"events", "sessions", "guardrails", "gates"} : t \in TabName
  BY TabsAre
<1>3. MarkIsDrawn("events", EventsPane)
  <2> SUFFICES ASSUME ui.cursor["events"] < Len(Listed("events"))
               PROVE  \E r \in EventsPane :
                        r.marked /\ r.row = Listed("events")[ui.cursor["events"] + 1].seq
    BY DEF MarkIsDrawn
  <2>1. PICK i \in Drawn("events") : i = ui.cursor["events"] + 1 /\ Marked("events", i)
    BY <1>1, <1>2
  <2>2. Listed("events") = filteredEvents
    BY DEF Listed
  <2>3. PICK r : r = [at |-> i, row |-> filteredEvents[i].seq, marked |-> Marked("events", i)]
    OBVIOUS
  <2>4. r.marked = Marked("events", i) /\ r.row = filteredEvents[i].seq
    BY <2>3
  <2>5. r \in EventsPane
    BY <2>1, <2>3 DEF EventsPane
  <2> QED
    BY <2>1, <2>2, <2>4, <2>5
<1>4. MarkIsDrawn("sessions", SessionsPane)
  <2> SUFFICES ASSUME ui.cursor["sessions"] < Len(Listed("sessions"))
               PROVE  \E r \in SessionsPane :
                        r.marked /\ r.row = Listed("sessions")[ui.cursor["sessions"] + 1]
    BY DEF MarkIsDrawn
  <2>1. PICK i \in Drawn("sessions") : i = ui.cursor["sessions"] + 1 /\ Marked("sessions", i)
    BY <1>1, <1>2
  <2>3. PICK r : r = [at |-> i, row |-> Listed("sessions")[i], marked |-> Marked("sessions", i)]
    OBVIOUS
  <2>4. r.marked = Marked("sessions", i) /\ r.row = Listed("sessions")[i]
    BY <2>3
  <2>5. r \in SessionsPane
    BY <2>1, <2>3 DEF SessionsPane
  <2> QED
    BY <2>1, <2>4, <2>5
<1>5. MarkIsDrawn("guardrails", GuardrailsPane)
  <2> SUFFICES ASSUME ui.cursor["guardrails"] < Len(Listed("guardrails"))
               PROVE  \E r \in GuardrailsPane :
                        r.marked /\ r.row = Listed("guardrails")[ui.cursor["guardrails"] + 1]
    BY DEF MarkIsDrawn
  <2>1. PICK i \in Drawn("guardrails") : i = ui.cursor["guardrails"] + 1 /\ Marked("guardrails", i)
    BY <1>1, <1>2
  <2>2. Listed("guardrails") = seen.catalog
    BY DEF Listed
  <2>3. PICK r : r = [at |-> i, row |-> seen.catalog[i], marked |-> Marked("guardrails", i),
                   active |-> seen.catalog[i] \in seen.enabled]
    OBVIOUS
  <2>4. r.marked = Marked("guardrails", i) /\ r.row = seen.catalog[i]
    BY <2>3
  <2>5. r \in GuardrailsPane
    BY <2>1, <2>3 DEF GuardrailsPane
  <2> QED
    BY <2>1, <2>2, <2>4, <2>5
<1>6. MarkIsDrawn("gates", GatesPane)
  <2> SUFFICES ASSUME ui.cursor["gates"] < Len(Listed("gates"))
               PROVE  \E r \in GatesPane :
                        r.marked /\ r.row = Listed("gates")[ui.cursor["gates"] + 1]
    BY DEF MarkIsDrawn
  <2>1. PICK i \in Drawn("gates") : i = ui.cursor["gates"] + 1 /\ Marked("gates", i)
    BY <1>1, <1>2
  <2>2. Listed("gates") = seen.policy
    BY DEF Listed
  <2>3. PICK r : r = [at |-> i, row |-> seen.policy[i], marked |-> Marked("gates", i),
                   armed |-> ui.pending = seen.policy[i].id]
    OBVIOUS
  <2>4. r.marked = Marked("gates", i) /\ r.row = seen.policy[i]
    BY <2>3
  <2>5. r \in GatesPane
    BY <2>1, <2>3 DEF GatesPane
  <2> QED
    BY <2>1, <2>2, <2>4, <2>5
<1> QED
  BY <1>3, <1>4, <1>5, <1>6, Zenon DEF CursorOnScreen

\* Whatever is pressed and however lists change in between, no key of the
\* terminal dashboard acts on a row that is not drawn and marked (moveCursor,
\* the resets of the filters, the polls and the stream).
THEOREM CursorAlwaysOnScreen == Spec => []CursorOnScreen
<1>1. tuInv /\ [Next]_vars => tuInv'
  <2> SUFFICES ASSUME tuInv, [Next]_vars PROVE tuInv'
    OBVIOUS
  <2>1. CASE Next
    BY <2>1, tuStep
  <2>2. CASE UNCHANGED vars
    BY <2>2 DEF vars, tuInv
  <2> QED
    BY <2>1, <2>2
<1>2. tuInv => CursorOnScreen
  BY tuMarked
<1>3. QED
  BY tuStart, <1>1, <1>2, PTL DEF Spec

-----------------------------------------------------------------------------
(* WEB DASHBOARD, for any ledger, rules and guardrails, any number of events   *)
(* kept and of requests on their way.                                          *)

WebUiField == {"status", "filters", "page", "pageSize", "selected", "gate", "form", "touched",
               "type", "value", "patterns", "saves", "refused"}

\* The form holds what the list shows, except for the fields that were touched.
FormShown(u, gates) ==
  u.selected # {} /\ gates[u.gate].there =>
    \A f \in Fields \ u.touched : u.form[f] = gates[u.gate][f]

\* Only the fields of the type that is chosen have patterns.
PatternsShown(u) == \A p \in Pattern : u.patterns[p] # <<>> => p \in PRESETS[u.type]

UiSound(u, gates) ==
  /\ DOMAIN u = WebUiField
  /\ u.page \in Nat /\ u.pageSize \in {1, 2}
  /\ FormShown(u, gates) /\ PatternsShown(u)

\* The saves on their way, in the order they were made: those before an answered
\* one are answered.
Handled(r) == r.answer # <<>>
SaveSound(r) ==
  /\ DOMAIN r = {"kind", "answer", "next", "prev", "id"} /\ r.kind = "save" /\ r.id \in Nat
  /\ Handled(r) => r.answer[1] = r.next
SavesInOrder(f, saves) ==
  /\ IsSeq(f) /\ saves \in Nat
  /\ \A i \in 1 .. Len(f) : SaveSound(f[i]) /\ f[i].id <= saves
  /\ \A i, j \in 1 .. Len(f) : i < j => f[i].id < f[j].id /\ (Handled(f[j]) => Handled(f[i]))

\* What is shown is what the last save asks for, or what is enforced when all
\* are handled; what a save would be rolled back to is what it was made on.
Asked(f, i, enforced) == IF i > 0 /\ ~Handled(f[i]) THEN f[i].next ELSE enforced
SwitchesHold(f, shown, enforced, saves, refused) ==
  /\ SavesInOrder(f, saves)
  /\ shown = Asked(f, Len(f), enforced)
  /\ \A i \in 1 .. Len(f) : Handled(f[i]) /\ f[i].id = saves => enforced = f[i].next
  /\ refused = 0 =>
       /\ \A i \in 1 .. Len(f) : ~Handled(f[i]) => f[i].prev = Asked(f, i - 1, enforced)
       /\ Len(f) > 0 /\ ~Handled(f[Len(f)]) => f[Len(f)].id = saves

wbInv ==
  /\ DOMAIN wbSeen = {"entries", "gates", "mode", "enabled"}
  /\ DOMAIN wbDaemon = {"gates", "mode", "enabled", "sent"}
  /\ IsSeq(wbSeen.entries)
  /\ UiSound(wbUi, wbSeen.gates)
  /\ wbTab = "guardrails" =>
       SwitchesHold(wbFlight, wbSeen.enabled, wbDaemon.enabled, wbUi.saves, wbUi.refused)

-----------------------------------------------------------------------------
(* The switches. *)

LEMMA SwitchToggled ==
  ASSUME NEW f, NEW shown, NEW enforced, NEW saves, NEW refused,
         SwitchesHold(f, shown, enforced, saves, refused), NEW next, NEW r,
         r = [kind |-> "save", answer |-> <<>>, next |-> next, prev |-> shown, id |-> saves + 1]
  PROVE  SwitchesHold(Append(f, r), next, enforced, saves + 1, refused)
<1>1. IsSeq(f) /\ Len(f) \in Nat /\ saves \in Nat
  BY SeqDomain DEF SwitchesHold, SavesInOrder
<1>2. PICK g : g = Append(f, r)
  OBVIOUS
<1>3. /\ IsSeq(g) /\ Len(g) = Len(f) + 1 /\ g[Len(f) + 1] = r
      /\ \A i \in 1 .. Len(f) : g[i] = f[i]
  BY <1>1, <1>2, AppendAny
<1>4. SaveSound(r) /\ ~Handled(r) /\ r.id = saves + 1 /\ r.prev = shown /\ r.next = next
  BY <1>1 DEF SaveSound, Handled
<1>5. SavesInOrder(g, saves + 1)
  <2>1. \A i \in 1 .. Len(f) : /\ SaveSound(f[i]) /\ f[i].id <= saves
                              /\ f[i].id \in Nat
    BY DEF SwitchesHold, SavesInOrder, SaveSound
  <2>2. \A i \in 1 .. Len(g) : SaveSound(g[i]) /\ g[i].id <= saves + 1
    BY <1>1, <1>3, <1>4, <2>1
  <2>3. ASSUME NEW i \in 1 .. Len(g), NEW j \in 1 .. Len(g), i < j
        PROVE  g[i].id < g[j].id /\ (Handled(g[j]) => Handled(g[i]))
    <3>1. i \in 1 .. Len(f) /\ g[i] = f[i]
      BY <1>1, <1>3, <2>3
    <3>2. CASE j = Len(f) + 1
      BY <1>1, <1>3, <1>4, <2>1, <3>1, <3>2
    <3>3. CASE j # Len(f) + 1
      <4>1. j \in 1 .. Len(f) /\ g[j] = f[j]
        BY <1>1, <1>3, <3>3
      <4> QED
        BY <2>3, <3>1, <4>1 DEF SwitchesHold, SavesInOrder
    <3> QED
      BY <3>2, <3>3
  <2>4. saves + 1 \in Nat
    BY <1>1
  <2> QED
    BY <1>3, <2>2, <2>3, <2>4 DEF SavesInOrder
<1>6. next = Asked(g, Len(g), enforced)
  BY <1>1, <1>3, <1>4 DEF Asked
<1>7. \A i \in 1 .. Len(g) : ~(Handled(g[i]) /\ g[i].id = saves + 1)
  BY <1>1, <1>3, <1>4 DEF SwitchesHold, SavesInOrder
<1>8. ASSUME refused = 0
      PROVE  \A i \in 1 .. Len(g) : ~Handled(g[i]) => g[i].prev = Asked(g, i - 1, enforced)
  <2> SUFFICES ASSUME NEW i \in 1 .. Len(g), ~Handled(g[i])
               PROVE  g[i].prev = Asked(g, i - 1, enforced)
    OBVIOUS
  <2>1. Asked(g, i - 1, enforced) = Asked(f, i - 1, enforced)
    BY <1>1, <1>3 DEF Asked
  <2> QED
    BY <2>1, <1>1, <1>3, <1>4, <1>8 DEF SwitchesHold
<1>9. SwitchesHold(g, next, enforced, saves + 1, refused)
  BY <1>1, <1>3, <1>4, <1>5, <1>6, <1>7, <1>8 DEF SwitchesHold
<1> QED
  BY <1>2, <1>9

LEMMA SwitchHandled ==
  ASSUME NEW f, NEW shown, NEW enforced, NEW saves, NEW refused,
         SwitchesHold(f, shown, enforced, saves, refused), NEW i \in 1 .. Len(f),
         ~Handled(f[i]), \A k \in 1 .. i - 1 : Handled(f[k])
  PROVE  SwitchesHold([f EXCEPT ![i].answer = <<f[i].next>>], shown, f[i].next, saves, refused)
<1>1. IsSeq(f) /\ DOMAIN f = 1 .. Len(f) /\ Len(f) \in Nat /\ saves \in Nat
  BY SeqDomain DEF SwitchesHold, SavesInOrder
<1>2. PICK r : r = [f[i] EXCEPT !.answer = <<f[i].next>>]
  OBVIOUS
<1>3. PICK g : g = [f EXCEPT ![i] = r]
  OBVIOUS
<1>4. /\ g = [k \in 1 .. Len(f) |-> g[k]] /\ g[i] = r
      /\ \A k \in 1 .. Len(f) : k # i => g[k] = f[k]
  BY <1>1, <1>3
<1>5. IsSeq(g) /\ Len(g) = Len(f)
  BY <1>1, <1>4, SeqOfFunction
<1>6. SaveSound(f[i]) /\ f[i].id <= saves
  BY DEF SwitchesHold, SavesInOrder
<1>7. /\ SaveSound(r) /\ Handled(r) /\ r.id = f[i].id /\ r.prev = f[i].prev /\ r.next = f[i].next
  BY <1>2, <1>6 DEF SaveSound, Handled
<1>8. SavesInOrder(g, saves)
  <2>1. \A k \in 1 .. Len(g) : SaveSound(g[k]) /\ g[k].id <= saves
    BY <1>1, <1>4, <1>5, <1>6, <1>7 DEF SwitchesHold, SavesInOrder
  <2>2. ASSUME NEW j \in 1 .. Len(g), NEW k \in 1 .. Len(g), j < k
        PROVE  g[j].id < g[k].id /\ (Handled(g[k]) => Handled(g[j]))
    <3>1. f[j].id < f[k].id /\ (Handled(f[k]) => Handled(f[j]))
      BY <1>5, <2>2 DEF SwitchesHold, SavesInOrder
    <3> QED
      BY <3>1, <1>1, <1>4, <1>5, <1>7, <2>2
  <2> QED
    BY <1>1, <1>5, <2>1, <2>2 DEF SavesInOrder
<1>9. shown = Asked(g, Len(g), f[i].next)
  <2>1. CASE i = Len(f)
    BY <1>1, <1>4, <1>5, <1>7, <2>1 DEF SwitchesHold, Asked
  <2>2. CASE i # Len(f)
    <3>1. ~Handled(f[Len(f)]) /\ g[Len(f)] = f[Len(f)]
      BY <1>1, <1>4, <2>2 DEF SwitchesHold, SavesInOrder
    <3> QED
      BY <1>1, <1>5, <3>1 DEF SwitchesHold, Asked
  <2> QED
    BY <2>1, <2>2
<1>10. \A k \in 1 .. Len(g) : Handled(g[k]) /\ g[k].id = saves => f[i].next = g[k].next
  <2> SUFFICES ASSUME NEW k \in 1 .. Len(g), Handled(g[k]), g[k].id = saves
               PROVE  k = i
    BY <1>4, <1>7
  <2>1. k # i => Handled(f[k]) /\ f[k].id = saves
    BY <1>4, <1>5
  <2>2. k > i => ~Handled(f[k])
    BY <1>1, <1>5 DEF SwitchesHold, SavesInOrder
  <2>3. k < i => f[k].id < f[i].id
    BY <1>1, <1>5 DEF SwitchesHold, SavesInOrder
  <2>4. f[k].id \in Nat /\ f[i].id \in Nat
    BY <1>5 DEF SwitchesHold, SavesInOrder, SaveSound
  <2> QED
    BY <1>1, <1>5, <1>6, <2>1, <2>2, <2>3, <2>4
<1>11. ASSUME refused = 0
       PROVE  /\ \A k \in 1 .. Len(g) : ~Handled(g[k]) => g[k].prev = Asked(g, k - 1, f[i].next)
              /\ Len(g) > 0 /\ ~Handled(g[Len(g)]) => g[Len(g)].id = saves
  <2>1. ASSUME NEW k \in 1 .. Len(g), ~Handled(g[k])
        PROVE  g[k].prev = Asked(g, k - 1, f[i].next)
    <3>1. k > i /\ g[k] = f[k]
      BY <1>1, <1>4, <1>5, <1>7, <2>1
    <3>2. f[k].prev = Asked(f, k - 1, enforced)
      BY <1>5, <1>11, <2>1, <3>1 DEF SwitchesHold
    <3>3. k - 1 \in 1 .. Len(f) /\ ~Handled(f[k - 1])
      BY <1>1, <1>5, <3>1 DEF SwitchesHold, SavesInOrder
    <3>4. f[k].prev = f[k - 1].next
      BY <3>2, <3>3 DEF Asked
    <3>5. CASE k - 1 = i
      BY <1>4, <1>7, <3>1, <3>4, <3>5 DEF Asked
    <3>6. CASE k - 1 # i
      BY <1>4, <3>1, <3>3, <3>4, <3>6 DEF Asked
    <3> QED
      BY <3>5, <3>6
  <2>2. Len(g) > 0 /\ ~Handled(g[Len(g)]) => g[Len(g)].id = saves
    BY <1>1, <1>4, <1>5, <1>7, <1>11 DEF SwitchesHold
  <2> QED
    BY <2>1, <2>2
<1>12. SwitchesHold(g, shown, f[i].next, saves, refused)
  BY <1>8, <1>9, <1>10, <1>11 DEF SwitchesHold
<1>13. g = [f EXCEPT ![i].answer = <<f[i].next>>]
  BY <1>2, <1>3
<1> QED
  BY <1>12, <1>13

\* What is left of the saves when one is answered or refused.
LEMMA SaveGone ==
  ASSUME NEW f, NEW saves, SavesInOrder(f, saves), NEW i \in 1 .. Len(f), NEW g,
         IsSeq(g), Len(g) = Len(f) - 1,
         \A k \in 1 .. Len(f) - 1 : g[k] = IF k < i THEN f[k] ELSE f[k + 1]
  PROVE  SavesInOrder(g, saves)
<1>1. Len(f) \in Nat /\ saves \in Nat /\ i \in Nat
  BY SeqDomain DEF SavesInOrder
<1>2. \A k \in 1 .. Len(g) : SaveSound(g[k]) /\ g[k].id <= saves
  BY <1>1 DEF SavesInOrder
<1>3. ASSUME NEW j \in 1 .. Len(g), NEW k \in 1 .. Len(g), j < k
      PROVE  g[j].id < g[k].id /\ (Handled(g[k]) => Handled(g[j]))
  <2>1. PICK a \in 1 .. Len(f) : a = IF j < i THEN j ELSE j + 1
    BY <1>1
  <2>2. PICK b \in 1 .. Len(f) : b = IF k < i THEN k ELSE k + 1
    BY <1>1
  <2>3. a < b /\ g[j] = f[a] /\ g[k] = f[b]
    BY <1>1, <1>3, <2>1, <2>2
  <2> QED
    BY <2>3 DEF SavesInOrder
<1> QED
  BY <1>1, <1>2, <1>3 DEF SavesInOrder

LEMMA SwitchAnswered ==
  ASSUME NEW f, NEW shown, NEW enforced, NEW saves, NEW refused,
         SwitchesHold(f, shown, enforced, saves, refused), NEW i \in 1 .. Len(f), Handled(f[i])
  PROVE  SwitchesHold(RemoveAt(f, i), IF f[i].id = saves THEN f[i].answer[1] ELSE shown,
                      enforced, saves, refused)
<1>1. IsSeq(f) /\ Len(f) \in Nat /\ saves \in Nat /\ SavesInOrder(f, saves)
  BY SeqDomain DEF SwitchesHold, SavesInOrder
<1>2. PICK g : g = RemoveAt(f, i)
  OBVIOUS
<1>3. /\ IsSeq(g) /\ Len(g) = Len(f) - 1
      /\ \A k \in 1 .. Len(f) - 1 : g[k] = IF k < i THEN f[k] ELSE f[k + 1]
  BY <1>1, <1>2, RemoveAny
<1>4. SavesInOrder(g, saves)
  BY <1>1, <1>3, SaveGone
<1>5. \A k \in 1 .. Len(f) : k < i => Handled(f[k])
  BY <1>1 DEF SavesInOrder
<1>6. Asked(g, Len(g), enforced) = Asked(f, Len(f), enforced)
  <2>1. CASE i = Len(f)
    <3>1. Asked(f, Len(f), enforced) = enforced
      BY <2>1 DEF Asked
    <3>2. Len(g) > 0 => Handled(g[Len(g)])
      BY <1>1, <1>3, <1>5, <2>1
    <3> QED
      BY <3>1, <3>2 DEF Asked
  <2>2. CASE i # Len(f)
    <3>1. Len(g) > 0 /\ Len(f) > 0 /\ g[Len(g)] = f[Len(f)]
      BY <1>1, <1>3, <2>2
    <3> QED
      BY <3>1 DEF Asked
  <2> QED
    BY <2>1, <2>2
<1>7. PICK now : now = IF f[i].id = saves THEN f[i].answer[1] ELSE shown
  OBVIOUS
<1>8. now = Asked(g, Len(g), enforced)
  <2>1. CASE f[i].id # saves
    BY <1>6, <1>7, <2>1 DEF SwitchesHold
  <2>2. CASE f[i].id = saves
    <3>1. now = f[i].next /\ enforced = f[i].next
      BY <1>1, <1>7, <2>2 DEF SwitchesHold, SavesInOrder, SaveSound
    <3>2. i = Len(f)
      <4> SUFFICES ASSUME i # Len(f) PROVE FALSE
        OBVIOUS
      <4>1. i < Len(f) /\ Len(f) \in 1 .. Len(f)
        BY <1>1
      <4>2. f[i].id < f[Len(f)].id /\ f[Len(f)].id <= saves /\ f[Len(f)].id \in Nat
        BY <1>1, <4>1 DEF SavesInOrder, SaveSound
      <4> QED
        BY <1>1, <2>2, <4>2
    <3>3. Asked(f, Len(f), enforced) = enforced
      BY <3>2 DEF Asked
    <3> QED
      BY <1>6, <3>1, <3>3
  <2> QED
    BY <2>1, <2>2
<1>9. \A k \in 1 .. Len(g) : Handled(g[k]) /\ g[k].id = saves => enforced = g[k].next
  BY <1>1, <1>3 DEF SwitchesHold
<1>10. ASSUME refused = 0
       PROVE  /\ \A k \in 1 .. Len(g) : ~Handled(g[k]) => g[k].prev = Asked(g, k - 1, enforced)
              /\ Len(g) > 0 /\ ~Handled(g[Len(g)]) => g[Len(g)].id = saves
  <2>1. ASSUME NEW k \in 1 .. Len(g), ~Handled(g[k])
        PROVE  g[k].prev = Asked(g, k - 1, enforced)
    <3>1. k >= i /\ g[k] = f[k + 1] /\ k + 1 \in 1 .. Len(f)
      BY <1>1, <1>3, <1>5, <2>1
    <3>2. f[k + 1].prev = Asked(f, k, enforced)
      <4>1. f[k + 1].prev = Asked(f, (k + 1) - 1, enforced)
        BY <1>10, <2>1, <3>1 DEF SwitchesHold
      <4>2. (k + 1) - 1 = k
        BY <1>1
      <4> QED
        BY <4>1, <4>2
    <3>3. CASE k = i
      <4>1. Asked(f, k, enforced) = enforced
        BY <3>3 DEF Asked
      <4>2. k - 1 > 0 => Handled(g[k - 1])
        BY <1>1, <1>3, <1>5, <3>3
      <4> QED
        BY <3>1, <3>2, <4>1, <4>2 DEF Asked
    <3>4. CASE k # i
      <4>1. k - 1 > 0 /\ k > 0 /\ g[k - 1] = f[k]
        BY <1>1, <1>3, <3>1, <3>4
      <4> QED
        BY <3>1, <3>2, <4>1 DEF Asked
    <3> QED
      BY <3>3, <3>4
  <2>2. ASSUME Len(g) > 0, ~Handled(g[Len(g)])
        PROVE  g[Len(g)].id = saves
    <3>1. g[Len(g)] = f[Len(f)] /\ Len(f) > 0
      BY <1>1, <1>3, <1>5, <2>2
    <3> QED
      BY <1>10, <2>2, <3>1 DEF SwitchesHold
  <2> QED
    BY <2>1, <2>2
<1>11. SwitchesHold(g, now, enforced, saves, refused)
  BY <1>4, <1>8, <1>9, <1>10 DEF SwitchesHold
<1> QED
  BY <1>2, <1>7, <1>11

LEMMA SwitchRefused ==
  ASSUME NEW f, NEW shown, NEW enforced, NEW saves,
         SwitchesHold(f, shown, enforced, saves, 0), NEW i \in 1 .. Len(f), ~Handled(f[i])
  PROVE  SwitchesHold(RemoveAt(f, i), IF f[i].id = saves THEN f[i].prev ELSE shown,
                      enforced, saves, 1)
<1>1. IsSeq(f) /\ Len(f) \in Nat /\ saves \in Nat /\ SavesInOrder(f, saves)
  BY SeqDomain DEF SwitchesHold, SavesInOrder
<1>2. PICK g : g = RemoveAt(f, i)
  OBVIOUS
<1>3. /\ IsSeq(g) /\ Len(g) = Len(f) - 1
      /\ \A k \in 1 .. Len(f) - 1 : g[k] = IF k < i THEN f[k] ELSE f[k + 1]
  BY <1>1, <1>2, RemoveAny
<1>4. SavesInOrder(g, saves)
  BY <1>1, <1>3, SaveGone
<1>5. PICK now : now = IF f[i].id = saves THEN f[i].prev ELSE shown
  OBVIOUS
<1>6. Len(f) \in 1 .. Len(f) /\ ~Handled(f[Len(f)]) /\ f[Len(f)].id = saves
  BY <1>1 DEF SwitchesHold, SavesInOrder
<1>7. f[i].id = saves <=> i = Len(f)
  <2>1. i # Len(f) => f[i].id < f[Len(f)].id
    BY <1>1, <1>6 DEF SavesInOrder
  <2>2. f[i].id \in Nat
    BY <1>1 DEF SavesInOrder, SaveSound
  <2> QED
    BY <1>1, <1>6, <2>1, <2>2
<1>8. now = Asked(g, Len(g), enforced)
  <2>1. CASE i = Len(f)
    <3>1. now = Asked(f, i - 1, enforced)
      BY <1>5, <1>7, <2>1 DEF SwitchesHold
    <3>2. Len(g) = i - 1 /\ (i - 1 > 0 => g[i - 1] = f[i - 1])
      BY <1>1, <1>3, <2>1
    <3> QED
      BY <3>1, <3>2 DEF Asked
  <2>2. CASE i # Len(f)
    <3>1. Len(g) > 0 /\ Len(f) > 0 /\ g[Len(g)] = f[Len(f)]
      BY <1>1, <1>3, <2>2
    <3> QED
      BY <1>5, <1>7, <2>2, <3>1 DEF SwitchesHold, Asked
  <2> QED
    BY <2>1, <2>2
<1>9. \A k \in 1 .. Len(g) : Handled(g[k]) /\ g[k].id = saves => enforced = g[k].next
  BY <1>1, <1>3 DEF SwitchesHold
<1>10. SwitchesHold(g, now, enforced, saves, 1)
  BY <1>4, <1>8, <1>9 DEF SwitchesHold
<1> QED
  BY <1>2, <1>5, <1>10

-----------------------------------------------------------------------------
(* The list of events. *)

LEMMA RowsAreASeq ==
  ASSUME IsSeq(wbSeen.entries)
  PROVE  IsSeq(wbFiltered)
<1>1. \E S : wbFiltered = NewestFirstRows(Among(wbSeen.entries, S))
  BY Zenon DEF wbFiltered
<1>2. PICK s : IsSeq(s) /\ wbFiltered = NewestFirstRows(s)
  BY <1>1, AmongAny
<1>3. PICK r : r = NewestFirstRows(s)
  OBVIOUS
<1>4. r = [i \in 1 .. Len(s) |-> r[i]]
  BY <1>3 DEF NewestFirstRows
<1>5. Len(s) \in Nat
  BY <1>2 DEF IsSeq
<1> QED
  BY <1>2, <1>3, <1>4, <1>5, FunctionIsSeq

\* There is a page for every row and a row on every page.
LEMMA Pages ==
  ASSUME IsSeq(wbSeen.entries), wbUi.page \in Nat, wbUi.pageSize \in {1, 2}
  PROVE  /\ pageCount \in Nat \ {0} /\ safePage \in Nat
         /\ safePage <= wbUi.page
         /\ Len(wbFiltered) > 0 => safePage * wbUi.pageSize < Len(wbFiltered)
<1>1. PICK n \in Nat : n = Len(wbFiltered)
  BY RowsAreASeq DEF IsSeq
<1>2. PICK c : c = pageCount
  OBVIOUS
<1>3. c = IF n = 0 THEN 1 ELSE (n + wbUi.pageSize - 1) \div wbUi.pageSize
  BY <1>1, <1>2 DEF pageCount
<1>4. /\ wbUi.pageSize = 1 /\ n > 0 => c = n
      /\ wbUi.pageSize = 2 /\ n > 0 => c \in Nat /\ c > 0 /\ 2 * (c - 1) < n
  BY <1>1, <1>3
<1>5. c \in Nat \ {0}
  BY <1>1, <1>3, <1>4
<1>6. PICK p : p = safePage
  OBVIOUS
<1>7. p = IF wbUi.page < c - 1 THEN wbUi.page ELSE c - 1
  BY <1>2, <1>6 DEF safePage
<1>8. p \in Nat /\ p <= wbUi.page /\ p <= c - 1
  BY <1>5, <1>7
<1>9. n > 0 => p * wbUi.pageSize < n
  <2>1. CASE wbUi.pageSize = 1
    BY <1>1, <1>4, <1>5, <1>8, <2>1
  <2>2. CASE wbUi.pageSize = 2
    BY <1>1, <1>4, <1>5, <1>8, <2>2
  <2> QED
    BY <2>1, <2>2
<1> QED
  BY <1>1, <1>2, <1>5, <1>6, <1>8, <1>9

LEMMA PageIsNotEmpty ==
  ASSUME wbInv
  PROVE  PageShowsEvents
<1> SUFFICES ASSUME wbFiltered # <<>> PROVE paged # <<>>
  BY DEF PageShowsEvents
<1>1. IsSeq(wbSeen.entries) /\ wbUi.page \in Nat /\ wbUi.pageSize \in {1, 2}
  BY DEF wbInv, UiSound
<1>2. PICK s : s = wbFiltered /\ IsSeq(s)
  BY <1>1, RowsAreASeq
<1>3. PICK n \in Nat : n = Len(s)
  BY <1>2 DEF IsSeq
<1>4. n > 0
  <2> SUFFICES ASSUME n = 0 PROVE FALSE
    BY <1>3
  <2>1. s = [i \in 1 .. 0 |-> s[i]]
    BY <1>2, <1>3 DEF IsSeq
  <2>2. s = <<>>
    BY <2>1
  <2> QED
    BY <1>2, <2>2
<1>5. PICK a \in Nat : a = safePage * wbUi.pageSize /\ a < n
  BY <1>1, <1>2, <1>3, <1>4, Pages
<1>6. PICK b : b = (safePage + 1) * wbUi.pageSize /\ b \in Nat /\ b > a
  <2>1. safePage \in Nat
    BY <1>1, Pages
  <2>2. PICK p \in Nat : p = safePage
    BY <2>1
  <2>3. CASE wbUi.pageSize = 1
    BY <1>5, <2>2, <2>3
  <2>4. CASE wbUi.pageSize = 2
    BY <1>5, <2>2, <2>4
  <2> QED
    BY <1>1, <2>3, <2>4
<1>7. PICK m : m = IF b < n THEN b ELSE n
  OBVIOUS
<1>8. paged = SubSeq(s, a + 1, m)
  BY <1>2, <1>3, <1>5, <1>6, <1>7 DEF paged
<1>9. Len(SubSeq(s, a + 1, m)) = m - (a + 1) + 1
  <2>1. a + 1 \in 1 .. Len(s) + 1 /\ m \in a + 1 - 1 .. Len(s)
    BY <1>3, <1>5, <1>6, <1>7
  <2> QED
    BY <1>2, <2>1, SubSeqAny
<1>10. PICK q : q = SubSeq(s, a + 1, m)
  OBVIOUS
<1>11. Len(q) > 0
  BY <1>3, <1>5, <1>6, <1>7, <1>9, <1>10
<1>12. q # <<>>
  <2>1. Len(<<>>) = 0
    OBVIOUS
  <2> QED
    BY <1>11, <2>1
<1> QED
  BY <1>8, <1>10, <1>12

-----------------------------------------------------------------------------
(* What the pages do with their state. *)

\* An edit of fields that the invariant does not speak of.
LEMMA OtherUiFields ==
  ASSUME NEW gates, UiSound(wbUi, gates), NEW v, DOMAIN v = WebUiField,
         v.page \in Nat, v.pageSize \in {1, 2}, v.selected = wbUi.selected, v.gate = wbUi.gate,
         v.form = wbUi.form, v.touched = wbUi.touched, v.type = wbUi.type,
         v.patterns = wbUi.patterns
  PROVE  UiSound(v, gates)
BY DEF UiSound, FormShown, PatternsShown

LEMMA EventsPageSound ==
  ASSUME wbInv
  PROVE  /\ StreamOpens => UiSound(wbUi', wbSeen.gates)
         /\ StreamBreaks => UiSound(wbUi', wbSeen.gates)
         /\ FilterEvents => UiSound(wbUi', wbSeen.gates)
         /\ PageButtons => UiSound(wbUi', wbSeen.gates)
         /\ toggleEntry => UiSound(wbUi', wbSeen.gates)
         /\ \A i : SaveRefused(i) => UiSound(wbUi', wbSeen.gates)
<1>1. /\ UiSound(wbUi, wbSeen.gates) /\ DOMAIN wbUi = WebUiField
      /\ wbUi.page \in Nat /\ wbUi.pageSize \in {1, 2} /\ IsSeq(wbSeen.entries)
  BY DEF wbInv, UiSound
<1>2. ASSUME NEW x PROVE UiSound([wbUi EXCEPT !.status = x], wbSeen.gates)
  <2>1. PICK v : v = [wbUi EXCEPT !.status = x]
    OBVIOUS
  <2> QED
    BY <1>1, <2>1, OtherUiFields DEF WebUiField
<1>3. ASSUME NEW x PROVE UiSound([wbUi EXCEPT !.saves = x], wbSeen.gates)
  <2>1. PICK v : v = [wbUi EXCEPT !.saves = x]
    OBVIOUS
  <2> QED
    BY <1>1, <2>1, OtherUiFields DEF WebUiField
<1>4. ASSUME NEW x PROVE UiSound([wbUi EXCEPT !.refused = x], wbSeen.gates)
  <2>1. PICK v : v = [wbUi EXCEPT !.refused = x]
    OBVIOUS
  <2> QED
    BY <1>1, <2>1, OtherUiFields DEF WebUiField
<1>5. ASSUME NEW x \in Nat PROVE UiSound([wbUi EXCEPT !.page = x], wbSeen.gates)
  <2>1. PICK v : v = [wbUi EXCEPT !.page = x]
    OBVIOUS
  <2> QED
    BY <1>1, <2>1, OtherUiFields DEF WebUiField
<1>6. ASSUME FilterEvents PROVE UiSound(wbUi', wbSeen.gates)
  <2>1. \/ wbUi' = [wbUi EXCEPT !.filters.internal = ~@, !.page = 0]
        \/ \E x : wbUi' = [wbUi EXCEPT !.filters.verdict = x, !.page = 0]
        \/ wbUi' = [wbUi EXCEPT !.pageSize = 3 - @, !.page = 0]
    BY <1>6, Zenon DEF FilterEvents
  <2>2. ASSUME NEW v, \/ v = [wbUi EXCEPT !.filters.internal = ~@, !.page = 0]
                       \/ \E x : v = [wbUi EXCEPT !.filters.verdict = x, !.page = 0]
        PROVE  UiSound(v, wbSeen.gates)
    <3>1. PICK y : v = [wbUi EXCEPT !.filters = y, !.page = 0]
      BY <1>1, <2>2 DEF WebUiField
    <3>2. /\ DOMAIN v = WebUiField /\ v.page = 0 /\ v.pageSize = wbUi.pageSize
          /\ v.selected = wbUi.selected /\ v.gate = wbUi.gate /\ v.form = wbUi.form
          /\ v.touched = wbUi.touched /\ v.type = wbUi.type /\ v.patterns = wbUi.patterns
      BY <1>1, <3>1 DEF WebUiField
    <3> QED
      BY <1>1, <3>2, OtherUiFields
  <2>3. ASSUME NEW v, v = [wbUi EXCEPT !.pageSize = 3 - @, !.page = 0]
        PROVE  UiSound(v, wbSeen.gates)
    <3>1. /\ DOMAIN v = WebUiField /\ v.page = 0 /\ v.pageSize = 3 - wbUi.pageSize
          /\ v.selected = wbUi.selected /\ v.gate = wbUi.gate /\ v.form = wbUi.form
          /\ v.touched = wbUi.touched /\ v.type = wbUi.type /\ v.patterns = wbUi.patterns
      BY <1>1, <2>3 DEF WebUiField
    <3> QED
      BY <1>1, <3>1, OtherUiFields
  <2> QED
    BY <2>1, <2>2, <2>3
<1>7. ASSUME PageButtons PROVE UiSound(wbUi', wbSeen.gates)
  <2>1. PICK c \in Nat \ {0} : c = pageCount
    BY <1>1, Pages
  <2>2. PICK x : wbUi' = [wbUi EXCEPT !.page = x] /\
          \/ safePage > 0 /\ x = wbUi.page - 1
          \/ x = IF wbUi.page + 1 < c - 1 THEN wbUi.page + 1 ELSE c - 1
    BY <1>7, <2>1 DEF PageButtons
  <2>3. safePage > 0 => wbUi.page > 0
    <3>1. safePage \in Nat /\ safePage <= wbUi.page
      BY <1>1, Pages
    <3> QED
      BY <1>1, <3>1
  <2>4. x \in Nat
    BY <1>1, <2>1, <2>2, <2>3
  <2> QED
    BY <1>5, <2>2, <2>4
<1>8. StreamOpens => UiSound(wbUi', wbSeen.gates)
  BY <1>2 DEF StreamOpens
<1>9. StreamBreaks => UiSound(wbUi', wbSeen.gates)
  BY <1>2 DEF StreamBreaks
<1>10. toggleEntry => UiSound(wbUi', wbSeen.gates)
  BY <1>3 DEF toggleEntry
<1>11. \A i : SaveRefused(i) => UiSound(wbUi', wbSeen.gates)
  BY <1>4 DEF SaveRefused
<1> QED
  BY <1>6, <1>7, <1>8, <1>9, <1>10, <1>11

\* The drawer: whatever refills its form fills all of it.
LEMMA RefilledSound ==
  ASSUME NEW u, NEW gates, DOMAIN u = WebUiField, u.page \in Nat, u.pageSize \in {1, 2},
         PatternsShown(u)
  PROVE  UiSound(Refilled(u, gates), gates)
<1>1. CASE u.selected = {} \/ ~gates[u.gate].there
  BY <1>1 DEF Refilled, UiSound, FormShown
<1>2. CASE ~(u.selected = {} \/ ~gates[u.gate].there)
  <2>1. PICK v : v = [u EXCEPT !.form = gates[u.gate], !.touched = {}]
    OBVIOUS
  <2>2. /\ DOMAIN v = WebUiField /\ v.page = u.page /\ v.pageSize = u.pageSize /\ v.gate = u.gate
        /\ v.form = gates[u.gate] /\ v.type = u.type /\ v.patterns = u.patterns
    BY <2>1 DEF WebUiField
  <2>3. UiSound(v, gates)
    BY <2>2 DEF UiSound, FormShown, PatternsShown
  <2> QED
    BY <1>2, <2>1, <2>3 DEF Refilled
<1> QED
  BY <1>1, <1>2

LEMMA RulesPageSound ==
  ASSUME wbInv
  PROVE  /\ SelectRule => UiSound(wbUi', wbSeen.gates)
         /\ EditForm => UiSound(wbUi', wbSeen.gates)
         /\ \A i : RuleEdited(i) => UiSound(wbUi', wbSeen.gates)
         /\ \A i : PollAnswered(i) => UiSound(wbUi', wbSeen'.gates)
<1>1. /\ UiSound(wbUi, wbSeen.gates) /\ DOMAIN wbUi = WebUiField
      /\ wbUi.page \in Nat /\ wbUi.pageSize \in {1, 2} /\ PatternsShown(wbUi)
      /\ DOMAIN wbSeen = {"entries", "gates", "mode", "enabled"}
  BY DEF wbInv, UiSound
<1>2. ASSUME SelectRule PROVE UiSound(wbUi', wbSeen.gates)
  <2>1. PICK g : wbUi' = Refilled([wbUi EXCEPT !.selected = {g}, !.gate = g], wbSeen.gates)
    BY <1>2 DEF SelectRule
  <2>2. PICK u : u = [wbUi EXCEPT !.selected = {g}, !.gate = g]
    OBVIOUS
  <2>3. /\ DOMAIN u = WebUiField /\ u.page = wbUi.page /\ u.pageSize = wbUi.pageSize
        /\ u.type = wbUi.type /\ u.patterns = wbUi.patterns
    BY <1>1, <2>2 DEF WebUiField
  <2>4. PatternsShown(u)
    BY <1>1, <2>3 DEF PatternsShown
  <2> QED
    BY <1>1, <2>1, <2>2, <2>3, <2>4, RefilledSound
<1>3. ASSUME EditForm PROVE UiSound(wbUi', wbSeen.gates)
  <2>1. PICK f \in Fields : wbUi' = [wbUi EXCEPT !.touched = @ \cup {f},
            !.form[f] = IF f = "disabled" THEN ~@ ELSE "inherit"]
    BY <1>3 DEF EditForm
  <2>2. PICK v : v = wbUi'
    OBVIOUS
  <2>3. /\ DOMAIN v = WebUiField /\ v.page = wbUi.page /\ v.pageSize = wbUi.pageSize
        /\ v.selected = wbUi.selected /\ v.gate = wbUi.gate
        /\ v.touched = wbUi.touched \cup {f} /\ v.type = wbUi.type /\ v.patterns = wbUi.patterns
        /\ \A e \in Fields : e # f => v.form[e] = wbUi.form[e]
    BY <1>1, <2>1, <2>2 DEF WebUiField
  <2>4. UiSound(v, wbSeen.gates)
    BY <1>1, <2>3 DEF UiSound, FormShown, PatternsShown
  <2> QED
    BY <2>2, <2>4
<1>4. ASSUME NEW i, RuleEdited(i) PROVE UiSound(wbUi', wbSeen.gates)
  <2>1. CASE wbUi' = wbUi
    BY <1>1, <2>1
  <2>2. CASE wbUi' = [wbUi EXCEPT !.selected = {}, !.touched = {}]
    <3>1. PICK v : v = wbUi'
      OBVIOUS
    <3>2. /\ DOMAIN v = WebUiField /\ v.page = wbUi.page /\ v.pageSize = wbUi.pageSize
          /\ v.selected = {} /\ v.type = wbUi.type /\ v.patterns = wbUi.patterns
      BY <1>1, <2>2, <3>1 DEF WebUiField
    <3>3. UiSound(v, wbSeen.gates)
      BY <1>1, <3>2 DEF UiSound, FormShown, PatternsShown
    <3> QED
      BY <3>1, <3>3
  <2> QED
    BY <1>4, <2>1, <2>2 DEF RuleEdited
<1>5. ASSUME NEW i, PollAnswered(i) PROVE UiSound(wbUi', wbSeen'.gates)
  <2>1. CASE wbFlight[i].kind = "mode"
    <3>1. wbSeen'.gates = wbSeen.gates /\ wbUi' = wbUi
      BY <1>1, <1>5, <2>1 DEF PollAnswered
    <3> QED
      BY <1>1, <3>1
  <2>2. CASE wbFlight[i].kind # "mode"
    <3>1. PICK a : a = wbFlight[i].answer[1]
      OBVIOUS
    <3>2. wbSeen' = [wbSeen EXCEPT !.gates = a] /\ wbUi' = Refilled(wbUi, a)
      BY <1>5, <2>2, <3>1 DEF PollAnswered
    <3>3. wbSeen'.gates = a
      BY <1>1, <3>2
    <3> QED
      BY <1>1, <3>2, <3>3, RefilledSound
  <2> QED
    BY <2>1, <2>2
<1> QED
  BY <1>2, <1>3, <1>4, <1>5

LEMMA AddPageSound ==
  ASSUME wbInv
  PROVE  /\ OpenAddRule => UiSound(wbUi', wbSeen.gates)
         /\ ChangeRuleType => UiSound(wbUi', wbSeen.gates)
         /\ TypePattern => UiSound(wbUi', wbSeen.gates)
<1>1. /\ UiSound(wbUi, wbSeen.gates) /\ DOMAIN wbUi = WebUiField
      /\ wbUi.page \in Nat /\ wbUi.pageSize \in {1, 2}
      /\ FormShown(wbUi, wbSeen.gates) /\ PatternsShown(wbUi)
  BY DEF wbInv, UiSound
<1>2. ASSUME NEW v, DOMAIN v = WebUiField, v.page = wbUi.page, v.pageSize = wbUi.pageSize,
             v.selected = wbUi.selected, v.gate = wbUi.gate, v.form = wbUi.form,
             v.touched = wbUi.touched, PatternsShown(v)
      PROVE  UiSound(v, wbSeen.gates)
  BY <1>1, <1>2 DEF UiSound, FormShown
<1>3. ASSUME OpenAddRule PROVE UiSound(wbUi', wbSeen.gates)
  <2>1. PICK x, t : wbUi' = [wbUi EXCEPT !.type = t, !.value = x, !.patterns = Prefilled(t, x)]
    BY <1>3 DEF OpenAddRule
  <2>2. PICK q : q = Prefilled(t, x)
    OBVIOUS
  <2>3. PICK v : v = [wbUi EXCEPT !.type = t, !.value = x, !.patterns = q]
    OBVIOUS
  <2>4. /\ DOMAIN v = WebUiField /\ v.page = wbUi.page /\ v.pageSize = wbUi.pageSize
        /\ v.selected = wbUi.selected /\ v.gate = wbUi.gate /\ v.form = wbUi.form
        /\ v.touched = wbUi.touched /\ v.type = t /\ v.patterns = q
    BY <1>1, <2>3 DEF WebUiField
  <2>5. PatternsShown(v)
    BY <2>2, <2>4 DEF PatternsShown, Prefilled
  <2> QED
    BY <1>2, <2>1, <2>2, <2>3, <2>4, <2>5
<1>4. ASSUME ChangeRuleType PROVE UiSound(wbUi', wbSeen.gates)
  <2>1. PICK t : wbUi' = [wbUi EXCEPT !.type = t, !.patterns = NoPatterns]
    BY <1>4 DEF ChangeRuleType
  <2>2. PICK v : v = wbUi'
    OBVIOUS
  <2>3. /\ DOMAIN v = WebUiField /\ v.page = wbUi.page /\ v.pageSize = wbUi.pageSize
        /\ v.selected = wbUi.selected /\ v.gate = wbUi.gate /\ v.form = wbUi.form
        /\ v.touched = wbUi.touched /\ v.type = t /\ v.patterns = NoPatterns
    BY <1>1, <2>1, <2>2 DEF WebUiField
  <2>4. PatternsShown(v)
    BY <2>3 DEF PatternsShown, NoPatterns
  <2> QED
    BY <1>2, <2>2, <2>3, <2>4
<1>5. ASSUME TypePattern PROVE UiSound(wbUi', wbSeen.gates)
  <2>1. PICK p \in PRESETS[wbUi.type] : wbUi' = [wbUi EXCEPT !.patterns[p] = <<"typed">>]
    BY <1>5 DEF TypePattern
  <2>2. PICK v : v = wbUi'
    OBVIOUS
  <2>3. /\ DOMAIN v = WebUiField /\ v.page = wbUi.page /\ v.pageSize = wbUi.pageSize
        /\ v.selected = wbUi.selected /\ v.gate = wbUi.gate /\ v.form = wbUi.form
        /\ v.touched = wbUi.touched /\ v.type = wbUi.type
        /\ v.patterns = [wbUi.patterns EXCEPT ![p] = <<"typed">>]
    BY <1>1, <2>1, <2>2 DEF WebUiField
  <2>4. \A o : o # p => v.patterns[o] = wbUi.patterns[o]
    BY <2>3
  <2>5. PatternsShown(v)
    BY <1>1, <2>1, <2>3, <2>4 DEF PatternsShown
  <2> QED
    BY <1>2, <2>2, <2>3, <2>5
<1> QED
  BY <1>3, <1>4, <1>5

-----------------------------------------------------------------------------
LEMMA SavesSound ==
  ASSUME wbInv
  PROVE  /\ toggleEntry => wbInv'
         /\ \A i \in DOMAIN wbFlight : SaveHandled(i) => wbInv'
         /\ \A i \in DOMAIN wbFlight : SaveAnswered(i) => wbInv'
         /\ \A i \in DOMAIN wbFlight : SaveRefused(i) => wbInv'
<1>1. /\ DOMAIN wbSeen = {"entries", "gates", "mode", "enabled"}
      /\ DOMAIN wbDaemon = {"gates", "mode", "enabled", "sent"}
      /\ IsSeq(wbSeen.entries) /\ UiSound(wbUi, wbSeen.gates) /\ DOMAIN wbUi = WebUiField
      /\ wbTab = "guardrails" =>
           /\ SwitchesHold(wbFlight, wbSeen.enabled, wbDaemon.enabled, wbUi.saves, wbUi.refused)
           /\ DOMAIN wbFlight = 1 .. Len(wbFlight) /\ Len(wbFlight) \in Nat
  BY SeqDomain DEF wbInv, UiSound, SwitchesHold, SavesInOrder
<1>2. ASSUME toggleEntry PROVE wbInv'
  <2>1. PICK next : /\ wbSeen' = [wbSeen EXCEPT !.enabled = next]
                    /\ wbFlight' = Append(wbFlight,
                         [kind |-> "save", answer |-> <<>>, next |-> next,
                          prev |-> wbSeen.enabled, id |-> wbUi.saves + 1])
    BY <1>2 DEF toggleEntry, wbSend
  <2>2. /\ wbTab' = "guardrails" /\ wbTab = "guardrails" /\ wbDaemon' = wbDaemon
        /\ wbUi' = [wbUi EXCEPT !.saves = @ + 1]
    BY <1>2 DEF toggleEntry
  <2>3. SwitchesHold(wbFlight', next, wbDaemon.enabled, wbUi.saves + 1, wbUi.refused)
    BY <1>1, <2>1, <2>2, SwitchToggled
  <2>4. /\ DOMAIN wbSeen' = {"entries", "gates", "mode", "enabled"}
        /\ wbSeen'.entries = wbSeen.entries /\ wbSeen'.gates = wbSeen.gates
        /\ wbSeen'.enabled = next
        /\ wbUi'.saves = wbUi.saves + 1 /\ wbUi'.refused = wbUi.refused
    BY <1>1, <2>1, <2>2 DEF WebUiField
  <2>5. UiSound(wbUi', wbSeen.gates)
    BY <1>2, EventsPageSound
  <2> QED
    BY <1>1, <2>2, <2>3, <2>4, <2>5 DEF wbInv
<1>3. ASSUME NEW i \in DOMAIN wbFlight, SaveHandled(i) PROVE wbInv'
  <2>1. /\ wbDaemon' = [wbDaemon EXCEPT !.enabled = wbFlight[i].next]
        /\ wbFlight' = [wbFlight EXCEPT ![i].answer = <<wbFlight[i].next>>]
        /\ UNCHANGED <<wbTab, wbSeen, wbUi>>
        /\ ~Handled(wbFlight[i]) /\ \A k \in 1 .. i - 1 : Handled(wbFlight[k])
    BY <1>3 DEF SaveHandled, Handled
  <2>2. /\ DOMAIN wbDaemon' = {"gates", "mode", "enabled", "sent"}
        /\ wbDaemon'.enabled = wbFlight[i].next
    BY <1>1, <2>1
  <2>3. wbTab = "guardrails" =>
          SwitchesHold(wbFlight', wbSeen.enabled, wbFlight[i].next, wbUi.saves, wbUi.refused)
    BY <1>1, <2>1, SwitchHandled
  <2> QED
    BY <1>1, <2>1, <2>2, <2>3 DEF wbInv
<1>4. ASSUME NEW i \in DOMAIN wbFlight, SaveAnswered(i) PROVE wbInv'
  <2>1. PICK now : now = IF wbFlight[i].id = wbUi.saves THEN wbFlight[i].answer[1] ELSE wbSeen.enabled
    OBVIOUS
  <2>2. /\ \/ wbSeen' = [wbSeen EXCEPT !.enabled = now]
           \/ wbSeen' = wbSeen /\ now = wbSeen.enabled
        /\ wbFlight' = RemoveAt(wbFlight, i) /\ Handled(wbFlight[i])
        /\ UNCHANGED <<wbTab, wbDaemon, wbUi>>
    BY <1>4, <2>1 DEF SaveAnswered, Handled
  <2>3. /\ DOMAIN wbSeen' = {"entries", "gates", "mode", "enabled"}
        /\ wbSeen'.entries = wbSeen.entries /\ wbSeen'.gates = wbSeen.gates
        /\ wbSeen'.enabled = now
    BY <1>1, <2>2
  <2>4. wbTab = "guardrails" =>
          SwitchesHold(wbFlight', now, wbDaemon.enabled, wbUi.saves, wbUi.refused)
    BY <1>1, <2>1, <2>2, SwitchAnswered
  <2> QED
    BY <1>1, <2>2, <2>3, <2>4 DEF wbInv
<1>5. ASSUME NEW i \in DOMAIN wbFlight, SaveRefused(i) PROVE wbInv'
  <2>1. PICK now : now = IF wbFlight[i].id = wbUi.saves THEN wbFlight[i].prev ELSE wbSeen.enabled
    OBVIOUS
  <2>2. /\ \/ wbSeen' = [wbSeen EXCEPT !.enabled = now]
           \/ wbSeen' = wbSeen /\ now = wbSeen.enabled
        /\ wbFlight' = RemoveAt(wbFlight, i) /\ ~Handled(wbFlight[i])
        /\ wbUi.refused = 0 /\ wbUi' = [wbUi EXCEPT !.refused = 1]
        /\ UNCHANGED <<wbTab, wbDaemon>>
    BY <1>5, <2>1 DEF SaveRefused, Handled
  <2>3. /\ DOMAIN wbSeen' = {"entries", "gates", "mode", "enabled"}
        /\ wbSeen'.entries = wbSeen.entries /\ wbSeen'.gates = wbSeen.gates
        /\ wbSeen'.enabled = now /\ wbUi'.saves = wbUi.saves /\ wbUi'.refused = 1
    BY <1>1, <2>2 DEF WebUiField
  <2>4. wbTab = "guardrails" =>
          SwitchesHold(wbFlight', now, wbDaemon.enabled, wbUi.saves, 1)
    BY <1>1, <2>1, <2>2, SwitchRefused
  <2>5. UiSound(wbUi', wbSeen.gates)
    BY <1>5, EventsPageSound
  <2> QED
    BY <1>1, <2>2, <2>3, <2>4, <2>5 DEF wbInv
<1> QED
  BY <1>2, <1>3, <1>4, <1>5

\* No other request is made from the page of the switches.
LEMMA OtherRequests ==
  ASSUME wbInv, wbTab = "guardrails"
  PROVE  /\ ~EditRule /\ ~setMode /\ ~usePoll /\ ~EntryArrives /\ ~OthersChange
         /\ \A i \in DOMAIN wbFlight :
              ~RuleEdited(i) /\ ~ModeSet(i) /\ ~PollHandled(i) /\ ~PollAnswered(i) /\ ~wbFails(i)
<1>1. \A i \in DOMAIN wbFlight : wbFlight[i].kind = "save"
  BY SeqDomain DEF wbInv, SwitchesHold, SavesInOrder, SaveSound
<1>2. ~EditRule /\ ~setMode /\ ~usePoll /\ ~EntryArrives /\ ~OthersChange
  BY Zenon DEF EditRule, setMode, usePoll, EntryArrives, OthersChange
<1>3. \A i \in DOMAIN wbFlight :
        ~RuleEdited(i) /\ ~ModeSet(i) /\ ~PollHandled(i) /\ ~PollAnswered(i) /\ ~wbFails(i)
  BY <1>1 DEF RuleEdited, ModeSet, PollHandled, PollAnswered, wbFails
<1> QED
  BY <1>2, <1>3

LEMMA wbStart == wbInit => wbInv
<1> SUFFICES ASSUME wbInit PROVE wbInv
  OBVIOUS
<1>1. IsSeq(<<>>)
  BY EmptyIsSeq
<1>2. PICK g, m : wbSeen = [entries |-> <<>>, gates |-> g, mode |-> m, enabled |-> {}]
  BY Zenon DEF wbInit
<1>3. PICK h, n : wbDaemon = [gates |-> h, mode |-> n, enabled |-> {}, sent |-> 0]
  BY Zenon DEF wbInit
<1>4. PICK filters, gate :
        wbUi = [status |-> "connecting", filters |-> filters,
                page |-> 0, pageSize |-> 1, selected |-> {}, gate |-> gate,
                form |-> Absent, touched |-> {}, type |-> "custom", value |-> NoValue,
                patterns |-> NoPatterns, saves |-> 0, refused |-> 0]
  BY Zenon DEF wbInit
<1>5. UiSound(wbUi, wbSeen.gates)
  <2>1. /\ DOMAIN wbUi = WebUiField /\ wbUi.page = 0 /\ wbUi.pageSize = 1
        /\ wbUi.selected = {} /\ wbUi.patterns = NoPatterns
    BY <1>4 DEF WebUiField
  <2> QED
    BY <2>1 DEF UiSound, FormShown, PatternsShown, NoPatterns
<1>6. wbFlight = <<>> /\ Len(<<>>) = 0
  BY DEF wbInit
<1>7. SwitchesHold(wbFlight, wbSeen.enabled, wbDaemon.enabled, wbUi.saves, wbUi.refused)
  BY <1>1, <1>2, <1>3, <1>4, <1>6 DEF SwitchesHold, SavesInOrder, Asked
<1> QED
  BY <1>1, <1>2, <1>3, <1>5, <1>7 DEF wbInv

\* A step that touches only the form or the page.
LEMMA UiStep ==
  ASSUME wbInv, UiSound(wbUi', wbSeen.gates),
         wbUi'.saves = wbUi.saves, wbUi'.refused = wbUi.refused,
         UNCHANGED <<wbTab, wbSeen, wbFlight>>,
         DOMAIN wbDaemon' = DOMAIN wbDaemon, wbDaemon'.enabled = wbDaemon.enabled
  PROVE  wbInv'
BY DEF wbInv

LEMMA KeptFields ==
  ASSUME wbInv
  PROVE  /\ StreamOpens \/ StreamBreaks \/ FilterEvents \/ PageButtons \/ SelectRule \/ EditForm
            \/ OpenAddRule \/ ChangeRuleType \/ TypePattern =>
              wbUi'.saves = wbUi.saves /\ wbUi'.refused = wbUi.refused
<1> DEFINE Kept(v) == v.saves = wbUi.saves /\ v.refused = wbUi.refused
<1>1. DOMAIN wbUi = WebUiField
  BY DEF wbInv, UiSound
<1>2. \A x : Kept([wbUi EXCEPT !.status = x]) /\ Kept([wbUi EXCEPT !.page = x])
  BY <1>1 DEF WebUiField
<1>3. StreamOpens \/ StreamBreaks \/ PageButtons => Kept(wbUi')
  <2>1. StreamOpens \/ StreamBreaks \/ PageButtons =>
          \E x : wbUi' = [wbUi EXCEPT !.status = x] \/ wbUi' = [wbUi EXCEPT !.page = x]
    BY DEF StreamOpens, StreamBreaks, PageButtons
  <2> HIDE DEF Kept
  <2> QED
    BY <2>1, <1>2
<1>4. FilterEvents => Kept(wbUi')
  <2>1. FilterEvents =>
          \/ wbUi' = [wbUi EXCEPT !.filters.internal = ~@, !.page = 0]
          \/ \E x : wbUi' = [wbUi EXCEPT !.filters.verdict = x, !.page = 0]
          \/ wbUi' = [wbUi EXCEPT !.pageSize = 3 - @, !.page = 0]
    BY Zenon DEF FilterEvents
  <2> QED
    BY <1>1, <2>1 DEF WebUiField
<1>5. SelectRule => Kept(wbUi')
  <2> SUFFICES ASSUME SelectRule PROVE Kept(wbUi')
    OBVIOUS
  <2>1. PICK g : wbUi' = Refilled([wbUi EXCEPT !.selected = {g}, !.gate = g], wbSeen.gates)
    BY DEF SelectRule
  <2>2. PICK u : u = [wbUi EXCEPT !.selected = {g}, !.gate = g]
    OBVIOUS
  <2>3. Kept(u) /\ DOMAIN u = WebUiField
    BY <1>1, <2>2 DEF WebUiField
  <2>4. wbUi' = u \/ wbUi' = [u EXCEPT !.form = wbSeen.gates[u.gate], !.touched = {}]
    BY <2>1, <2>2 DEF Refilled
  <2> QED
    BY <2>3, <2>4 DEF WebUiField
<1>6. EditForm => Kept(wbUi')
  BY <1>1 DEF EditForm, WebUiField
<1>7. OpenAddRule \/ ChangeRuleType \/ TypePattern => Kept(wbUi')
  BY <1>1 DEF OpenAddRule, ChangeRuleType, TypePattern, WebUiField
<1> QED
  BY <1>3, <1>4, <1>5, <1>6, <1>7

LEMMA EntryKeepsInv ==
  ASSUME wbInv, EntryArrives
  PROVE  wbInv'
<1>1. wbTab # "guardrails" /\ UNCHANGED <<wbTab, wbUi>>
  BY OtherRequests DEF EntryArrives
<1>2. wbCap \in Nat \ {0}
  BY WebAssumption DEF WebAssumption
<1>3. IsSeq(wbSeen.entries) /\ DOMAIN wbSeen = {"entries", "gates", "mode", "enabled"}
  BY DEF wbInv
<1>4. PICK e : LET all == Append(wbSeen.entries, e) IN
        wbSeen' = [wbSeen EXCEPT !.entries =
          SubSeq(all, IF Len(all) > wbCap THEN Len(all) - wbCap + 1 ELSE 1, Len(all))]
  BY DEF EntryArrives
<1>5. PICK all : all = Append(wbSeen.entries, e) /\ IsSeq(all)
  BY <1>3, AppendAny
<1>6. PICK from : from = IF Len(all) > wbCap THEN Len(all) - wbCap + 1 ELSE 1
  OBVIOUS
<1>7. IsSeq(SubSeq(all, from, Len(all)))
  <2>1. Len(all) \in Nat
    BY <1>5 DEF IsSeq
  <2>2. from \in 1 .. Len(all) + 1 /\ Len(all) \in from - 1 .. Len(all)
    BY <1>2, <1>6, <2>1
  <2> QED
    BY <1>5, <2>2, SubSeqAny
<1>8. /\ DOMAIN wbSeen' = {"entries", "gates", "mode", "enabled"}
      /\ wbSeen'.gates = wbSeen.gates /\ IsSeq(wbSeen'.entries)
  BY <1>3, <1>4, <1>5, <1>6, <1>7
<1>9. DOMAIN wbDaemon' = DOMAIN wbDaemon
  BY DEF EntryArrives
<1> QED
  BY <1>1, <1>8, <1>9 DEF wbInv

\* Requests of the other pages.
LEMMA RestKeepsInv ==
  ASSUME wbInv, wbTab # "guardrails",
         \/ EditRule \/ setMode \/ usePoll \/ OthersChange
         \/ \E i \in DOMAIN wbFlight :
              RuleEdited(i) \/ ModeSet(i) \/ PollHandled(i) \/ PollAnswered(i) \/ wbFails(i)
  PROVE  wbInv'
<1>1. /\ UiSound(wbUi, wbSeen.gates) /\ IsSeq(wbSeen.entries)
      /\ DOMAIN wbSeen = {"entries", "gates", "mode", "enabled"}
      /\ DOMAIN wbDaemon = {"gates", "mode", "enabled", "sent"}
  BY DEF wbInv
<1>2. wbTab' = wbTab
  BY Zenon DEF EditRule, setMode, usePoll, OthersChange, RuleEdited, ModeSet, PollHandled,
               PollAnswered, wbFails
<1>3. DOMAIN wbDaemon' = DOMAIN wbDaemon
  <2>1. EditRule \/ usePoll => wbDaemon' = wbDaemon
    BY DEF EditRule, usePoll
  <2>2. setMode => wbDaemon' = wbDaemon
    BY Zenon DEF setMode
  <2>3. OthersChange => DOMAIN wbDaemon' = DOMAIN wbDaemon
    BY DEF OthersChange
  <2>4. \A i : RuleEdited(i) \/ ModeSet(i) \/ PollHandled(i) \/ PollAnswered(i) \/ wbFails(i)
                 => DOMAIN wbDaemon' = DOMAIN wbDaemon
    BY DEF RuleEdited, ModeSet, PollHandled, PollAnswered, wbFails
  <2> QED
    BY <2>1, <2>2, <2>3, <2>4
<1>4. CASE \E i : PollAnswered(i)
  <2>1. PICK i : PollAnswered(i)
    BY <1>4
  <2>2. \E a : wbSeen' = [wbSeen EXCEPT !.mode = a] \/ wbSeen' = [wbSeen EXCEPT !.gates = a]
    BY <2>1 DEF PollAnswered
  <2>3. DOMAIN wbSeen' = DOMAIN wbSeen /\ wbSeen'.entries = wbSeen.entries
    BY <1>1, <2>2
  <2>4. UiSound(wbUi', wbSeen'.gates)
    BY <2>1, RulesPageSound
  <2> QED
    BY <1>1, <1>2, <1>3, <2>3, <2>4 DEF wbInv
<1>5. CASE \E i : RuleEdited(i)
  <2>1. wbSeen' = wbSeen /\ UiSound(wbUi', wbSeen.gates)
    BY <1>5, RulesPageSound DEF RuleEdited
  <2> QED
    BY <1>1, <1>2, <1>3, <2>1 DEF wbInv
<1>6. CASE \/ EditRule \/ setMode \/ usePoll \/ OthersChange
           \/ \E i : ModeSet(i) \/ PollHandled(i) \/ wbFails(i)
  <2>1. wbSeen' = wbSeen /\ wbUi' = wbUi
    BY <1>6, Zenon DEF EditRule, setMode, usePoll, OthersChange, ModeSet, PollHandled, wbFails
  <2> QED
    BY <1>1, <1>2, <1>3, <2>1 DEF wbInv
<1> QED
  BY <1>4, <1>5, <1>6

LEMMA wbStep ==
  ASSUME wbInv, wbNext
  PROVE  wbInv'
<1>1. CASE StreamOpens \/ StreamBreaks \/ FilterEvents \/ PageButtons \/ SelectRule \/ EditForm
           \/ OpenAddRule \/ ChangeRuleType \/ TypePattern
  <2>1. UiSound(wbUi', wbSeen.gates)
    BY <1>1, EventsPageSound, RulesPageSound, AddPageSound
  <2>2. wbUi'.saves = wbUi.saves /\ wbUi'.refused = wbUi.refused
    BY <1>1, KeptFields
  <2>3. UNCHANGED <<wbTab, wbSeen, wbFlight>>
    BY <1>1, Zenon DEF StreamOpens, StreamBreaks, FilterEvents, PageButtons, SelectRule, EditForm,
                       OpenAddRule, ChangeRuleType, TypePattern
  <2>4. wbDaemon' = wbDaemon \/ wbDaemon' = [wbDaemon EXCEPT !.sent = 0]
    BY <1>1, Zenon DEF StreamOpens, StreamBreaks, FilterEvents, PageButtons, SelectRule, EditForm,
                       OpenAddRule, ChangeRuleType, TypePattern
  <2>5. DOMAIN wbDaemon' = DOMAIN wbDaemon /\ wbDaemon'.enabled = wbDaemon.enabled
    <3>1. DOMAIN wbDaemon = {"gates", "mode", "enabled", "sent"}
      BY DEF wbInv
    <3> QED
      BY <2>4, <3>1
  <2> QED
    BY <2>1, <2>2, <2>3, <2>5, UiStep
<1>2. CASE EntryArrives
  BY <1>2, EntryKeepsInv
<1>3. CASE toggleEntry
  BY <1>3, SavesSound
<1>4. CASE \/ EditRule \/ setMode \/ usePoll \/ OthersChange
           \/ \E i \in DOMAIN wbFlight :
                RuleEdited(i) \/ ModeSet(i) \/ PollHandled(i) \/ PollAnswered(i) \/ wbFails(i)
  <2>1. wbTab # "guardrails"
    BY <1>4, OtherRequests
  <2> QED
    BY <1>4, <2>1, RestKeepsInv
<1>5. CASE \E i \in DOMAIN wbFlight : SaveHandled(i) \/ SaveAnswered(i) \/ SaveRefused(i)
  BY <1>5, SavesSound
<1> QED
  BY <1>1, <1>2, <1>3, <1>4, <1>5, Zenon DEF wbNext, wbAnswers

\* The web dashboard never shows an empty page of a list that is not empty,
\* never saves a field that is neither typed nor shown nor adds a rule with a
\* pattern of another type, and its switches settle on what the daemon enforces
\* when no more than one of any number of saves is refused.
THEOREM WebAlwaysHolds == wbSpec => []WebHolds
<1>1. wbInv /\ [wbNext]_wbVars => wbInv'
  <2> SUFFICES ASSUME wbInv, [wbNext]_wbVars PROVE wbInv'
    OBVIOUS
  <2>1. CASE wbNext
    BY <2>1, wbStep
  <2>2. CASE UNCHANGED wbVars
    BY <2>2 DEF wbVars, wbInv
  <2> QED
    BY <2>1, <2>2
<1>2. wbInv => WebHolds
  <2> SUFFICES ASSUME wbInv PROVE WebHolds
    OBVIOUS
  <2>1. PageShowsEvents
    BY PageIsNotEmpty
  <2>2. SaveSendsWhatIsShown
    BY DEF wbInv, UiSound, FormShown, SaveSendsWhatIsShown, wbSelected
  <2>3. AddSendsWhatIsShown
    BY DEF wbInv, UiSound, PatternsShown, AddSendsWhatIsShown, AddBody
  <2>4. SwitchesSettle
    <3> SUFFICES ASSUME wbTab = "guardrails", wbFlight = <<>>
                 PROVE  wbSeen.enabled = wbDaemon.enabled
      BY DEF SwitchesSettle
    <3>1. Len(wbFlight) = 0
      OBVIOUS
    <3> QED
      BY <3>1 DEF wbInv, SwitchesHold, Asked
  <2> QED
    BY <2>1, <2>2, <2>3, <2>4 DEF WebHolds
<1>3. QED
  BY wbStart, <1>1, <1>2, PTL DEF wbSpec

-----------------------------------------------------------------------------
(* The install command (HarnessInstall)                                     *)


Unseen == {"absent", "empty"}

\* What the daemon makes of a file is again such a file.
LEMMA FileFacts ==
  ASSUME NEW kind, NEW c \in Fits(kind)
  PROVE  /\ NoFile \in Fits(kind) /\ Broken \in Fits(kind) /\ c \in Content
         /\ c.text \in Unseen => UserPart(c) = UserPart(NoFile)
         /\ c.text = "absent" => c = NoFile
<1>1. NoFile \in Content /\ Broken \in Content
  BY EntryAssumption DEF NoFile, Broken, Content
<1>2. NoFile \in Fits(kind)
  BY <1>1 DEF Fits, NoFile
<1>3. Broken \in Fits(kind)
  BY <1>1 DEF Fits, NoFile, Broken
<1>4. c \in Content /\ (c.text # "ok" => c = [NoFile EXCEPT !.text = c.text])
  BY DEF Fits
<1>5. c.text = "absent" => c = NoFile
  BY <1>4 DEF NoFile
<1>6. c.text \in Unseen => UserPart(c) = UserPart(NoFile)
  <2>1. SUFFICES ASSUME c.text \in Unseen PROVE UserPart(c) = UserPart(NoFile)
    OBVIOUS
  <2>2. c.text # "ok" /\ c.text # "broken"
    BY <2>1 DEF Unseen
  <2>3. c.entry = "none" /\ c.status = "none"
    BY <1>4, <2>2 DEF NoFile
  <2>4. QED
    BY <2>2, <2>3 DEF UserPart, NoFile
<1>7. QED
  BY <1>2, <1>3, <1>4, <1>5, <1>6

\* Stripping takes agentlock's part out and leaves the user's.
LEMMA StripFacts ==
  ASSUME NEW kind, NEW c \in Fits(kind)
  PROVE  /\ Stripped(c) \in Fits(kind) /\ Clean(Stripped(c)) /\ UserPart(Stripped(c)) = UserPart(c)
         /\ ~Strips(kind, c) => Clean(c) \/ kind = "flag"
<1>1. c \in Content
  BY DEF Fits
<1>2. PICK d : d = Stripped(c)
  OBVIOUS
<1>3. /\ d \in Content /\ d.text = c.text /\ d.entry = c.entry /\ d.own = FALSE /\ d.wrapped = FALSE
      /\ d.status = IF c.status = "ours" THEN "none" ELSE c.status
  BY <1>1, <1>2 DEF Stripped, Content
<1>4. d \in Fits(kind)
  <2>1. c.text # "ok" => d = c
    <3>1. SUFFICES ASSUME c.text # "ok" PROVE d = c
      OBVIOUS
    <3>2. c = [NoFile EXCEPT !.text = c.text]
      BY <3>1 DEF Fits
    <3>3. c.own = FALSE /\ c.wrapped = FALSE /\ c.status = "none"
      BY <3>2 DEF NoFile
    <3>4. QED
      BY <1>1, <1>2, <3>3 DEF Stripped, Content
  <2>2. CASE c.text # "ok"
    BY <2>1, <2>2
  <2>3. CASE c.text = "ok"
    BY <1>3, <2>3 DEF Fits
  <2>4. QED
    BY <2>2, <2>3
<1>5. Clean(d)
  BY <1>3 DEF Clean
<1>6. UserPart(d) = UserPart(c)
  BY <1>3 DEF UserPart
<1>7. ASSUME ~Strips(kind, c), kind # "flag" PROVE Clean(c)
  <2>1. /\ c.own \in BOOLEAN /\ c.wrapped \in BOOLEAN
        /\ c.wrapped => kind \in {"servers", "bundle"}
        /\ c.own => kind # "bundle"
        /\ c.status = "ours" => c.own
    BY <1>1 DEF Fits, Content
  <2>2. ~c.own
    BY <1>7, <2>1 DEF Strips
  <2>3. ~c.wrapped
    BY <1>7, <2>1 DEF Strips
  <2>4. QED
    BY <2>1, <2>2, <2>3 DEF Clean
<1>8. QED
  BY <1>2, <1>4, <1>5, <1>6, <1>7

\* What is planned gates every call, and what is not planned needs no write.
LEMMA MergeFacts ==
  ASSUME NEW kind, NEW c \in Fits(kind), NEW on \in BOOLEAN
  PROVE  /\ Planned(kind, c, on) => Merged(kind, c, on) \in Fits(kind) /\ Gates(kind, Merged(kind, c, on), on)
         /\ ~Planned(kind, c, on) => Gates(kind, c, on) /\ (Clean(c) \/ kind = "flag")
         /\ ~BacksUp(kind, c) => c.text \in Unseen
<1>1. /\ c \in Content
      /\ c.text # "ok" => c = [NoFile EXCEPT !.text = c.text]
      /\ c.wrapped => kind \in {"servers", "bundle"} /\ c.entry # "none"
      /\ c.own => kind # "bundle"
      /\ c.status # "none" => kind = "claude"
      /\ c.status = "ours" => c.own
  BY DEF Fits
<1>2. ASSUME Planned(kind, c, on)
      PROVE  Merged(kind, c, on) \in Fits(kind) /\ Gates(kind, Merged(kind, c, on), on)
  <2>1. PICK base : base = IF c.text = "ok" THEN c ELSE NoFile
    OBVIOUS
  <2>2. base \in Fits(kind) /\ base \in Content
    BY <2>1, FileFacts
  <2>3. PICK wraps : wraps = Wraps(kind, base.entry, on)
    OBVIOUS
  <2>4. wraps \in BOOLEAN /\ (wraps => kind \in {"servers", "bundle"} /\ base.entry # "none")
    <3>1. kind = "bundle" => base = c /\ c.entry # "none"
      BY <1>2, <2>1 DEF Planned
    <3>2. QED
      BY <2>3, <3>1 DEF Wraps
  <2>5. PICK d : d = Merged(kind, c, on)
    OBVIOUS
  <2>6. PICK e : e = CASE kind = "flag" -> "none" [] wraps -> Stashed(base.entry) [] OTHER -> base.entry
    OBVIOUS
  <2>7. d = [text |-> "ok", entry |-> e, wrapped |-> wraps, own |-> kind # "bundle",
             status |-> MergedStatus(kind, base.status)]
    BY <2>1, <2>3, <2>5, <2>6, Zenon DEF Merged
  <2>8. /\ e \in UserEntry \cup {"none", "bare"}
        /\ wraps => e # "none"
        /\ ~wraps => e = "none" \/ e = base.entry
    <3>1. base.entry \in UserEntry \cup {"none", "bare"}
      BY <2>2 DEF Content
    <3>2. wraps => e = Stashed(base.entry) /\ base.entry # "none"
      BY <2>4, <2>6
    <3>3. ~wraps => e = "none" \/ e = base.entry
      BY <2>4, <2>6
    <3>4. Stashed(base.entry) \in {"bare", base.entry}
      BY DEF Stashed
    <3>5. QED
      BY <3>1, <3>2, <3>3, <3>4
  <2>9. /\ MergedStatus(kind, base.status) \in {"none", "user", "ours"}
        /\ MergedStatus(kind, base.status) # "none" => kind = "claude"
    BY <2>2 DEF MergedStatus, Fits, Content
  <2>10. d \in Content
    BY <2>4, <2>7, <2>8, <2>9 DEF Content
  <2>11. d \in Fits(kind)
    BY <2>4, <2>7, <2>8, <2>9, <2>10 DEF Fits
  <2>12. Gates(kind, d, on)
    <3>1. kind = "servers" => (d.entry # "none" => d.wrapped)
      <4>1. kind = "servers" => (wraps <=> base.entry # "none")
        BY <2>3 DEF Wraps
      <4>2. QED
        BY <2>7, <2>8, <4>1
    <3>2. kind = "bundle" => (on => d.wrapped)
      BY <2>3, <2>7 DEF Wraps
    <3>3. kind # "bundle" => d.own
      BY <2>7
    <3>4. QED
      BY <3>1, <3>2, <3>3 DEF Gates
  <2>13. QED
    BY <2>5, <2>11, <2>12
<1>3. ASSUME ~Planned(kind, c, on) PROVE Gates(kind, c, on) /\ (Clean(c) \/ kind = "flag")
  <2>1. c.own \in BOOLEAN /\ c.wrapped \in BOOLEAN
    BY <1>1 DEF Content
  <2>2. kind = "flag" \/ kind = "bundle"
    BY <1>3 DEF Planned
  <2>3. CASE kind = "flag"
    BY <1>3, <2>1, <2>3 DEF Planned, Gates
  <2>4. CASE kind = "bundle"
    <3>1. ~(c.text = "ok" /\ c.entry # "none" /\ (on \/ c.wrapped))
      BY <1>3, <2>4 DEF Planned
    <3>2. ~c.wrapped
      <4>1. c.wrapped => c.text = "ok"
        BY <1>1 DEF NoFile
      <4>2. QED
        BY <1>1, <3>1, <4>1
    <3>3. QED
      BY <1>1, <2>1, <2>4, <3>1, <3>2 DEF Gates, Clean
  <2>5. QED
    BY <2>2, <2>3, <2>4
<1>4. ASSUME ~BacksUp(kind, c) PROVE c.text \in Unseen
  <2>1. c.text \in {"absent", "empty", "broken", "ok"}
    BY <1>1 DEF Content
  <2>2. QED
    BY <1>4, <2>1 DEF BacksUp, Unseen
<1>5. QED
  BY <1>2, <1>3, <1>4

\* What is left of agentlock's entries does not depend on the extensions, but
\* for the bundle of one.
LEMMA GatesFacts ==
  ASSUME NEW kind, NEW c, NEW on, NEW off, kind # "bundle", Gates(kind, c, on)
  PROVE  Gates(kind, c, off)
BY DEF Gates

\* The first of the operations, and the ones after it.
LEMMA HeadFacts ==
  ASSUME NEW S, NEW s \in Seq(S), s # <<>>
  PROVE  /\ Head(s) \in S /\ Tail(s) \in Seq(S) /\ Range(s) = {Head(s)} \cup Range(Tail(s))
         /\ Len(s) = 1 => Tail(s) = <<>>
         /\ Len(s) # 1 => Tail(s) # <<>>
<1>1. PICK n \in Nat : n = Len(s) /\ n >= 1
  OBVIOUS
<1>2. PICK t : t = Tail(s)
  OBVIOUS
<1>3. t \in Seq(S) /\ Len(t) = n - 1 /\ DOMAIN t = 1 .. n - 1 /\ DOMAIN s = 1 .. n
  BY <1>1, <1>2
<1>4. \A i \in 1 .. n - 1 : t[i] = s[i + 1]
  BY <1>1, <1>2
<1>5. Head(s) = s[1] /\ s[1] \in S
  BY <1>1
<1>6. Range(s) = {s[1]} \cup Range(t)
  <2>1. \A i \in DOMAIN t : t[i] = s[i + 1] /\ i + 1 \in DOMAIN s
    BY <1>1, <1>3, <1>4
  <2>2. \A i \in DOMAIN s : i = 1 \/ (i - 1 \in DOMAIN t /\ t[i - 1] = s[i])
    BY <1>1, <1>3, <1>4
  <2>3. 1 \in DOMAIN s
    BY <1>1, <1>3
  <2>4. QED
    BY <2>1, <2>2, <2>3 DEF Range
<1>7. QED
  BY <1>1, <1>2, <1>3, <1>5, <1>6

\* Each operation has a file of its own.
OneEach(s) == \A i, j \in DOMAIN s : s[i].file = s[j].file => i = j

LEMMA TailFacts ==
  ASSUME NEW S, NEW s \in Seq(S), s # <<>>, OneEach(s)
  PROVE  OneEach(Tail(s)) /\ \A op \in Range(Tail(s)) : op.file # Head(s).file
<1>1. PICK n \in Nat : n = Len(s) /\ n >= 1
  OBVIOUS
<1>2. PICK t : t = Tail(s)
  OBVIOUS
<1>3. t \in Seq(S) /\ DOMAIN t = 1 .. n - 1 /\ DOMAIN s = 1 .. n
  BY <1>1, <1>2
<1>4. \A i \in DOMAIN t : t[i] = s[i + 1] /\ i + 1 \in DOMAIN s /\ i + 1 # 1
  BY <1>1, <1>2, <1>3
<1>5. OneEach(t)
  <2>1. SUFFICES ASSUME NEW i \in DOMAIN t, NEW j \in DOMAIN t, t[i].file = t[j].file PROVE i = j
    BY DEF OneEach
  <2>2. i + 1 = j + 1
    BY <1>4, <2>1 DEF OneEach
  <2>3. QED
    BY <1>3, <2>2
<1>6. \A i \in DOMAIN t : t[i].file # s[1].file
  BY <1>1, <1>3, <1>4 DEF OneEach
<1>7. QED
  BY <1>1, <1>2, <1>5, <1>6 DEF Range

\* The last of the writes, and the ones before it.
LEMMA LastFacts ==
  ASSUME NEW S, NEW s \in Seq(S), s # <<>>
  PROVE  Last(s) \in S /\ Front(s) \in Seq(S) /\ Range(s) = {Last(s)} \cup Range(Front(s))
<1>1. PICK n \in Nat : n = Len(s) /\ n >= 1
  OBVIOUS
<1>2. PICK t : t = Front(s)
  OBVIOUS
<1>3. t = [i \in 1 .. n - 1 |-> s[i]]
  BY <1>1, <1>2 DEF Front
<1>4. t \in Seq(S) /\ DOMAIN t = 1 .. n - 1 /\ DOMAIN s = 1 .. n
  BY <1>1, <1>3
<1>5. Last(s) = s[n] /\ s[n] \in S
  BY <1>1 DEF Last
<1>6. Range(s) = {s[n]} \cup Range(t)
  <2>1. \A i \in DOMAIN t : t[i] = s[i] /\ i \in DOMAIN s
    BY <1>1, <1>3, <1>4
  <2>2. \A i \in DOMAIN s : i = n \/ i \in DOMAIN t
    BY <1>1, <1>4
  <2>3. n \in DOMAIN s
    BY <1>1, <1>4
  <2>4. QED
    BY <2>1, <2>2, <2>3 DEF Range
<1>7. QED
  BY <1>2, <1>4, <1>5, <1>6

\* The files of a set of harnesses.
LEMMA FilesForFacts ==
  ASSUME NEW S \in SUBSET Harness
  PROVE  /\ FilesFor(S) \in Seq(File) /\ Once(FilesFor(S))
         /\ Range(FilesFor(S)) = UNION {Range(FilesOf[h]) : h \in S}
<1>1. Files \in Seq(File) /\ Range(Files) = File /\ Once(Files)
  BY InstallAssumption DEF Once, IsInjective
<1>2. PICK F : F = UNION {Range(FilesOf[h]) : h \in S}
  OBVIOUS
<1>3. F \subseteq File
  <2>1. \A h \in S : FilesOf[h] \in Seq(File)
    BY InstallAssumption
  <2>2. \A h \in S : Range(FilesOf[h]) \subseteq File
    BY <2>1, RangeOfSeq
  <2>3. QED
    BY <1>2, <2>2
<1>4. FilesFor(S) = Among(Files, F)
  BY <1>2 DEF FilesFor
<1>5. QED
  BY <1>1, <1>2, <1>3, <1>4, AmongFacts

LEMMA StrippableFacts ==
  ASSUME NEW S \in SUBSET Harness
  PROVE  /\ Strippable(S) \in Seq(File) /\ Once(Strippable(S))
         /\ Range(Strippable(S)) = {f \in UNION {Range(FilesOf[h]) : h \in S} : KindOf[f] # "flag"}
<1>1. PICK fs : fs = FilesFor(S) /\ fs \in Seq(File) /\ Once(fs)
                /\ Range(fs) = UNION {Range(FilesOf[h]) : h \in S}
  BY FilesForFacts
<1>2. PICK F : F = {f \in File : KindOf[f] # "flag"}
  OBVIOUS
<1>3. Strippable(S) = Among(fs, F)
  BY <1>1, <1>2 DEF Strippable
<1>4. /\ Strippable(S) \in Seq(File) /\ Once(Strippable(S))
      /\ Range(Strippable(S)) = Range(fs) \cap F
  BY <1>1, <1>3, AmongFacts
<1>5. Range(fs) \subseteq File
  BY <1>1, RangeOfSeq
<1>6. QED
  BY <1>1, <1>2, <1>4, <1>5

GatesCalls(f, c) == Gates(KindOf[f], c, enabled) \/ (KindOf[f] = "bundle" /\ "extensions" \in edited)
OpFiles == {op.file : op \in Range(ops)}
WrittenFiles == {w.file : w \in Range(written)}

\* A file is as the CLI last saw it; an empty one may be gone.
Restored(f) == files[f] = hiSeen[f] \/ {files[f].text, hiSeen[f].text} = Unseen

\* A content to restore a file from.
Copies(f, c) == c = hiSeen[f] \/ (c = NoFile /\ hiSeen[f].text \in Unseen)

\* What the CLI saw of the user's in a file is there or in a backup.
DataKept(f) ==
  \/ UserPart(hiSeen[f]) = UserPart(NoFile)
  \/ UserPart(files[f]) = UserPart(hiSeen[f])
  \/ \E b \in backups : b.file = f /\ UserPart(b.content) = UserPart(hiSeen[f])

WriteOps == [file : File, content : Content, backup : BOOLEAN]
AnyOp == [file : File, content : Content] \cup WriteOps

FilesTyped ==
  /\ files \in [File -> Content] /\ hiSeen \in [File -> Content] /\ enabled \in BOOLEAN
  /\ \A f \in File : files[f] \in Fits(KindOf[f]) /\ hiSeen[f] \in Fits(KindOf[f])
  /\ chosen \in SUBSET Harness /\ dropped \in SUBSET Harness
  /\ \A r \in DOMAIN manifests : manifests[r] \in SUBSET File

OpsTyped ==
  /\ ops \in Seq(AnyOp) /\ OneEach(ops)
  /\ \A op \in Range(ops) : op.content \in Fits(KindOf[op.file])
  /\ written \in Seq([file : File, content : Content])
  /\ \A w \in Range(written) : w.content \in Fits(KindOf[w.file])

Planning == pc \in {"idle", "unwire", "strip", "plan", "confirm"}
Writing == pc \in {"confirm", "backup", "rename"}
Finishing == pc \in {"apply", "record", "done"}

Stages ==
  /\ outcome = "unwired" => pc = "plan"
  /\ outcome = "failed" => pc = "idle"
  /\ Planning => written = <<>>
  /\ Writing => ops # <<>> /\ Range(ops) \subseteq WriteOps /\ OpFiles \cap WrittenFiles = {}
  /\ Finishing => ops = <<>>

\* The strips to come keep the user's part, and will leave nothing of
\* agentlock's in the files of the deselected harnesses.
StripsKeep ==
  pc = "strip" =>
    /\ \A op \in Range(ops) :
         Clean(op.content) /\ (op.file \notin edited => UserPart(op.content) = UserPart(hiSeen[op.file]))
    /\ \A h \in dropped : \A f \in Range(FilesOf[h]) \ edited :
         KindOf[f] = "flag" \/ Clean(files[f]) \/ f \in OpFiles

\* An operation that names no backup is about a file with nothing in it.
BackupsNamed ==
  Writing => \A op \in Range(ops) : ~op.backup /\ op.file \notin edited => hiSeen[op.file].text \in Unseen

\* The files not written are as the CLI saw them.
Unwritten ==
  /\ Writing => \A f \in File : f \notin edited /\ f \notin WrittenFiles => files[f] = hiSeen[f]
  /\ pc = "rollback" =>
       \A f \in File : f \notin edited /\ f \notin WrittenFiles /\ f \notin stuck => Restored(f)

\* Before a file is replaced there is a backup of what is in it.
CopyKept ==
  pc = "rename" =>
    /\ copy \in Fits(KindOf[Head(ops).file])
    /\ Head(ops).file \notin edited =>
         /\ Copies(Head(ops).file, copy)
         /\ \/ hiSeen[Head(ops).file].text \in Unseen
            \/ [file |-> Head(ops).file, content |-> hiSeen[Head(ops).file]] \in backups

WritesUndoable == \A w \in Range(written) : w.file \notin edited => Copies(w.file, w.content)

\* The files of the chosen harnesses gate their calls or are to be written.
ChosenGated ==
  Writing \/ Finishing =>
    /\ \A op \in Range(ops) : GatesCalls(op.file, op.content)
    /\ \A f \in Range(FilesFor(chosen)) : f \notin edited /\ f \notin OpFiles =>
         /\ GatesCalls(f, files[f])
         /\ Clean(files[f]) \/ KindOf[f] = "flag" \/ f \in WrittenFiles

ManifestsHold ==
  /\ pc \in {"record", "done"} => run \in DOMAIN manifests /\ manifests[run] = WrittenFiles
  /\ pc = "done" => [what |-> "apply", run |-> run] \in ledger

hiInv ==
  /\ FilesTyped /\ OpsTyped /\ Stages
  /\ StripsKeep /\ BackupsNamed /\ Unwritten /\ CopyKept /\ WritesUndoable
  /\ ChosenGated /\ ManifestsHold
  /\ UserDataKept /\ FailedInstallUndone /\ UnwiredIsClean

LEMMA KeptIs == UserDataKept <=> \A f \in File : f \notin edited => DataKept(f)
BY DEF UserDataKept, DataKept

LEMMA UndoneIs ==
  FailedInstallUndone <=>
    (outcome = "failed" => \A f \in File : f \notin edited /\ f \notin stuck => Restored(f))
BY DEF FailedInstallUndone, Restored, Unseen

LEMMA NoneLeft == Range(<<>>) = {} /\ OneEach(<<>>)
BY DEF Range, OneEach

LEMMA hiInitOK == hiInit => hiInv
<1> SUFFICES ASSUME hiInit PROVE hiInv
  OBVIOUS
<1>1. \A f \in File : files[f] \in Fits(KindOf[f]) /\ hiSeen[f] \in Fits(KindOf[f])
  BY InstallAssumption DEF hiInit
<1>2. files \in [File -> Content] /\ hiSeen \in [File -> Content]
  <2>1. \A f \in File : files[f] \in Content
    BY <1>1 DEF Fits
  <2>2. DOMAIN files = File /\ files = [f \in File |-> files[f]]
    BY DEF hiInit
  <2>3. QED
    BY <2>1, <2>2 DEF hiInit
<1>3. FilesTyped
  BY <1>1, <1>2 DEF FilesTyped, hiInit
<1>4. OpsTyped /\ Stages
  BY NoneLeft DEF OpsTyped, Stages, hiInit, Writing, Finishing
<1>5. StripsKeep /\ BackupsNamed /\ CopyKept /\ ChosenGated /\ ManifestsHold
  BY DEF hiInit, StripsKeep, BackupsNamed, CopyKept, ChosenGated, ManifestsHold, Writing, Finishing
<1>6. Unwritten /\ WritesUndoable
  BY NoneLeft DEF hiInit, Unwritten, WritesUndoable, Writing
<1>7. UserDataKept
  BY KeptIs DEF DataKept, hiInit
<1>8. FailedInstallUndone /\ UnwiredIsClean
  BY DEF hiInit, FailedInstallUndone, UnwiredIsClean
<1>9. QED
  BY <1>3, <1>4, <1>5, <1>6, <1>7, <1>8 DEF hiInv

\* However a run ends, nothing is pending afterwards.
LEMMA EndsKeep ==
  ASSUME hiInv, NEW how, hiEnds(how), UNCHANGED <<files, enabled, backups, history>>, how # "unwired",
         how = "failed" => \A f \in File : f \notin edited /\ f \notin stuck => Restored(f),
         \A r \in DOMAIN manifests' : manifests'[r] \in SUBSET File
  PROVE  hiInv'
<1>1. /\ pc' = "idle" /\ outcome' = how /\ chosen' = {} /\ dropped' = {} /\ ops' = <<>> /\ written' = <<>>
      /\ UNCHANGED <<files, enabled, backups, hiSeen, edited, stuck>>
  BY DEF hiEnds, history
<1>2. FilesTyped'
  BY <1>1 DEF hiInv, FilesTyped
<1>3. OpsTyped' /\ Stages'
  BY <1>1, NoneLeft DEF OpsTyped, Stages, Writing, Finishing
<1>4. (StripsKeep /\ BackupsNamed /\ CopyKept /\ ChosenGated /\ ManifestsHold)'
  BY <1>1 DEF StripsKeep, BackupsNamed, CopyKept, ChosenGated, ManifestsHold, Writing, Finishing
<1>5. (Unwritten /\ WritesUndoable)'
  BY <1>1, NoneLeft DEF Unwritten, WritesUndoable, Writing
<1>6. UserDataKept'
  BY <1>1 DEF hiInv, UserDataKept
<1>7. FailedInstallUndone'
  <2>1. \A f \in File : Restored(f)' <=> Restored(f)
    BY <1>1 DEF Restored
  <2>2. QED
    BY <1>1, <2>1, UndoneIs DEF FailedInstallUndone, Restored, Unseen
<1>8. UnwiredIsClean'
  BY <1>1 DEF UnwiredIsClean
<1>9. QED
  BY <1>2, <1>3, <1>4, <1>5, <1>6, <1>7, <1>8 DEF hiInv

\* What only depends on the files, on what was seen of them and on the operations.
LEMMA FilesFrame ==
  ASSUME hiInv, UNCHANGED <<files, enabled, backups, ops, written, hiSeen, edited>>
  PROVE  (OpsTyped /\ WritesUndoable /\ UserDataKept)'
<1>1. OpsTyped'
  BY DEF hiInv, OpsTyped
<1>2. WritesUndoable'
  BY DEF hiInv, WritesUndoable, Copies
<1>3. UserDataKept'
  BY DEF hiInv, UserDataKept
<1>4. QED
  BY <1>1, <1>2, <1>3

LEMMA StartKeeps ==
  ASSUME hiInv, NEW S \in Picks, Start(S)
  PROVE  hiInv'
<1>1. /\ pc = "idle" /\ pc' \in {"plan", "unwire"} /\ outcome' = "none"
      /\ chosen' = S /\ dropped' \in SUBSET Harness
      /\ UNCHANGED <<files, enabled, backups, ops, written, hiSeen, edited, manifests>>
  BY DEF Start, disk, hiDaemon
<1>2. FilesTyped'
  BY <1>1, InstallAssumption DEF hiInv, FilesTyped
<1>3. OpsTyped' /\ WritesUndoable' /\ UserDataKept'
  BY <1>1, FilesFrame
<1>4. Stages'
  BY <1>1 DEF hiInv, Stages, Planning, Writing, Finishing
<1>5. (StripsKeep /\ BackupsNamed /\ Unwritten /\ CopyKept /\ ChosenGated /\ ManifestsHold)'
  BY <1>1 DEF StripsKeep, BackupsNamed, Unwritten, CopyKept, ChosenGated, ManifestsHold, Writing, Finishing
<1>6. (FailedInstallUndone /\ UnwiredIsClean)'
  BY <1>1 DEF FailedInstallUndone, UnwiredIsClean
<1>7. QED
  BY <1>2, <1>3, <1>4, <1>5, <1>6 DEF hiInv

\* The runs that end in one of the other ways.
LEMMA EndingsKeep ==
  ASSUME hiInv, Quit \/ RolledBack \/ hiFinish \/ Crash
  PROVE  hiInv'
<1>1. UNCHANGED <<files, enabled, backups, history, manifests>>
  BY DEF Quit, RolledBack, hiFinish, Crash, disk, hiDaemon
<1>2. \A r \in DOMAIN manifests' : manifests'[r] \in SUBSET File
  BY <1>1 DEF hiInv, FilesTyped
<1>3. CASE RolledBack
  <2>1. hiEnds("failed") /\ pc = "rollback" /\ WrittenFiles = {}
    BY <1>3, NoneLeft DEF RolledBack, WrittenFiles
  <2>2. \A f \in File : f \notin edited /\ f \notin stuck => Restored(f)
    BY <2>1 DEF hiInv, Unwritten
  <2>3. QED
    BY <1>1, <1>2, <2>1, <2>2, EndsKeep
<1>4. CASE Quit \/ hiFinish \/ Crash
  <2>1. PICK how \in {"quit", "done", "crashed"} : hiEnds(how)
    BY <1>4 DEF Quit, hiFinish, Crash
  <2>2. QED
    BY <1>1, <1>2, <2>1, EndsKeep
<1>5. QED
  BY <1>3, <1>4

LEMMA UnwiredKeeps ==
  ASSUME hiInv, Unwired \/ StripBreaks
  PROVE  hiInv'
<1>1. /\ pc = "strip" /\ pc' = "plan" /\ ops' = <<>>
      /\ Unwired => ops = <<>> /\ outcome' = "unwired"
      /\ StripBreaks => outcome' = outcome
      /\ UNCHANGED <<files, enabled, backups, chosen, dropped, written, hiSeen, edited, stuck, manifests>>
  BY DEF Unwired, StripBreaks, disk, cli, hiDaemon, history
<1>2. FilesTyped'
  BY <1>1 DEF hiInv, FilesTyped
<1>3. OpsTyped'
  BY <1>1, NoneLeft DEF hiInv, OpsTyped
<1>4. WritesUndoable' /\ UserDataKept'
  BY <1>1 DEF hiInv, WritesUndoable, Copies, UserDataKept
<1>5. outcome # "failed" /\ outcome # "unwired" /\ written = <<>>
  BY <1>1 DEF hiInv, Stages, Planning
<1>6. outcome' # "failed"
  BY <1>1, <1>5
<1>7. Stages'
  BY <1>1, <1>5, <1>6 DEF Stages, Planning, Writing, Finishing
<1>8. (StripsKeep /\ BackupsNamed /\ Unwritten /\ CopyKept /\ ChosenGated /\ ManifestsHold)'
  BY <1>1 DEF StripsKeep, BackupsNamed, Unwritten, CopyKept, ChosenGated, ManifestsHold, Writing, Finishing
<1>9. FailedInstallUndone'
  BY <1>6 DEF FailedInstallUndone
<1>10. UnwiredIsClean'
  <2>1. CASE Unwired
    <3>1. OpFiles = {}
      BY <1>1, <2>1, NoneLeft DEF OpFiles
    <3>2. \A h \in dropped : \A f \in Range(FilesOf[h]) \ edited : KindOf[f] = "flag" \/ Clean(files[f])
      BY <1>1, <3>1 DEF hiInv, StripsKeep
    <3>3. QED
      BY <1>1, <3>2 DEF UnwiredIsClean
  <2>2. CASE StripBreaks
    BY <1>1, <1>5, <2>2 DEF UnwiredIsClean
  <2>3. QED
    BY <2>1, <2>2
<1>11. QED
  BY <1>2, <1>3, <1>4, <1>7, <1>8, <1>9, <1>10 DEF hiInv

LEMMA ConfirmKeeps ==
  ASSUME hiInv, Confirm \/ WriteBreaks
  PROVE  hiInv'
<1>1. /\ Writing /\ pc' \in {"backup", "rollback"} /\ (pc' = "backup" => pc = "confirm")
      /\ UNCHANGED <<files, enabled, backups, chosen, dropped, ops, copy, written, hiSeen, edited, stuck, manifests,
                     outcome>>
  BY DEF Confirm, WriteBreaks, disk, cli, hiDaemon, history, Writing
<1>2. FilesTyped'
  BY <1>1 DEF hiInv, FilesTyped
<1>3. OpsTyped' /\ WritesUndoable' /\ UserDataKept'
  BY <1>1, FilesFrame
<1>4. outcome # "failed" /\ outcome # "unwired"
  BY <1>1 DEF hiInv, Stages, Writing
<1>5. Stages'
  BY <1>1, <1>4 DEF hiInv, Stages, Planning, Writing, Finishing, OpFiles, WrittenFiles
<1>6. (StripsKeep /\ CopyKept /\ ManifestsHold)'
  BY <1>1 DEF StripsKeep, CopyKept, ManifestsHold
<1>7. BackupsNamed'
  BY <1>1 DEF hiInv, BackupsNamed, Writing
<1>8. Unwritten'
  <2>1. \A f \in File : f \notin edited /\ f \notin WrittenFiles => files[f] = hiSeen[f]
    BY <1>1 DEF hiInv, Unwritten
  <2>2. WrittenFiles' = WrittenFiles
    BY <1>1 DEF WrittenFiles
  <2>3. QED
    BY <1>1, <2>1, <2>2 DEF Unwritten, Restored, Writing
<1>9. ChosenGated'
  <2>1. OpFiles' = OpFiles /\ WrittenFiles' = WrittenFiles
    BY <1>1 DEF OpFiles, WrittenFiles
  <2>2. \A f, c : GatesCalls(f, c)' <=> GatesCalls(f, c)
    BY <1>1 DEF GatesCalls
  <2>3. QED
    BY <1>1, <2>1, <2>2 DEF hiInv, ChosenGated, Writing, Finishing, GatesCalls
<1>10. (FailedInstallUndone /\ UnwiredIsClean)'
  BY <1>1, <1>4 DEF FailedInstallUndone, UnwiredIsClean
<1>11. QED
  BY <1>2, <1>3, <1>5, <1>6, <1>7, <1>8, <1>9, <1>10 DEF hiInv

LEMMA ApplyKeeps ==
  ASSUME hiInv,
         \/ \E ok \in BOOLEAN : WriteManifest(ok)
         \/ \E ok, deleted \in BOOLEAN : Record(ok, deleted)
  PROVE  hiInv'
<1>1. /\ pc \in {"apply", "record"}
      /\ UNCHANGED <<files, enabled, backups, history, hiSeen, edited, stuck, run>>
  BY DEF WriteManifest, Record, disk, history
<1>2. \A r \in DOMAIN manifests' : manifests'[r] \in SUBSET File
  <2>1. \A r \in DOMAIN manifests : manifests[r] \in SUBSET File
    BY DEF hiInv, FilesTyped
  <2>2. {w.file : w \in Range(written)} \in SUBSET File
    <3>1. Range(written) \subseteq [file : File, content : Content]
      BY RangeOfSeq DEF hiInv, OpsTyped
    <3>2. QED
      BY <3>1
  <2>3. CASE \E ok \in BOOLEAN : WriteManifest(ok)
    BY <2>1, <2>2, <2>3 DEF WriteManifest
  <2>4. CASE \E ok, deleted \in BOOLEAN : Record(ok, deleted)
    BY <2>1, <2>4 DEF Record, Restrict
  <2>5. QED
    BY <2>3, <2>4
<1>3. CASE hiEnds("unrecorded")
  BY <1>1, <1>2, <1>3, EndsKeep
<1>4. CASE ~hiEnds("unrecorded")
  <2>1. /\ pc' \in {"record", "done"}
        /\ pc = "apply" => /\ pc' = "record" /\ outcome' = outcome
                           /\ run \in DOMAIN manifests' /\ manifests'[run] = WrittenFiles
        /\ pc = "record" => /\ pc' = "done" /\ outcome' = "done" /\ manifests' = manifests
                            /\ [what |-> "apply", run |-> run] \in ledger'
        /\ UNCHANGED <<chosen, dropped, ops, copy, written>>
    BY <1>1, <1>4 DEF WriteManifest, Record, cli, WrittenFiles
  <2>2. FilesTyped'
    BY <1>1, <1>2, <2>1 DEF hiInv, FilesTyped
  <2>3. OpsTyped' /\ WritesUndoable' /\ UserDataKept'
    BY <1>1, <2>1, FilesFrame
  <2>4. outcome' # "failed" /\ outcome' # "unwired"
    BY <1>1, <2>1 DEF hiInv, Stages
  <2>5. Stages'
    BY <1>1, <2>1, <2>4 DEF hiInv, Stages, Planning, Writing, Finishing
  <2>6. (StripsKeep /\ CopyKept /\ BackupsNamed /\ Unwritten)'
    BY <2>1 DEF StripsKeep, CopyKept, BackupsNamed, Unwritten, Writing
  <2>7. WrittenFiles' = WrittenFiles
    BY <2>1 DEF WrittenFiles
  <2>8. ChosenGated'
    <3>1. OpFiles' = OpFiles
      BY <2>1 DEF OpFiles
    <3>2. QED
      BY <1>1, <2>1, <2>7, <3>1 DEF hiInv, ChosenGated, Writing, Finishing, GatesCalls
  <2>9. ManifestsHold'
    BY <1>1, <2>1, <2>7 DEF hiInv, ManifestsHold
  <2>10. (FailedInstallUndone /\ UnwiredIsClean)'
    BY <2>4 DEF FailedInstallUndone, UnwiredIsClean
  <2>11. QED
    BY <2>2, <2>3, <2>5, <2>6, <2>8, <2>9, <2>10 DEF hiInv
<1>5. QED
  BY <1>3, <1>4

\* An operation at the head is about a file, and its content fits it.
LEMMA HeadOp ==
  ASSUME hiInv, ops # <<>>
  PROVE  /\ Head(ops) \in AnyOp /\ Head(ops) \in Range(ops)
         /\ Head(ops).file \in File /\ Head(ops).content \in Content
         /\ Head(ops).content \in Fits(KindOf[Head(ops).file])
         /\ Tail(ops) \in Seq(AnyOp) /\ OneEach(Tail(ops))
         /\ Range(ops) = {Head(ops)} \cup Range(Tail(ops))
         /\ \A op \in Range(Tail(ops)) : op.file # Head(ops).file
<1>1. /\ ops \in Seq(AnyOp) /\ OneEach(ops)
      /\ \A op \in Range(ops) : op.content \in Fits(KindOf[op.file])
  BY DEF hiInv, OpsTyped
<1>2. /\ Head(ops) \in AnyOp /\ Tail(ops) \in Seq(AnyOp)
      /\ Range(ops) = {Head(ops)} \cup Range(Tail(ops))
  BY <1>1, HeadFacts
<1>3. OneEach(Tail(ops)) /\ \A op \in Range(Tail(ops)) : op.file # Head(ops).file
  BY <1>1, TailFacts
<1>4. Head(ops).file \in File /\ Head(ops).content \in Content
  BY <1>2 DEF AnyOp, WriteOps
<1>5. QED
  BY <1>1, <1>2, <1>3, <1>4

\* A file is replaced: the others are what they were.
LEMMA PutFacts ==
  ASSUME FilesTyped, NEW f \in File, NEW c \in Fits(KindOf[f]), files' = [files EXCEPT ![f] = c],
         UNCHANGED <<hiSeen, enabled, chosen, dropped, manifests>>
  PROVE  /\ FilesTyped' /\ files'[f] = c /\ \A g \in File : g # f => files'[g] = files[g]
<1>1. c \in Content
  BY DEF Fits
<1>2. files'[f] = c /\ \A g \in File : g # f => files'[g] = files[g]
  BY DEF FilesTyped
<1>3. files' \in [File -> Content]
  BY <1>1 DEF FilesTyped
<1>4. \A g \in File : files'[g] \in Fits(KindOf[g])
  BY <1>2 DEF FilesTyped
<1>5. FilesTyped'
  BY <1>3, <1>4 DEF FilesTyped
<1>6. QED
  BY <1>2, <1>5

LEMMA StripKeeps ==
  ASSUME hiInv, Strip
  PROVE  hiInv'
<1>1. /\ pc = "strip" /\ ops # <<>> /\ pc' = "strip" /\ ops' = Tail(ops)
      /\ files' = [files EXCEPT ![Head(ops).file] = Head(ops).content]
      /\ UNCHANGED <<enabled, backups, chosen, dropped, written, hiSeen, edited, stuck, manifests, outcome>>
  BY DEF Strip, hiDaemon, history
<1>2. PICK f \in File : f = Head(ops).file
  BY <1>1, HeadOp
<1>3. PICK c : c = Head(ops).content /\ c \in Fits(KindOf[f])
  BY <1>1, <1>2, HeadOp
<1>4. FilesTyped' /\ files'[f] = c /\ \A g \in File : g # f => files'[g] = files[g]
  BY <1>1, <1>2, <1>3, PutFacts DEF hiInv
<1>5. Range(ops) = {Head(ops)} \cup Range(ops') /\ ops' \in Seq(AnyOp) /\ OneEach(ops')
  BY <1>1, HeadOp
<1>6. OpFiles = {f} \cup OpFiles'
  BY <1>2, <1>5 DEF OpFiles
<1>7. OpsTyped'
  BY <1>1, <1>5 DEF hiInv, OpsTyped
<1>8. WritesUndoable'
  BY <1>1 DEF hiInv, WritesUndoable, Copies
<1>9. outcome # "failed" /\ outcome # "unwired" /\ written = <<>>
  BY <1>1 DEF hiInv, Stages, Planning
<1>10. Stages'
  BY <1>1, <1>9 DEF Stages, Planning, Writing, Finishing
<1>11. (BackupsNamed /\ Unwritten /\ CopyKept /\ ChosenGated /\ ManifestsHold)'
  BY <1>1 DEF BackupsNamed, Unwritten, CopyKept, ChosenGated, ManifestsHold, Writing, Finishing
<1>12. /\ \A op \in Range(ops) :
            Clean(op.content) /\ (op.file \notin edited => UserPart(op.content) = UserPart(hiSeen[op.file]))
       /\ \A h \in dropped : \A g \in Range(FilesOf[h]) \ edited :
            KindOf[g] = "flag" \/ Clean(files[g]) \/ g \in OpFiles
  BY <1>1 DEF hiInv, StripsKeep
<1>13. Clean(c) /\ (f \notin edited => UserPart(c) = UserPart(hiSeen[f]))
  BY <1>1, <1>2, <1>3, <1>12, HeadOp
<1>14. StripsKeep'
  <2>1. \A op \in Range(ops') : Clean(op.content) /\ (op.file \notin edited' => UserPart(op.content) = UserPart(hiSeen'[op.file]))
    BY <1>1, <1>5, <1>12
  <2>2. ASSUME NEW h \in dropped', NEW g \in Range(FilesOf[h]) \ edited'
        PROVE  KindOf[g] = "flag" \/ Clean(files'[g]) \/ g \in OpFiles'
    <3>1. g \in File
      <4>1. h \in Harness
        BY <1>1 DEF hiInv, FilesTyped
      <4>2. FilesOf[h] \in Seq(File)
        BY <4>1, InstallAssumption
      <4>3. QED
        BY <4>2, RangeOfSeq
    <3>2. KindOf[g] = "flag" \/ Clean(files[g]) \/ g \in OpFiles
      BY <1>1, <1>12
    <3>3. CASE g = f
      BY <1>4, <1>13, <3>3
    <3>4. CASE g # f
      BY <1>4, <1>6, <3>1, <3>2, <3>4
    <3>5. QED
      BY <3>3, <3>4
  <2>3. QED
    BY <2>1, <2>2 DEF StripsKeep
<1>15. UserDataKept'
  <2>1. SUFFICES ASSUME NEW g \in File, g \notin edited' PROVE DataKept(g)'
    BY KeptIs DEF UserDataKept, DataKept
  <2>2. DataKept(g)
    BY <1>1, <2>1, KeptIs DEF hiInv
  <2>3. CASE g = f
    BY <1>1, <1>4, <1>13, <2>1, <2>3 DEF DataKept
  <2>4. CASE g # f
    BY <1>1, <1>4, <2>2, <2>4 DEF DataKept
  <2>5. QED
    BY <2>3, <2>4
<1>16. (FailedInstallUndone /\ UnwiredIsClean)'
  BY <1>1, <1>9 DEF FailedInstallUndone, UnwiredIsClean
<1>17. QED
  BY <1>4, <1>7, <1>8, <1>10, <1>11, <1>14, <1>15, <1>16 DEF hiInv

\* The strips of a list of files: one for each file with something to strip.
LEMMA StripOpsFacts ==
  ASSUME FilesTyped, NEW fs \in Seq(File), Once(fs)
  PROVE  /\ StripOps(fs) \in Seq(AnyOp) /\ OneEach(StripOps(fs))
         /\ Range(StripOps(fs)) = {StripOp(f) : f \in {g \in Range(fs) : Strips(KindOf[g], files[g])}}
<1>1. PICK F : F = {f \in File : Strips(KindOf[f], files[f])}
  OBVIOUS
<1>2. PICK found : found = Among(fs, F) /\ found \in Seq(File) /\ Once(found) /\ Range(found) = Range(fs) \cap F
  BY AmongFacts
<1>3. PICK result : result = [i \in DOMAIN found |-> StripOp(found[i])]
  OBVIOUS
<1>4. StripOps(fs) = result
  BY <1>1, <1>2, <1>3 DEF StripOps
<1>5. \A f \in File : StripOp(f) \in AnyOp /\ StripOp(f).file = f
  <2>1. \A f \in File : Stripped(files[f]) \in Content
    BY StripFacts DEF FilesTyped, Fits
  <2>2. QED
    BY <2>1 DEF StripOp, AnyOp
<1>6. PICK n \in Nat : DOMAIN found = 1 .. n
  BY <1>2
<1>7. \A i \in 1 .. n : found[i] \in File
  BY <1>2, <1>6
<1>8. result \in Seq(AnyOp)
  BY <1>3, <1>5, <1>6, <1>7
<1>9. OneEach(result)
  BY <1>2, <1>3, <1>5, <1>6, <1>7 DEF OneEach, Once
<1>10. Range(result) = {StripOp(f) : f \in Range(found)}
  BY <1>3 DEF Range
<1>11. Range(found) = {g \in Range(fs) : Strips(KindOf[g], files[g])}
  <2>1. Range(fs) \subseteq File
    BY RangeOfSeq
  <2>2. QED
    BY <1>1, <1>2, <2>1
<1>12. QED
  BY <1>4, <1>8, <1>9, <1>10, <1>11

\* The CLI reads files: what it saw is what is there.
LEMMA LooksFacts ==
  ASSUME hiInv, NEW F, LooksAt(F), UNCHANGED files, backups \subseteq backups'
  PROVE  /\ hiSeen' \in [File -> Content] /\ \A f \in File : hiSeen'[f] \in Fits(KindOf[f])
         /\ \A f \in File : hiSeen'[f] = IF f \in F THEN files[f] ELSE hiSeen[f]
         /\ edited' = edited \ F
         /\ UserDataKept'
<1>1. \A f \in File : hiSeen'[f] = IF f \in F THEN files[f] ELSE hiSeen[f]
  BY DEF LooksAt
<1>2. edited' = edited \ F
  BY DEF LooksAt
<1>3. /\ files \in [File -> Content] /\ hiSeen \in [File -> Content]
      /\ \A f \in File : files[f] \in Fits(KindOf[f]) /\ hiSeen[f] \in Fits(KindOf[f])
  BY DEF hiInv, FilesTyped
<1>4. hiSeen' \in [File -> Content] /\ \A f \in File : hiSeen'[f] \in Fits(KindOf[f])
  <2>1. \A f \in File : hiSeen'[f] \in Content
    BY <1>1, <1>3
  <2>2. hiSeen' = [f \in File |-> hiSeen'[f]]
    BY DEF LooksAt
  <2>3. QED
    BY <1>1, <1>3, <2>1, <2>2
<1>5. UserDataKept'
  <2>1. SUFFICES ASSUME NEW g \in File, g \notin edited' PROVE DataKept(g)'
    BY KeptIs DEF UserDataKept, DataKept
  <2>2. CASE g \in F
    BY <1>1, <2>2 DEF DataKept
  <2>3. CASE g \notin F
    <3>1. DataKept(g)
      BY <1>2, <2>1, <2>3, KeptIs DEF hiInv
    <3>2. hiSeen'[g] = hiSeen[g] /\ files'[g] = files[g]
      BY <1>1, <2>3
    <3>3. QED
      BY <3>1, <3>2 DEF DataKept
  <2>4. QED
    BY <2>2, <2>3
<1>6. QED
  BY <1>1, <1>2, <1>4, <1>5

\* The strips of some files begin: the files are read and none fails to parse.
LEMMA StripBegins ==
  ASSUME hiInv, NEW fs \in Seq(File), Once(fs), NEW F, F = Range(fs), LooksAt(F),
         written = <<>>, ops' = StripOps(fs), pc' = "strip", outcome' \notin {"failed", "unwired"},
         UNCHANGED <<files, enabled, backups, chosen, written, stuck>>, FilesTyped',
         \A h \in dropped' : \A f \in Range(FilesOf[h]) : f \in File /\ (KindOf[f] # "flag" => f \in F)
  PROVE  hiInv'
<1>1. FilesTyped
  BY DEF hiInv
<1>2. PICK G : G = {g \in F : Strips(KindOf[g], files[g])}
  OBVIOUS
<1>3. ops' \in Seq(AnyOp) /\ OneEach(ops') /\ Range(ops') = {StripOp(f) : f \in G}
  BY <1>1, <1>2, StripOpsFacts
<1>4. G \subseteq F /\ F \subseteq File
  BY <1>2, RangeOfSeq
<1>5. \A f \in File : hiSeen'[f] = IF f \in F THEN files[f] ELSE hiSeen[f]
  BY LooksFacts
<1>6. ASSUME NEW op \in Range(ops')
      PROVE  /\ op.content \in Fits(KindOf[op.file]) /\ Clean(op.content)
             /\ UserPart(op.content) = UserPart(hiSeen'[op.file])
  <2>1. PICK f \in G : op = StripOp(f)
    BY <1>3
  <2>2. f \in F /\ f \in File /\ op.file = f /\ op.content = Stripped(files[f]) /\ files[f] \in Fits(KindOf[f])
    BY <1>1, <1>4, <2>1 DEF StripOp, FilesTyped
  <2>3. hiSeen'[f] = files[f]
    BY <1>5, <2>2
  <2>4. QED
    BY <2>2, <2>3, StripFacts
<1>7. OpsTyped'
  BY <1>3, <1>6, NoneLeft DEF hiInv, OpsTyped
<1>8. WritesUndoable'
  BY NoneLeft DEF WritesUndoable
<1>9. Stages'
  BY DEF Stages, Planning, Writing, Finishing
<1>10. StripsKeep'
  <2>1. \A f \in G : f \in OpFiles'
    <3>1. ASSUME NEW f \in G PROVE f \in OpFiles'
      <4>1. StripOp(f) \in Range(ops') /\ StripOp(f).file = f
        BY <1>3 DEF StripOp
      <4>2. QED
        BY <4>1 DEF OpFiles
    <3>2. QED
      BY <3>1
  <2>2. ASSUME NEW h \in dropped', NEW f \in Range(FilesOf[h]) \ edited'
        PROVE  KindOf[f] = "flag" \/ Clean(files'[f]) \/ f \in OpFiles'
    <3>1. f \in File /\ (KindOf[f] # "flag" => f \in F) /\ files'[f] = files[f]
      OBVIOUS
    <3>2. files[f] \in Fits(KindOf[f])
      BY <1>1, <3>1 DEF FilesTyped
    <3>3. CASE Strips(KindOf[f], files[f])
      BY <1>2, <2>1, <3>1, <3>3
    <3>4. CASE ~Strips(KindOf[f], files[f])
      BY <3>1, <3>2, <3>4, StripFacts
    <3>5. QED
      BY <3>3, <3>4
  <2>3. QED
    BY <1>6, <2>2 DEF StripsKeep
<1>11. (BackupsNamed /\ Unwritten /\ CopyKept /\ ChosenGated /\ ManifestsHold)'
  BY DEF BackupsNamed, Unwritten, CopyKept, ChosenGated, ManifestsHold, Writing, Finishing
<1>12. (FailedInstallUndone /\ UnwiredIsClean)'
  BY DEF FailedInstallUndone, UnwiredIsClean
<1>13. UserDataKept'
  BY LooksFacts
<1>14. QED
  BY <1>7, <1>8, <1>9, <1>10, <1>11, <1>12, <1>13 DEF hiInv

LEMMA UnwireKeeps ==
  ASSUME hiInv, NEW recorded \in BOOLEAN, Unwire(recorded)
  PROVE  hiInv'
<1>1. PICK fs : fs = Strippable(dropped)
  OBVIOUS
<1>2. PICK F : F = Range(fs)
  OBVIOUS
<1>3. /\ pc = "unwire" /\ LooksAt(F)
      /\ \/ ops' = StripOps(fs) /\ pc' = "strip"
         \/ ops' = <<>> /\ pc' = "plan"
      /\ UNCHANGED <<files, enabled, backups, chosen, dropped, written, manifests, stuck, outcome>>
  BY <1>1, <1>2 DEF Unwire, disk
<1>4. written = <<>> /\ outcome # "failed" /\ outcome # "unwired"
  BY <1>3 DEF hiInv, Stages, Planning
<1>5. dropped \in SUBSET Harness
  BY DEF hiInv, FilesTyped
<1>6. /\ fs \in Seq(File) /\ Once(fs)
      /\ F = {f \in UNION {Range(FilesOf[h]) : h \in dropped} : KindOf[f] # "flag"}
  BY <1>1, <1>2, <1>5, StrippableFacts
<1>7. FilesTyped'
  BY <1>3, LooksFacts DEF hiInv, FilesTyped
<1>8. CASE pc' = "strip"
  <2>1. \A h \in dropped' : \A f \in Range(FilesOf[h]) : f \in File /\ (KindOf[f] # "flag" => f \in F)
    <3>1. \A h \in dropped : FilesOf[h] \in Seq(File)
      BY <1>5, InstallAssumption
    <3>2. \A h \in dropped : Range(FilesOf[h]) \subseteq File
      BY <3>1, RangeOfSeq
    <3>3. QED
      BY <1>3, <1>6, <3>2
  <2>2. QED
    BY <1>2, <1>3, <1>4, <1>6, <1>7, <1>8, <2>1, StripBegins
<1>9. CASE pc' = "plan" /\ ops' = <<>>
  <2>1. OpsTyped' /\ WritesUndoable'
    BY <1>3, <1>4, <1>9, NoneLeft DEF hiInv, OpsTyped, WritesUndoable
  <2>2. Stages'
    BY <1>3, <1>4, <1>9 DEF Stages, Planning, Writing, Finishing
  <2>3. (StripsKeep /\ BackupsNamed /\ Unwritten /\ CopyKept /\ ChosenGated /\ ManifestsHold)'
    BY <1>9 DEF StripsKeep, BackupsNamed, Unwritten, CopyKept, ChosenGated, ManifestsHold, Writing, Finishing
  <2>4. (FailedInstallUndone /\ UnwiredIsClean)'
    BY <1>3, <1>4 DEF FailedInstallUndone, UnwiredIsClean
  <2>5. UserDataKept'
    BY <1>3, LooksFacts
  <2>6. QED
    BY <1>7, <2>1, <2>2, <2>3, <2>4, <2>5 DEF hiInv
<1>10. QED
  BY <1>3, <1>8, <1>9

LEMMA UninstallKeeps ==
  ASSUME hiInv, NEW r \in 1 .. MaxRuns, NEW recorded \in BOOLEAN, UninstallSession(r, recorded)
  PROVE  hiInv'
<1>1. r \in DOMAIN manifests /\ pc = "idle"
  BY DEF UninstallSession
<1>2. PICK F : F = manifests[r] /\ F \in SUBSET File
  BY <1>1 DEF hiInv, FilesTyped
<1>3. PICK fs : fs = Among(Files, F) /\ fs \in Seq(File) /\ Once(fs) /\ Range(fs) = F
  <2>1. Files \in Seq(File) /\ Range(Files) = File /\ Once(Files)
    BY InstallAssumption DEF Once, IsInjective
  <2>2. /\ Among(Files, F) \in Seq(File) /\ Once(Among(Files, F))
        /\ Range(Among(Files, F)) = Range(Files) \cap F
    BY <2>1, AmongFacts
  <2>3. Range(Files) \cap F = F
    BY <1>2, <2>1
  <2>4. QED
    BY <2>2, <2>3
<1>4. /\ LooksAt(F)
      /\ \/ ops' = StripOps(fs) /\ pc' = "strip"
         \/ UNCHANGED <<ops, pc>>
      /\ manifests' \in {manifests, Restrict(manifests, DOMAIN manifests \ {r})}
      /\ outcome' = "none" /\ dropped' = {h \in Harness : Range(Strippable({h})) \subseteq F}
      /\ UNCHANGED <<files, enabled, backups, chosen, written, stuck>>
  BY <1>2, <1>3 DEF UninstallSession, disk
<1>5. written = <<>>
  BY <1>1 DEF hiInv, Stages, Planning
<1>6. \A q \in DOMAIN manifests' : manifests'[q] \in SUBSET File
  BY <1>4 DEF hiInv, FilesTyped, Restrict
<1>7. FilesTyped'
  BY <1>4, <1>6, LooksFacts DEF hiInv, FilesTyped
<1>8. CASE ops' = StripOps(fs) /\ pc' = "strip"
  <2>1. ASSUME NEW h \in dropped', NEW f \in Range(FilesOf[h])
        PROVE  f \in File /\ (KindOf[f] # "flag" => f \in F)
    <3>1. h \in Harness /\ Range(Strippable({h})) \subseteq F
      BY <1>4
    <3>2. FilesOf[h] \in Seq(File)
      BY <3>1, InstallAssumption
    <3>3. f \in File
      BY <3>2, RangeOfSeq
    <3>4. Range(Strippable({h})) = {g \in UNION {Range(FilesOf[k]) : k \in {h}} : KindOf[g] # "flag"}
      BY <3>1, StrippableFacts
    <3>5. f \in UNION {Range(FilesOf[k]) : k \in {h}}
      OBVIOUS
    <3>6. QED
      BY <3>1, <3>3, <3>4, <3>5
  <2>2. QED
    BY <1>3, <1>4, <1>5, <1>7, <1>8, <2>1, StripBegins
<1>9. CASE UNCHANGED <<ops, pc>>
  <2>1. OpsTyped' /\ WritesUndoable'
    BY <1>4, <1>5, <1>9, NoneLeft DEF hiInv, OpsTyped, WritesUndoable
  <2>2. Stages'
    BY <1>1, <1>4, <1>5, <1>9 DEF Stages, Planning, Writing, Finishing
  <2>3. (StripsKeep /\ BackupsNamed /\ Unwritten /\ CopyKept /\ ChosenGated /\ ManifestsHold)'
    BY <1>1, <1>9 DEF StripsKeep, BackupsNamed, Unwritten, CopyKept, ChosenGated, ManifestsHold, Writing, Finishing
  <2>4. (FailedInstallUndone /\ UnwiredIsClean)'
    BY <1>4 DEF FailedInstallUndone, UnwiredIsClean
  <2>5. UserDataKept'
    BY <1>4, LooksFacts
  <2>6. QED
    BY <1>7, <2>1, <2>2, <2>3, <2>4, <2>5 DEF hiInv
<1>10. QED
  BY <1>4, <1>8, <1>9

\* The plan: one write for each file of the chosen harnesses that wants one.
LEMMA PlanKeeps ==
  ASSUME hiInv, Plan
  PROVE  hiInv'
<1>1. PICK P : P = {f \in File : Planned(KindOf[f], files[f], enabled)}
  OBVIOUS
<1>2. PICK all : all = FilesFor(chosen) /\ all \in Seq(File) /\ Once(all)
  BY FilesForFacts DEF hiInv, FilesTyped
<1>3. PICK fs : fs = Among(all, P) /\ fs \in Seq(File) /\ Once(fs) /\ Range(fs) = Range(all) \cap P
  BY <1>2, AmongFacts
<1>4. /\ pc = "plan"
      /\ \/ fs = <<>> /\ hiEnds("none") /\ UNCHANGED <<hiSeen, edited>>
         \/ /\ fs # <<>> /\ ops' = [i \in DOMAIN fs |-> WriteOp(fs[i])]
            /\ LooksAt(File \cup {"extensions"}) /\ pc' = "confirm" /\ outcome' = "none"
            /\ UNCHANGED <<chosen, dropped, copy, written>>
      /\ UNCHANGED <<files, enabled, backups, run, manifests, ledger, stuck>>
  BY <1>1, <1>2, <1>3 DEF Plan, disk, hiDaemon
<1>5. CASE hiEnds("none") /\ UNCHANGED <<hiSeen, edited>>
  <2>1. \A r \in DOMAIN manifests' : manifests'[r] \in SUBSET File
    BY <1>4 DEF hiInv, FilesTyped
  <2>2. QED
    BY <1>4, <1>5, <2>1, EndsKeep DEF history
<1>6. ASSUME fs # <<>>, ops' = [i \in DOMAIN fs |-> WriteOp(fs[i])], LooksAt(File \cup {"extensions"}),
             pc' = "confirm", outcome' = "none", UNCHANGED <<chosen, dropped, copy, written>>
      PROVE  hiInv'
  <2>1. FilesTyped' /\ UserDataKept' /\ \A f \in File : hiSeen'[f] = files[f]
    BY <1>4, <1>6, LooksFacts DEF hiInv, FilesTyped
  <2>2. /\ enabled \in BOOLEAN
        /\ \A f \in File : files[f] \in Fits(KindOf[f]) /\ files[f] \in Content
    BY DEF hiInv, FilesTyped
  <2>3. written = <<>> /\ written' = <<>>
    BY <1>4, <1>6 DEF hiInv, Stages, Planning
  <2>4. PICK n \in Nat : DOMAIN fs = 1 .. n /\ n >= 1 /\ \A i \in 1 .. n : fs[i] \in File /\ fs[i] \in P
    <3>1. Len(fs) \in Nat /\ DOMAIN fs = 1 .. Len(fs) /\ Len(fs) >= 1 /\ \A i \in 1 .. Len(fs) : fs[i] \in File
      BY <1>3, <1>6
    <3>2. \A i \in 1 .. Len(fs) : fs[i] \in P
      BY <1>3, <3>1 DEF Range
    <3>3. QED
      BY <3>1, <3>2
  <2>5. ASSUME NEW f \in P
        PROVE  /\ WriteOp(f) \in WriteOps /\ WriteOp(f).file = f
               /\ WriteOp(f).content \in Fits(KindOf[f]) /\ Gates(KindOf[f], WriteOp(f).content, enabled)
               /\ ~WriteOp(f).backup => files[f].text \in Unseen
    <3>1. f \in File /\ Planned(KindOf[f], files[f], enabled)
      BY <1>1
    <3>2. PICK c : c = Merged(KindOf[f], files[f], enabled)
      OBVIOUS
    <3>3. c \in Fits(KindOf[f]) /\ c \in Content /\ Gates(KindOf[f], c, enabled)
      <4>1. PICK k : k = KindOf[f] /\ files[f] \in Fits(k) /\ Planned(k, files[f], enabled)
        BY <2>2, <3>1
      <4>2. Merged(k, files[f], enabled) \in Fits(k) /\ Gates(k, Merged(k, files[f], enabled), enabled)
        BY <2>2, <4>1, MergeFacts
      <4>3. c \in Fits(k) => c \in Content
        BY DEF Fits
      <4>4. QED
        BY <3>2, <4>1, <4>2, <4>3
    <3>4. PICK b : b = BacksUp(KindOf[f], files[f])
      OBVIOUS
    <3>5. b \in BOOLEAN /\ (~b => files[f].text \in Unseen)
      <4>1. files[f].own \in BOOLEAN
        BY <2>2, <3>1 DEF Content
      <4>2. b \in BOOLEAN
        BY <3>4 DEF BacksUp
      <4>3. QED
        BY <2>2, <3>1, <3>4, <4>2, MergeFacts
    <3>6. WriteOp(f) = [file |-> f, content |-> c, backup |-> b]
      BY <3>2, <3>4 DEF WriteOp
    <3>7. QED
      BY <3>1, <3>3, <3>5, <3>6 DEF WriteOps
  <2>6. DOMAIN ops' = 1 .. n /\ \A i \in 1 .. n : ops'[i] = WriteOp(fs[i]) /\ ops'[i] \in WriteOps
    BY <1>6, <2>4, <2>5
  <2>7. /\ ops' \in Seq(AnyOp) /\ ops' # <<>>
    <3>1. \A i \in 1 .. n : ops'[i] \in AnyOp
      BY <2>6 DEF AnyOp
    <3>2. ops' = [i \in 1 .. n |-> ops'[i]]
      BY <1>6, <2>4
    <3>3. QED
      BY <2>4, <2>6, <3>1, <3>2
  <2>8. OneEach(ops')
    BY <1>3, <2>4, <2>5, <2>6 DEF OneEach, Once
  <2>9. ASSUME NEW op \in Range(ops')
        PROVE  \E f \in P : op = WriteOp(f)
    BY <2>4, <2>6 DEF Range
  <2>10. ASSUME NEW f \in Range(all), f \in P
         PROVE  f \in OpFiles'
    <3>1. f \in Range(fs)
      BY <1>3, <2>10
    <3>2. PICK i \in 1 .. n : f = fs[i]
      BY <2>4, <3>1 DEF Range
    <3>3. ops'[i] \in Range(ops') /\ ops'[i].file = f
      BY <2>4, <2>5, <2>6, <3>2 DEF Range
    <3>4. QED
      BY <3>3 DEF OpFiles
  <2>11. OpsTyped'
    <3>1. \A op \in Range(ops') : op.content \in Fits(KindOf[op.file])
      BY <2>5, <2>9
    <3>2. QED
      BY <2>3, <2>7, <2>8, <3>1, NoneLeft DEF hiInv, OpsTyped
  <2>12. Stages'
    <3>1. Range(ops') \subseteq WriteOps
      BY <2>5, <2>9
    <3>2. WrittenFiles' = {}
      BY <2>3, NoneLeft DEF WrittenFiles
    <3>3. QED
      BY <1>6, <2>3, <2>7, <3>1, <3>2 DEF Stages, Planning, Writing, Finishing
  <2>13. (StripsKeep /\ CopyKept /\ ManifestsHold)'
    BY <1>6 DEF StripsKeep, CopyKept, ManifestsHold
  <2>14. BackupsNamed'
    <3>1. \A op \in Range(ops') : ~op.backup => hiSeen'[op.file].text \in Unseen
      BY <1>1, <2>1, <2>5, <2>9
    <3>2. QED
      BY <3>1 DEF BackupsNamed
  <2>15. Unwritten'
    BY <1>4, <1>6, <2>1 DEF Unwritten
  <2>16. WritesUndoable'
    BY <2>3, NoneLeft DEF WritesUndoable
  <2>17. ChosenGated'
    <3>1. \A op \in Range(ops') : GatesCalls(op.file, op.content)'
      BY <1>4, <2>5, <2>9 DEF GatesCalls
    <3>2. ASSUME NEW f \in Range(all), f \notin OpFiles'
          PROVE  GatesCalls(f, files[f])' /\ (Clean(files'[f]) \/ KindOf[f] = "flag")
      <4>1. f \in File /\ f \notin P
        BY <1>2, <2>10, <3>2, RangeOfSeq
      <4>2. ~Planned(KindOf[f], files[f], enabled)
        BY <1>1, <4>1
      <4>3. Gates(KindOf[f], files[f], enabled) /\ (Clean(files[f]) \/ KindOf[f] = "flag")
        BY <2>2, <4>1, <4>2, MergeFacts
      <4>4. QED
        BY <1>4, <4>3 DEF GatesCalls
    <3>3. all = FilesFor(chosen')
      BY <1>2, <1>6
    <3>4. QED
      BY <3>1, <3>2, <3>3 DEF ChosenGated, GatesCalls
  <2>18. (FailedInstallUndone /\ UnwiredIsClean)'
    BY <1>6 DEF FailedInstallUndone, UnwiredIsClean
  <2>19. QED
    BY <2>1, <2>11, <2>12, <2>13, <2>14, <2>15, <2>16, <2>17, <2>18 DEF hiInv
<1>7. QED
  BY <1>4, <1>5, <1>6

\* What is to come of a failed or an unwired run is not known while files are written.
LEMMA WritingFacts ==
  ASSUME hiInv, Writing
  PROVE  /\ outcome # "failed" /\ outcome # "unwired" /\ ops # <<>>
         /\ Head(ops) \in WriteOps /\ Head(ops).file \in File /\ Head(ops).file \notin WrittenFiles
         /\ WrittenFiles \subseteq File
         /\ \A f \in Range(FilesFor(chosen)) : f \in File
<1>1. /\ outcome # "failed" /\ outcome # "unwired" /\ ops # <<>> /\ Range(ops) \subseteq WriteOps
      /\ OpFiles \cap WrittenFiles = {}
  BY DEF hiInv, Stages, Writing
<1>2. Head(ops) \in WriteOps /\ Head(ops).file \in File /\ Head(ops).file \in OpFiles
  BY <1>1, HeadOp DEF OpFiles
<1>3. WrittenFiles \subseteq File
  <2>1. Range(written) \subseteq [file : File, content : Content]
    BY RangeOfSeq DEF hiInv, OpsTyped
  <2>2. QED
    BY <2>1 DEF WrittenFiles
<1>4. \A f \in Range(FilesFor(chosen)) : f \in File
  <2>1. FilesFor(chosen) \in Seq(File)
    BY FilesForFacts DEF hiInv, FilesTyped
  <2>2. QED
    BY <2>1, RangeOfSeq
<1>5. QED
  BY <1>1, <1>2, <1>3, <1>4

LEMMA BackupKeeps ==
  ASSUME hiInv, Backup
  PROVE  hiInv'
<1>1. pc = "backup" /\ pc' = "rename" /\ Writing
  BY DEF Backup, Writing
<1>2. /\ outcome # "failed" /\ outcome # "unwired" /\ ops # <<>>
      /\ Head(ops) \in WriteOps /\ Head(ops).file \in File /\ Head(ops).file \notin WrittenFiles
      /\ WrittenFiles \subseteq File
      /\ \A f \in Range(FilesFor(chosen)) : f \in File
  BY <1>1, WritingFacts
<1>3. PICK f \in File : f = Head(ops).file /\ f \notin WrittenFiles
  BY <1>2
<1>4. /\ \/ /\ Head(ops).backup /\ backups' = backups \cup {[file |-> f, content |-> files[f]]}
            /\ copy' = files[f] /\ LooksAt({f})
         \/ /\ ~(Head(ops).backup /\ files[f].text # "absent")
            /\ copy' = NoFile /\ UNCHANGED <<backups, hiSeen, edited>>
      /\ UNCHANGED <<files, enabled, run, chosen, dropped, ops, written, manifests, ledger, stuck, outcome>>
  BY <1>3 DEF Backup, hiDaemon
<1>5. files[f] \in Fits(KindOf[f]) /\ hiSeen[f] \in Fits(KindOf[f])
  BY DEF hiInv, FilesTyped
<1>6. /\ \A op \in Range(ops) : ~op.backup /\ op.file \notin edited => hiSeen[op.file].text \in Unseen
      /\ \A g \in File : g \notin edited /\ g \notin WrittenFiles => files[g] = hiSeen[g]
  BY <1>1 DEF hiInv, BackupsNamed, Unwritten
<1>7. OpFiles' = OpFiles /\ WrittenFiles' = WrittenFiles /\ f \in OpFiles
  <2>1. Head(ops) \in Range(ops)
    BY <1>2, HeadOp
  <2>2. QED
    BY <1>3, <1>4, <2>1 DEF OpFiles, WrittenFiles
<1>8. OpsTyped'
  BY <1>4 DEF hiInv, OpsTyped
<1>9. Stages'
  BY <1>1, <1>2, <1>4, <1>7 DEF hiInv, Stages, Planning, Writing, Finishing
<1>10. (StripsKeep /\ ManifestsHold /\ FailedInstallUndone /\ UnwiredIsClean)'
  BY <1>1, <1>2, <1>4 DEF StripsKeep, ManifestsHold, FailedInstallUndone, UnwiredIsClean
<1>11. \A op \in Range(ops) : op.file = f => op = Head(ops)
  BY <1>2, <1>3, HeadOp
<1>12. \A w \in Range(written) : w.file \in File /\ w.file # f
  BY <1>2, <1>3 DEF WrittenFiles
<1>13. f # "extensions"
  BY <1>3, InstallAssumption
<1>14. CASE /\ Head(ops).backup /\ backups' = backups \cup {[file |-> f, content |-> files[f]]}
            /\ copy' = files[f] /\ LooksAt({f})
  <2>1. /\ hiSeen' \in [File -> Content] /\ \A g \in File : hiSeen'[g] \in Fits(KindOf[g])
        /\ \A g \in File : hiSeen'[g] = IF g \in {f} THEN files[g] ELSE hiSeen[g]
        /\ edited' = edited \ {f} /\ UserDataKept'
    BY <1>4, <1>14, LooksFacts
  <2>2. FilesTyped'
    BY <1>4, <2>1 DEF hiInv, FilesTyped
  <2>3. BackupsNamed'
    <3>1. ASSUME NEW op \in Range(ops), ~op.backup, op.file \notin edited' PROVE hiSeen'[op.file].text \in Unseen
      <4>1. op.file # f
        BY <1>11, <1>14, <3>1
      <4>2. op.file \in File
        BY <1>1 DEF hiInv, Stages, Writing, WriteOps
      <4>3. QED
        BY <1>6, <2>1, <3>1, <4>1, <4>2
    <3>2. QED
      BY <1>4, <3>1 DEF BackupsNamed
  <2>4. Unwritten'
    <3>1. \A g \in File : g \notin edited' /\ g \notin WrittenFiles => files[g] = hiSeen'[g]
      BY <1>6, <2>1
    <3>2. QED
      BY <1>1, <1>4, <1>7, <3>1 DEF Unwritten
  <2>5. CopyKept'
    <3>1. hiSeen'[f] = files[f] /\ copy' = files[f] /\ Head(ops') = Head(ops)
      BY <1>4, <1>14, <2>1
    <3>2. [file |-> f, content |-> hiSeen'[f]] \in backups'
      BY <1>14, <3>1
    <3>3. QED
      BY <1>3, <1>5, <3>1, <3>2 DEF CopyKept, Copies
  <2>6. WritesUndoable'
    BY <1>4, <1>12, <2>1 DEF hiInv, WritesUndoable, Copies
  <2>7. ChosenGated'
    <3>1. \A g : g \notin OpFiles => (g \in edited' <=> g \in edited)
      BY <1>7, <2>1
    <3>2. /\ \A op \in Range(ops) : GatesCalls(op.file, op.content)
          /\ \A g \in Range(FilesFor(chosen)) : g \notin edited /\ g \notin OpFiles =>
               GatesCalls(g, files[g]) /\ (Clean(files[g]) \/ KindOf[g] = "flag" \/ g \in WrittenFiles)
      BY <1>1 DEF hiInv, ChosenGated
    <3>3. QED
      BY <1>4, <1>7, <1>13, <2>1, <3>1, <3>2 DEF ChosenGated, GatesCalls
  <2>8. QED
    BY <1>8, <1>9, <1>10, <2>1, <2>2, <2>3, <2>4, <2>5, <2>6, <2>7 DEF hiInv
<1>15. CASE /\ ~(Head(ops).backup /\ files[f].text # "absent")
            /\ copy' = NoFile /\ UNCHANGED <<backups, hiSeen, edited>>
  <2>1. FilesTyped' /\ UserDataKept' /\ WritesUndoable'
    BY <1>4, <1>15 DEF hiInv, FilesTyped, UserDataKept, WritesUndoable, Copies
  <2>2. BackupsNamed' /\ Unwritten'
    BY <1>1, <1>4, <1>6, <1>7, <1>15 DEF BackupsNamed, Unwritten
  <2>3. f \notin edited => hiSeen[f].text \in Unseen
    <3>1. CASE ~Head(ops).backup
      BY <1>2, <1>3, <1>6, <3>1, HeadOp
    <3>2. CASE files[f].text = "absent"
      BY <1>3, <1>6, <3>2 DEF Unseen
    <3>3. QED
      BY <1>15, <3>1, <3>2
  <2>4. CopyKept'
    <3>1. copy' \in Fits(KindOf[f])
      BY <1>5, <1>15, FileFacts
    <3>2. QED
      BY <1>3, <1>4, <1>15, <2>3, <3>1 DEF CopyKept, Copies
  <2>5. ChosenGated'
    BY <1>1, <1>4, <1>7, <1>15 DEF hiInv, ChosenGated, GatesCalls
  <2>6. QED
    BY <1>8, <1>9, <1>10, <2>1, <2>2, <2>4, <2>5 DEF hiInv
<1>16. QED
  BY <1>4, <1>14, <1>15

LEMMA WriteKeeps ==
  ASSUME hiInv, Write
  PROVE  hiInv'
<1>1. pc = "rename" /\ Writing
  BY DEF Write, Writing
<1>2. /\ outcome # "failed" /\ outcome # "unwired" /\ ops # <<>>
      /\ Head(ops) \in WriteOps /\ Head(ops).file \in File /\ Head(ops).file \notin WrittenFiles
      /\ \A f \in Range(FilesFor(chosen)) : f \in File
  BY <1>1, WritingFacts
<1>3. PICK f \in File : f = Head(ops).file
  BY <1>2
<1>4. PICK c : c = Head(ops).content /\ c \in Fits(KindOf[f])
  BY <1>2, <1>3, HeadOp
<1>5. /\ files' = [files EXCEPT ![f] = c] /\ written' = Append(written, [file |-> f, content |-> copy])
      /\ ops' = Tail(ops) /\ pc' = IF Len(ops) = 1 THEN "apply" ELSE "backup"
      /\ UNCHANGED <<enabled, backups, chosen, dropped, hiSeen, edited, stuck, manifests, outcome>>
  BY <1>3, <1>4 DEF Write, hiDaemon, history
<1>6. FilesTyped' /\ files'[f] = c /\ \A g \in File : g # f => files'[g] = files[g]
  BY <1>4, <1>5, PutFacts DEF hiInv
<1>7. /\ Range(ops) = {Head(ops)} \cup Range(ops') /\ ops' \in Seq(AnyOp) /\ OneEach(ops')
      /\ \A op \in Range(ops') : op.file # f
  BY <1>2, <1>3, <1>5, HeadOp
<1>8. (pc' = "apply" /\ ops' = <<>>) \/ (pc' = "backup" /\ ops' # <<>>)
  <2>1. ops \in Seq(AnyOp)
    BY DEF hiInv, OpsTyped
  <2>2. QED
    BY <1>2, <1>5, <2>1, HeadFacts
<1>9. PICK w : w = [file |-> f, content |-> copy] /\ copy \in Fits(KindOf[f])
  BY <1>1, <1>3 DEF hiInv, CopyKept
<1>10. w \in [file : File, content : Content] /\ w.file = f /\ w.content = copy
  BY <1>9 DEF Fits
<1>11. /\ written' \in Seq([file : File, content : Content])
       /\ Range(written') = Range(written) \cup {w}
  <2>1. PICK R : R = [file : File, content : Content]
    OBVIOUS
  <2>2. written \in Seq(R) /\ w \in R
    BY <1>10, <2>1 DEF hiInv, OpsTyped
  <2>3. written' = Append(written, w)
    BY <1>5, <1>9
  <2>4. Append(written, w) \in Seq(R) /\ Range(Append(written, w)) = Range(written) \cup {w}
    BY <2>2, AppendFacts
  <2>5. QED
    BY <2>1, <2>3, <2>4
<1>12. OpFiles = {f} \cup OpFiles' /\ f \notin OpFiles' /\ WrittenFiles' = WrittenFiles \cup {f}
  BY <1>3, <1>7, <1>10, <1>11 DEF OpFiles, WrittenFiles
<1>13. f \notin edited => /\ Copies(f, copy)
                          /\ \/ hiSeen[f].text \in Unseen
                             \/ [file |-> f, content |-> hiSeen[f]] \in backups
  BY <1>1, <1>3 DEF hiInv, CopyKept
<1>14. OpsTyped'
  BY <1>7, <1>9, <1>10, <1>11 DEF hiInv, OpsTyped
<1>15. Stages'
  BY <1>1, <1>2, <1>5, <1>7, <1>8, <1>12 DEF hiInv, Stages, Planning, Writing, Finishing
<1>16. (StripsKeep /\ CopyKept /\ ManifestsHold /\ FailedInstallUndone /\ UnwiredIsClean)'
  BY <1>2, <1>5, <1>8 DEF StripsKeep, CopyKept, ManifestsHold, FailedInstallUndone, UnwiredIsClean
<1>17. BackupsNamed'
  BY <1>1, <1>5, <1>7 DEF hiInv, BackupsNamed
<1>18. Unwritten'
  <2>1. \A g \in File : g \notin edited /\ g \notin WrittenFiles' => files'[g] = hiSeen[g]
    BY <1>1, <1>6, <1>12 DEF hiInv, Unwritten
  <2>2. QED
    BY <1>5, <1>8, <2>1 DEF Unwritten
<1>19. WritesUndoable'
  BY <1>5, <1>10, <1>11, <1>13 DEF hiInv, WritesUndoable, Copies
<1>20. ChosenGated'
  <2>1. /\ \A op \in Range(ops) : GatesCalls(op.file, op.content)
        /\ \A g \in Range(FilesFor(chosen)) : g \notin edited /\ g \notin OpFiles =>
             GatesCalls(g, files[g]) /\ (Clean(files[g]) \/ KindOf[g] = "flag" \/ g \in WrittenFiles)
    BY <1>1 DEF hiInv, ChosenGated
  <2>2. GatesCalls(f, c)
    BY <1>3, <1>4, <1>7, <2>1
  <2>3. QED
    BY <1>2, <1>5, <1>6, <1>7, <1>12, <2>1, <2>2 DEF ChosenGated, GatesCalls
<1>21. UserDataKept'
  <2>1. SUFFICES ASSUME NEW g \in File, g \notin edited' PROVE DataKept(g)'
    BY KeptIs DEF UserDataKept, DataKept
  <2>2. DataKept(g)
    BY <1>5, <2>1, KeptIs DEF hiInv
  <2>3. CASE g = f
    <3>1. hiSeen[f] \in Fits(KindOf[f]) /\ f \notin edited
      BY <1>5, <2>1, <2>3 DEF hiInv, FilesTyped
    <3>2. CASE hiSeen[f].text \in Unseen
      BY <1>5, <2>3, <3>1, <3>2, FileFacts DEF DataKept
    <3>3. CASE [file |-> f, content |-> hiSeen[f]] \in backups
      BY <1>5, <2>3, <3>3 DEF DataKept
    <3>4. QED
      BY <1>13, <3>1, <3>2, <3>3
  <2>4. CASE g # f
    BY <1>5, <1>6, <2>2, <2>4 DEF DataKept
  <2>5. QED
    BY <2>3, <2>4
<1>22. QED
  BY <1>6, <1>14, <1>15, <1>16, <1>17, <1>18, <1>19, <1>20, <1>21 DEF hiInv

LEMMA RollBackKeeps ==
  ASSUME hiInv, NEW restored \in BOOLEAN, RollBack(restored)
  PROVE  hiInv'
<1>1. pc = "rollback" /\ written # <<>>
  BY DEF RollBack
<1>2. /\ written \in Seq([file : File, content : Content])
      /\ \A w \in Range(written) : w.content \in Fits(KindOf[w.file])
      /\ \A w \in Range(written) : w.file \notin edited => Copies(w.file, w.content)
  BY DEF hiInv, OpsTyped, WritesUndoable
<1>3. /\ Last(written) \in [file : File, content : Content]
      /\ Front(written) \in Seq([file : File, content : Content])
      /\ Range(written) = {Last(written)} \cup Range(Front(written))
  BY <1>1, <1>2, LastFacts
<1>4. PICK f \in File : f = Last(written).file
  BY <1>3
<1>5. PICK c : c = Last(written).content
  OBVIOUS
<1>6. c \in Fits(KindOf[f]) /\ (f \notin edited => Copies(f, c))
  BY <1>2, <1>3, <1>4, <1>5
<1>7. /\ \/ files' = [files EXCEPT ![f] = c] /\ UNCHANGED stuck
         \/ stuck' = stuck \cup {f} /\ UNCHANGED files
      /\ written' = Front(written)
      /\ UNCHANGED <<enabled, backups, pc, chosen, dropped, ops, hiSeen, edited, manifests, outcome>>
  BY <1>4, <1>5 DEF RollBack, hiDaemon
<1>8. /\ FilesTyped' /\ (UNCHANGED files \/ files'[f] = c)
      /\ \A g \in File : g # f => files'[g] = files[g]
  <2>1. CASE UNCHANGED files
    BY <1>7, <2>1 DEF hiInv, FilesTyped
  <2>2. CASE files' = [files EXCEPT ![f] = c]
    BY <1>6, <1>7, <2>2, PutFacts DEF hiInv
  <2>3. QED
    BY <1>7, <2>1, <2>2
<1>9. WrittenFiles = {f} \cup WrittenFiles'
  BY <1>3, <1>4, <1>7 DEF WrittenFiles
<1>10. OpsTyped' /\ WritesUndoable'
  BY <1>2, <1>3, <1>7 DEF hiInv, OpsTyped, WritesUndoable, Copies
<1>11. outcome # "failed" /\ outcome # "unwired"
  BY <1>1 DEF hiInv, Stages
<1>12. Stages'
  BY <1>1, <1>7, <1>11 DEF Stages, Planning, Writing, Finishing
<1>13. (StripsKeep /\ BackupsNamed /\ CopyKept /\ ChosenGated /\ ManifestsHold /\ FailedInstallUndone /\ UnwiredIsClean)'
  BY <1>1, <1>7, <1>11 DEF StripsKeep, BackupsNamed, CopyKept, ChosenGated, ManifestsHold, FailedInstallUndone,
                           UnwiredIsClean, Writing, Finishing
<1>14. hiSeen[f] \in Fits(KindOf[f])
  BY DEF hiInv, FilesTyped
<1>15. Unwritten'
  <2>1. ASSUME NEW g \in File, g \notin edited, g \notin WrittenFiles', g \notin stuck' PROVE Restored(g)'
    <3>1. CASE g = f
      <4>1. files'[f] = c /\ Copies(f, c)
        BY <1>6, <1>7, <1>8, <2>1, <3>1 DEF hiInv, FilesTyped
      <4>2. CASE c = hiSeen[f]
        BY <1>7, <3>1, <4>1, <4>2 DEF Restored
      <4>3. CASE c = NoFile /\ hiSeen[f].text \in Unseen
        <5>1. c.text = "absent" /\ (hiSeen[f].text = "absent" => hiSeen[f] = NoFile)
          BY <1>14, <4>3, FileFacts DEF NoFile
        <5>2. QED
          BY <1>7, <3>1, <4>1, <4>3, <5>1 DEF Restored, Unseen
      <4>4. QED
        BY <4>1, <4>2, <4>3 DEF Copies
    <3>2. CASE g # f
      <4>1. g \notin WrittenFiles /\ g \notin stuck
        BY <1>7, <1>9, <2>1, <3>2
      <4>2. Restored(g)
        BY <1>1, <2>1, <4>1 DEF hiInv, Unwritten
      <4>3. QED
        BY <1>7, <1>8, <3>2, <4>2 DEF Restored
    <3>3. QED
      BY <3>1, <3>2
  <2>2. QED
    BY <1>1, <1>7, <2>1 DEF Unwritten, Restored, Writing
<1>16. UserDataKept'
  <2>1. SUFFICES ASSUME NEW g \in File, g \notin edited' PROVE DataKept(g)'
    BY KeptIs DEF UserDataKept, DataKept
  <2>2. DataKept(g)
    BY <1>7, <2>1, KeptIs DEF hiInv
  <2>3. CASE UNCHANGED files \/ g # f
    BY <1>7, <1>8, <2>2, <2>3 DEF DataKept
  <2>4. CASE g = f /\ files'[f] = c
    <3>1. Copies(f, c)
      BY <1>6, <1>7, <2>1, <2>4
    <3>2. UserPart(c) = UserPart(hiSeen[f]) \/ UserPart(hiSeen[f]) = UserPart(NoFile)
      BY <1>14, <3>1, FileFacts DEF Copies
    <3>3. QED
      BY <1>7, <2>4, <3>2 DEF DataKept
  <2>5. QED
    BY <1>8, <2>3, <2>4
<1>17. QED
  BY <1>8, <1>10, <1>12, <1>13, <1>15, <1>16 DEF hiInv

\* An edit leaves a file of its kind.
LEMMA EditsFit ==
  ASSUME FilesTyped, NEW f \in File, NEW c \in Edits(f)
  PROVE  c \in Fits(KindOf[f])
<1>1. PICK base : base = IF files[f].text = "ok" THEN files[f] ELSE NoFile
  OBVIOUS
<1>2. base \in Fits(KindOf[f]) /\ base \in Content
  BY <1>1, FileFacts DEF FilesTyped
<1>3. CASE c \in {NoFile, Broken}
  BY <1>2, <1>3, FileFacts
<1>4. CASE \E e \in UserEntry :
             c = [base EXCEPT !.text = "ok", !.entry = e, !.wrapped = FALSE, !.own = @ /\ KindOf[f] # "flag"]
  <2>1. PICK e \in UserEntry :
           c = [base EXCEPT !.text = "ok", !.entry = e, !.wrapped = FALSE, !.own = @ /\ KindOf[f] # "flag"]
    BY <1>4
  <2>2. /\ c.text = "ok" /\ c.entry = e /\ c.wrapped = FALSE /\ c.status = base.status
        /\ c.own = (base.own /\ KindOf[f] # "flag") /\ c \in Content
    BY <1>2, <2>1 DEF Content
  <2>3. QED
    BY <1>2, <2>2 DEF Fits
<1>5. QED
  BY <1>1, <1>3, <1>4 DEF Edits

\* The user edits a file, or enables or disables the extensions.
LEMMA EditKeeps ==
  ASSUME hiInv, (\E f \in File : \E c \in Edits(f) : Edit(f, c)) \/ Toggle
  PROVE  hiInv'
<1>1. PICK x : /\ edited' = edited \cup {x} /\ (x \in File \/ x = "extensions")
               /\ \A g \in File : g # x => files'[g] = files[g]
               /\ x # "extensions" => enabled' = enabled
               /\ UNCHANGED <<backups, run, pc, chosen, dropped, ops, copy, written, manifests, ledger, hiSeen, stuck,
                              outcome>>
               /\ FilesTyped'
  <2>1. CASE Toggle
    <3>1. /\ edited' = edited \cup {"extensions"} /\ files' = files /\ enabled' = ~enabled
          /\ UNCHANGED <<backups, run, pc, chosen, dropped, ops, copy, written, manifests, ledger, hiSeen, stuck,
                         outcome>>
      BY <2>1 DEF Toggle, cli, hiDaemon
    <3>2. FilesTyped'
      BY <3>1 DEF hiInv, FilesTyped
    <3>3. QED
      BY <3>1, <3>2
  <2>2. ASSUME NEW f \in File, NEW c \in Edits(f), Edit(f, c)
        PROVE  /\ edited' = edited \cup {f}
               /\ \A g \in File : g # f => files'[g] = files[g]
               /\ enabled' = enabled
               /\ UNCHANGED <<backups, run, pc, chosen, dropped, ops, copy, written, manifests, ledger, hiSeen, stuck,
                              outcome>>
               /\ FilesTyped'
    <3>1. /\ edited' = edited \cup {f} /\ files' = [files EXCEPT ![f] = c]
          /\ UNCHANGED <<enabled, backups, run, pc, chosen, dropped, ops, copy, written, manifests, ledger, hiSeen,
                         stuck, outcome>>
      BY <2>2 DEF Edit, cli, hiDaemon
    <3>2. c \in Fits(KindOf[f])
      BY EditsFit DEF hiInv
    <3>3. QED
      BY <3>1, <3>2, PutFacts DEF hiInv
  <2>3. CASE \E f \in File : \E c \in Edits(f) : Edit(f, c)
    <3>1. PICK f \in File : \E c \in Edits(f) : Edit(f, c)
      BY <2>3
    <3>2. PICK c \in Edits(f) : Edit(f, c)
      BY <3>1
    <3>3. QED
      BY <2>2, <3>2
  <2>4. QED
    BY <2>1, <2>3
<1>2. \A g \in File : g \notin edited' => g \notin edited /\ files'[g] = files[g]
  BY <1>1
<1>3. \A g : g \notin edited' => g \notin edited
  BY <1>1
<1>4. OpFiles' = OpFiles /\ WrittenFiles' = WrittenFiles
  BY <1>1 DEF OpFiles, WrittenFiles
<1>5. OpsTyped' /\ ManifestsHold'
  BY <1>1, <1>4 DEF hiInv, OpsTyped, ManifestsHold
<1>6. Stages'
  BY <1>1, <1>4 DEF hiInv, Stages, Planning, Writing, Finishing
<1>7. /\ \A h \in dropped : \A g \in Range(FilesOf[h]) : g \in File
      /\ \A g \in Range(FilesFor(chosen)) : g \in File
  <2>1. \A h \in dropped : FilesOf[h] \in Seq(File)
    BY InstallAssumption DEF hiInv, FilesTyped
  <2>2. FilesFor(chosen) \in Seq(File)
    BY FilesForFacts DEF hiInv, FilesTyped
  <2>3. QED
    BY <2>1, <2>2, RangeOfSeq
<1>8. StripsKeep'
  BY <1>1, <1>2, <1>3, <1>4, <1>7 DEF hiInv, StripsKeep
<1>9. BackupsNamed' /\ CopyKept' /\ WritesUndoable'
  BY <1>1, <1>3 DEF hiInv, BackupsNamed, CopyKept, WritesUndoable, Copies, Writing
<1>10. Unwritten'
  BY <1>1, <1>2, <1>4 DEF hiInv, Unwritten, Restored, Writing
<1>11. ChosenGated'
  <2>1. ASSUME NEW g, NEW c, GatesCalls(g, c)
        PROVE  Gates(KindOf[g], c, enabled') \/ (KindOf[g] = "bundle" /\ "extensions" \in edited')
    <3>1. CASE KindOf[g] = "bundle" /\ "extensions" \in edited
      BY <1>1, <3>1
    <3>2. CASE Gates(KindOf[g], c, enabled)
      <4>1. CASE x # "extensions"
        BY <1>1, <3>2, <4>1
      <4>2. CASE x = "extensions" /\ KindOf[g] = "bundle"
        BY <1>1, <4>2
      <4>3. CASE KindOf[g] # "bundle"
        BY <3>2, <4>3, GatesFacts
      <4>4. QED
        BY <4>1, <4>2, <4>3
    <3>3. QED
      BY <2>1, <3>1, <3>2 DEF GatesCalls
  <2>2. ASSUME Writing \/ Finishing
        PROVE  /\ \A op \in Range(ops) : GatesCalls(op.file, op.content)
               /\ \A g \in Range(FilesFor(chosen)) : g \notin edited /\ g \notin OpFiles =>
                    GatesCalls(g, files[g]) /\ (Clean(files[g]) \/ KindOf[g] = "flag" \/ g \in WrittenFiles)
    BY <2>2 DEF hiInv, ChosenGated
  <2>3. Writing' = Writing /\ Finishing' = Finishing
    BY <1>1 DEF Writing, Finishing
  <2>4. SUFFICES ASSUME Writing \/ Finishing PROVE ChosenGated'
    BY <2>3 DEF ChosenGated
  <2>5. \A op \in Range(ops') :
          Gates(KindOf[op.file], op.content, enabled') \/ (KindOf[op.file] = "bundle" /\ "extensions" \in edited')
    BY <1>1, <2>1, <2>2, <2>4
  <2>6. \A g \in Range(FilesFor(chosen')) : g \notin edited' /\ g \notin OpFiles' =>
          /\ Gates(KindOf[g], files'[g], enabled') \/ (KindOf[g] = "bundle" /\ "extensions" \in edited')
          /\ Clean(files'[g]) \/ KindOf[g] = "flag" \/ g \in WrittenFiles'
    BY <1>1, <1>2, <1>4, <1>7, <2>1, <2>2, <2>4
  <2>7. QED
    BY <2>5, <2>6 DEF ChosenGated, GatesCalls
<1>12. UserDataKept'
  <2>1. SUFFICES ASSUME NEW g \in File, g \notin edited' PROVE DataKept(g)'
    BY KeptIs DEF UserDataKept, DataKept
  <2>2. DataKept(g) /\ files'[g] = files[g]
    BY <1>2, <2>1, KeptIs DEF hiInv
  <2>3. QED
    BY <1>1, <2>2 DEF DataKept
<1>13. FailedInstallUndone'
  BY <1>1, <1>2 DEF hiInv, FailedInstallUndone
<1>14. UnwiredIsClean'
  BY <1>1, <1>2, <1>3, <1>7 DEF hiInv, UnwiredIsClean
<1>15. QED
  BY <1>1, <1>5, <1>6, <1>8, <1>9, <1>10, <1>11, <1>12, <1>13, <1>14 DEF hiInv

LEMMA hiInvOK == hiSpec => []hiInv
<1>1. hiInv /\ [hiNext]_hiVars => hiInv'
  <2> SUFFICES ASSUME hiInv, [hiNext]_hiVars PROVE hiInv'
    OBVIOUS
  <2>1. CASE \E S \in Picks : Start(S)
    BY <2>1, StartKeeps
  <2>2. CASE \E recorded \in BOOLEAN : Unwire(recorded)
    BY <2>2, UnwireKeeps
  <2>3. CASE Strip
    BY <2>3, StripKeeps
  <2>4. CASE Unwired \/ StripBreaks
    BY <2>4, UnwiredKeeps
  <2>5. CASE Plan
    BY <2>5, PlanKeeps
  <2>6. CASE Confirm \/ WriteBreaks
    BY <2>6, ConfirmKeeps
  <2>7. CASE Quit \/ RolledBack \/ hiFinish \/ Crash
    BY <2>7, EndingsKeep
  <2>8. CASE Backup
    BY <2>8, BackupKeeps
  <2>9. CASE Write
    BY <2>9, WriteKeeps
  <2>10. CASE \E restored \in BOOLEAN : RollBack(restored)
    BY <2>10, RollBackKeeps
  <2>11. CASE \/ \E ok \in BOOLEAN : WriteManifest(ok)
              \/ \E ok, deleted \in BOOLEAN : Record(ok, deleted)
    BY <2>11, ApplyKeeps
  <2>12. CASE \E r \in 1 .. MaxRuns, recorded \in BOOLEAN : UninstallSession(r, recorded)
    BY <2>12, UninstallKeeps
  <2>13. CASE (\E f \in File : \E c \in Edits(f) : Edit(f, c)) \/ Toggle
    BY <2>13, EditKeeps
  <2>14. CASE UNCHANGED hiVars
    <3>1. /\ UNCHANGED <<files, enabled, backups, run, edits, pc, chosen, dropped, ops, copy, written>>
          /\ UNCHANGED <<manifests, ledger, hiSeen, edited, stuck, outcome>>
      BY <2>14 DEF hiVars, disk, cli, hiDaemon, history
    <3>2. (OpsTyped /\ WritesUndoable /\ UserDataKept)'
      BY <3>1, FilesFrame
    <3>3. OpFiles' = OpFiles /\ WrittenFiles' = WrittenFiles
      BY <3>1 DEF OpFiles, WrittenFiles
    <3>4. (FilesTyped /\ StripsKeep /\ BackupsNamed /\ CopyKept /\ FailedInstallUndone /\ UnwiredIsClean)'
      BY <3>1, <3>3 DEF hiInv, FilesTyped, StripsKeep, BackupsNamed, CopyKept, Copies, FailedInstallUndone,
                        UnwiredIsClean, Writing
    <3>5. (Stages /\ ManifestsHold)'
      BY <3>1, <3>3 DEF hiInv, Stages, ManifestsHold, Planning, Writing, Finishing
    <3>6. (Unwritten /\ ChosenGated)'
      BY <3>1, <3>3 DEF hiInv, Unwritten, Restored, ChosenGated, GatesCalls, Writing, Finishing
    <3>7. QED
      BY <3>2, <3>4, <3>5, <3>6 DEF hiInv
  <2>15. QED
    BY <2>1, <2>2, <2>3, <2>4, <2>5, <2>6, <2>7, <2>8, <2>9, <2>10, <2>11, <2>12, <2>13, <2>14 DEF hiNext
<1>2. QED
  BY <1>1, hiInitOK, PTL DEF hiSpec

\* Whatever fails, whenever the CLI dies and whatever the user edits meanwhile,
\* what the CLI has seen of the user's in a configuration file is there or in a
\* backup (executeFileOps and executeUninstallOps of install-fs.ts).
THEOREM UserDataAlwaysKept == hiSpec => []UserDataKept
<1>1. hiInv => UserDataKept
  BY DEF hiInv
<1>2. QED
  BY <1>1, hiInvOK, PTL

\* After the rollback of executeFileOps every file is as the CLI saw it, but for
\* those the user has edited since or the rollback could not restore.
THEOREM FailedAlwaysUndone == hiSpec => []FailedInstallUndone
<1>1. hiInv => FailedInstallUndone
  BY DEF hiInv
<1>2. QED
  BY <1>1, hiInvOK, PTL

\* What a run reports as done is wired, recorded and in the ledger, and what it
\* reports as unwired is clean (runInstall of install.ts, installApplyHandler).
THEOREM ReportsAlwaysHold == hiSpec => []ReportsHold
<1>1. hiInv => ReportsHold
  <2> SUFFICES ASSUME hiInv PROVE DoneMeansWired /\ UnwiredIsClean
    BY DEF ReportsHold
  <2>1. SUFFICES ASSUME pc = "done" PROVE DoneMeansWired
    BY DEF hiInv, DoneMeansWired
  <2>2. /\ run \in DOMAIN manifests /\ manifests[run] = WrittenFiles
        /\ [what |-> "apply", run |-> run] \in ledger
    BY <2>1 DEF hiInv, ManifestsHold
  <2>3. OpFiles = {}
    BY <2>1, NoneLeft DEF hiInv, Stages, Finishing, OpFiles
  <2>4. \A f \in Range(FilesFor(chosen)) : f \notin edited =>
          GatesCalls(f, files[f]) /\ (Clean(files[f]) \/ KindOf[f] = "flag" \/ f \in WrittenFiles)
    BY <2>1, <2>3 DEF hiInv, ChosenGated, Finishing
  <2>5. QED
    BY <2>2, <2>4 DEF DoneMeansWired, GatesCalls
<1>2. QED
  BY <1>1, hiInvOK, PTL

-----------------------------------------------------------------------------
(* The MCP proxy and the MCP server, for any number of lines                 *)

ProxyLine == {"call", "request", "note"}
ProxyAnswer == [id : Nat, by : {"child", "proxy", "server"}]

pxTypeOK ==
  /\ pxLines \in Seq(ProxyLine) /\ Len(pxLines) <= MaxLines
  /\ pxAt \in Nat /\ 1 <= pxAt /\ pxAt <= Len(pxLines) + 1
  /\ pxAsking \in BOOLEAN /\ (pxAsking => pxAt <= Len(pxLines) /\ pxLines[pxAt] = "call")
  /\ pxDenied \subseteq Done
  /\ pxChild \in Seq(Nat) /\ pxOut \in Seq(ProxyAnswer)
  /\ pxPending \subseteq Nat /\ pxPosts \subseteq Nat

\* What an answer on the wire says of the line it answers.
Answers(n) == [id |-> n, by |-> "child"] \in ToSet(pxOut)
AnswersKnown ==
  /\ ToSet(pxChild) = Done \ pxDenied
  /\ \A i \in DOMAIN pxOut :
       /\ pxOut[i].by = "child" => pxOut[i].id \in Done \ pxDenied
       /\ pxOut[i].by = "proxy" => pxOut[i].id \in pxDenied

\* Which calls wait for their answer, but for ids that the child uses as well.
CallsCounted ==
  \A n \in Nat \ ServerIds :
    /\ n \in pxPending <=> n \in Done \ pxDenied /\ pxLines[n] = "call" /\ ~Answers(n)
    /\ n \in pxPosts <=> n \in Done \ pxDenied /\ pxLines[n] = "call" /\ Answers(n)

pxInv == pxTypeOK /\ AnswersKnown /\ CallsCounted /\ ChildSeesInOrder /\ OneAnswer

LEMMA pxStart == pxInit => pxInv
<1> SUFFICES ASSUME pxInit PROVE pxInv
  OBVIOUS
<1>1. pxTypeOK
  <2>1. /\ pxLines = <<>> /\ pxAt = 1 /\ pxAsking = FALSE /\ pxDenied = {}
        /\ pxChild = <<>> /\ pxPending = {} /\ pxOut = <<>> /\ pxPosts = {}
    BY DEF pxInit
  <2>2. <<>> \in Seq(ProxyLine) /\ <<>> \in Seq(Nat) /\ <<>> \in Seq(ProxyAnswer)
    OBVIOUS
  <2>3. Len(pxLines) = 0
    BY <2>1
  <2>4. Len(pxLines) <= MaxLines /\ pxAt <= Len(pxLines) + 1 /\ pxAt \in Nat
    BY <2>1, <2>3, ProxyAssumption
  <2>5. pxLines \in Seq(ProxyLine) /\ pxChild \in Seq(Nat) /\ pxOut \in Seq(ProxyAnswer)
    BY <2>1, <2>2, Zenon
  <2>6. 1 <= pxAt /\ pxAsking = FALSE /\ pxDenied \subseteq Done /\ pxPending \subseteq Nat /\ pxPosts \subseteq Nat
    BY <2>1
  <2>7. QED
    BY <2>4, <2>5, <2>6, Zenon DEF pxTypeOK
<1>2. AnswersKnown /\ CallsCounted /\ OneAnswer
  BY DEF pxInit, AnswersKnown, CallsCounted, OneAnswer, Done, ToSet, Answers
<1>3. ChildSeesInOrder
  <2>1. Done = 1 .. 0 /\ Done \ pxDenied = {} /\ pxChild = <<>>
    BY DEF pxInit, Done
  <2>2. Among([n \in 1 .. 0 |-> n], {}) = <<>>
    BY ChosenFacts DEF Chosen
  <2>3. QED
    BY <2>1, <2>2, Zenon DEF ChildSeesInOrder
<1>4. QED
  BY <1>1, <1>2, <1>3 DEF pxInv

\* What the next line adds for the child.
LEMMA ChildInOrder ==
  ASSUME pxTypeOK, ChildSeesInOrder,
         pxAt' = pxAt + 1,
         \/ pxDenied' = pxDenied /\ pxChild' = Append(pxChild, pxAt)
         \/ pxDenied' = pxDenied \cup {pxAt} /\ pxChild' = pxChild
  PROVE  ChildSeesInOrder'
<1>1. pxAt - 1 \in Nat /\ (pxAt - 1) + 1 = pxAt /\ pxAt' - 1 = pxAt
  BY DEF pxTypeOK
<1>2. Done = 1 .. pxAt - 1 /\ Done' = 1 .. pxAt /\ pxDenied \subseteq Done /\ pxAt \notin Done
  BY <1>1 DEF pxTypeOK, Done
<1>3. pxChild = Chosen(pxAt - 1, Done \ pxDenied)
  BY <1>2 DEF ChildSeesInOrder, Chosen
<1>4. Chosen(pxAt - 1, Done \ pxDenied) = Chosen(pxAt - 1, Done' \ pxDenied')
  <2>1. \A m \in 1 .. pxAt - 1 : m \in Done \ pxDenied <=> m \in Done' \ pxDenied'
    BY <1>1, <1>2
  <2>2. PICK S : S = Done \ pxDenied
    OBVIOUS
  <2>3. PICK T : T = Done' \ pxDenied'
    OBVIOUS
  <2>4. Chosen(pxAt - 1, S) = Chosen(pxAt - 1, T)
    BY <1>1, <2>1, <2>2, <2>3, ChosenFacts
  <2>5. QED
    BY <2>2, <2>3, <2>4
<1>5. Chosen(pxAt, Done' \ pxDenied') =
        IF pxAt \in Done' \ pxDenied' THEN Append(pxChild, pxAt) ELSE pxChild
  <2>1. PICK T : T = Done' \ pxDenied'
    OBVIOUS
  <2>2. PICK n : n = pxAt - 1
    OBVIOUS
  <2>3. Chosen(n + 1, T) = IF n + 1 \in T THEN Append(Chosen(n, T), n + 1) ELSE Chosen(n, T)
    BY <1>1, <2>2, ChosenFacts
  <2>4. n + 1 = pxAt /\ Chosen(n, T) = pxChild
    BY <1>1, <1>3, <1>4, <2>1, <2>2
  <2>5. QED
    BY <2>1, <2>3, <2>4
<1>6. pxAt \in Done' \ pxDenied' <=> pxDenied' = pxDenied
  BY <1>1, <1>2
<1>7. pxChild' = Chosen(pxAt, Done' \ pxDenied')
  <2>1. CASE pxDenied' = pxDenied /\ pxChild' = Append(pxChild, pxAt)
    BY <1>5, <1>6, <2>1
  <2>2. CASE pxDenied' = pxDenied \cup {pxAt} /\ pxChild' = pxChild
    <3>1. pxDenied' # pxDenied
      BY <1>2, <2>2
    <3>2. QED
      BY <1>5, <1>6, <2>2, <3>1
  <2>3. QED
    BY <2>1, <2>2
<1>8. QED
  BY <1>2, <1>7 DEF ChildSeesInOrder, Chosen

\* A line that goes to the child, or a refused one whose answer is the proxy's.
LEMMA LinePassed ==
  ASSUME pxInv, pxAt <= Len(pxLines), pxAt' = pxAt + 1, pxAsking' = FALSE,
         UNCHANGED <<pxLines, pxPosts>>,
         \/ /\ pxChild' = Append(pxChild, pxAt) /\ pxOut' = pxOut /\ pxDenied' = pxDenied
            /\ pxPending' = IF pxLines[pxAt] = "call" THEN pxPending \cup {pxAt} ELSE pxPending
         \/ /\ pxChild' = pxChild /\ pxOut' = Append(pxOut, denyResponseFor(pxAt))
            /\ pxDenied' = pxDenied \cup {pxAt} /\ pxPending' = pxPending
  PROVE  pxInv'
<1>1. pxAt \in Nat /\ Done = 1 .. pxAt - 1 /\ Done' = 1 .. pxAt /\ Done' = Done \cup {pxAt} /\ pxAt \notin Done
  BY DEF pxInv, pxTypeOK, Done
<1>2. pxTypeOK'
  <2>1. pxOut' \in Seq(ProxyAnswer)
    <3>1. denyResponseFor(pxAt) \in ProxyAnswer
      BY <1>1 DEF denyResponseFor, ProxyAnswer
    <3>2. pxOut \in Seq(ProxyAnswer)
      BY DEF pxInv, pxTypeOK
    <3>3. QED
      BY <3>1, <3>2
  <2>2. pxChild' \in Seq(Nat)
    <3>1. pxChild \in Seq(Nat)
      BY DEF pxInv, pxTypeOK
    <3>2. QED
      BY <1>1, <3>1
  <2>3. pxDenied' \subseteq Done' /\ pxPending' \subseteq Nat /\ pxPosts' \subseteq Nat
    BY <1>1 DEF pxInv, pxTypeOK
  <2>4. pxLines' \in Seq(ProxyLine) /\ Len(pxLines') <= MaxLines /\ Len(pxLines) \in Nat
    BY DEF pxInv, pxTypeOK
  <2>5. pxAt' \in Nat /\ 1 <= pxAt' /\ pxAt' <= Len(pxLines') + 1
    BY <1>1, <2>4
  <2>6. QED
    BY <2>1, <2>2, <2>3, <2>4, <2>5, Zenon DEF pxTypeOK
<1>3. ChildSeesInOrder'
  BY ChildInOrder DEF pxInv
<1>4. pxOut \in Seq(ProxyAnswer) /\ DOMAIN pxOut = 1 .. Len(pxOut) /\ Len(pxOut) \in Nat
  BY DEF pxInv, pxTypeOK
<1>5. pxChild \in Seq(Nat) /\ pxDenied \subseteq Done
  BY DEF pxInv, pxTypeOK
<1>6. CASE /\ pxChild' = Append(pxChild, pxAt) /\ pxOut' = pxOut /\ pxDenied' = pxDenied
           /\ pxPending' = IF pxLines[pxAt] = "call" THEN pxPending \cup {pxAt} ELSE pxPending
  <2>1. ToSet(pxChild') = ToSet(pxChild) \cup {pxAt}
    BY <1>1, <1>5, <1>6 DEF ToSet
  <2>2. AnswersKnown'
    BY <1>1, <1>5, <1>6, <2>1 DEF pxInv, AnswersKnown
  <2>3. \A n \in Nat : Answers(n)' = Answers(n)
    BY <1>6 DEF Answers
  <2>4. ~Answers(pxAt)
    BY <1>1, <1>4 DEF pxInv, AnswersKnown, Answers, ToSet
  <2>5. CallsCounted'
    BY <1>1, <1>5, <1>6, <2>3, <2>4 DEF pxInv, CallsCounted
  <2>6. OneAnswer'
    BY <1>6 DEF pxInv, OneAnswer
  <2>7. QED
    BY <1>2, <1>3, <2>2, <2>5, <2>6 DEF pxInv
<1>7. CASE /\ pxChild' = pxChild /\ pxOut' = Append(pxOut, denyResponseFor(pxAt))
           /\ pxDenied' = pxDenied \cup {pxAt} /\ pxPending' = pxPending
  <2>1. PICK new : new = denyResponseFor(pxAt)
    OBVIOUS
  <2>2. new.id = pxAt /\ new.by = "proxy" /\ new \in ProxyAnswer
    BY <1>1, <2>1 DEF denyResponseFor, ProxyAnswer
  <2>3. /\ DOMAIN pxOut' = 1 .. Len(pxOut) + 1 /\ pxOut'[Len(pxOut) + 1] = new
        /\ \A i \in DOMAIN pxOut : pxOut'[i] = pxOut[i]
    BY <1>4, <1>7, <2>1, <2>2
  <2>4. Done' \ pxDenied' = Done \ pxDenied
    BY <1>1, <1>7
  <2>5. AnswersKnown'
    <3>1. ToSet(pxChild') = Done' \ pxDenied'
      BY <1>7, <2>4 DEF pxInv, AnswersKnown
    <3>2. ASSUME NEW i \in DOMAIN pxOut'
          PROVE  /\ pxOut'[i].by = "child" => pxOut'[i].id \in Done' \ pxDenied'
                 /\ pxOut'[i].by = "proxy" => pxOut'[i].id \in pxDenied'
      <4>1. CASE i \in DOMAIN pxOut
        BY <1>7, <2>3, <2>4, <4>1 DEF pxInv, AnswersKnown
      <4>2. CASE i \notin DOMAIN pxOut
        <5>1. i = Len(pxOut) + 1
          BY <1>4, <2>3, <3>2, <4>2
        <5>2. QED
          BY <1>7, <2>2, <2>3, <5>1
      <4>3. QED
        BY <4>1, <4>2
    <3>3. QED
      BY <3>1, <3>2 DEF AnswersKnown
  <2>6. \A n \in Nat : Answers(n)' <=> Answers(n)
    <3>1. ToSet(pxOut') = ToSet(pxOut) \cup {new}
      BY <1>4, <2>3 DEF ToSet
    <3>2. \A n \in Nat : [id |-> n, by |-> "child"] # new
      BY <2>2
    <3>3. QED
      BY <3>1, <3>2 DEF Answers
  <2>7. CallsCounted'
    BY <1>7, <2>4, <2>6 DEF pxInv, CallsCounted
  <2>8. OneAnswer'
    <3>1. \A n \in pxDenied' : \E i \in DOMAIN pxOut' : pxOut'[i] = denyResponseFor(n)
      <4>1. ASSUME NEW n \in pxDenied' PROVE \E i \in DOMAIN pxOut' : pxOut'[i] = denyResponseFor(n)
        <5>1. CASE n = pxAt
          BY <1>4, <2>1, <2>3, <5>1
        <5>2. CASE n # pxAt
          <6>1. PICK i \in DOMAIN pxOut : pxOut[i] = denyResponseFor(n)
            BY <1>7, <5>2, <4>1 DEF pxInv, OneAnswer
          <6>2. i \in DOMAIN pxOut' /\ pxOut'[i] = denyResponseFor(n)
            BY <1>4, <2>3, <6>1
          <6>3. QED
            BY <6>2
        <5>3. QED
          BY <5>1, <5>2
      <4>2. QED
        BY <4>1
    <3>2. \A i \in DOMAIN pxOut : pxOut[i].by # "server" => pxOut[i].id \in Done
      <4>1. ASSUME NEW i \in DOMAIN pxOut, pxOut[i].by # "server" PROVE pxOut[i].id \in Done
        <5>1. pxOut[i] \in ProxyAnswer
          BY <1>4, ElementOfSeq
        <5>2. pxOut[i].by \in {"child", "proxy"}
          BY <4>1, <5>1 DEF ProxyAnswer
        <5>3. QED
          BY <1>5, <4>1, <5>2 DEF pxInv, AnswersKnown
      <4>2. QED
        BY <4>1
    <3>3. ASSUME NEW i \in DOMAIN pxOut', NEW j \in DOMAIN pxOut',
                 pxOut'[i].id = pxOut'[j].id, pxOut'[i].by # "server", pxOut'[j].by # "server"
          PROVE  i = j
      <4>1. CASE i \in DOMAIN pxOut /\ j \in DOMAIN pxOut
        BY <2>3, <3>3, <4>1 DEF pxInv, OneAnswer
      <4>2. CASE i \notin DOMAIN pxOut
        BY <1>1, <1>4, <2>2, <2>3, <3>2, <3>3, <4>2
      <4>3. CASE j \notin DOMAIN pxOut
        BY <1>1, <1>4, <2>2, <2>3, <3>2, <3>3, <4>3
      <4>4. QED
        BY <4>1, <4>2, <4>3
    <3>4. QED
      BY <3>1, <3>3 DEF OneAnswer
  <2>9. QED
    BY <1>2, <1>3, <2>5, <2>7, <2>8 DEF pxInv
<1>8. QED
  BY <1>6, <1>7

\* A line of the child's: an answer of its own, or a request of its own.
LEMMA ChildLine ==
  ASSUME pxInv, NEW line \in ProxyAnswer, FromChild(line),
         \/ line.by = "child" /\ line.id \in Done \ pxDenied /\ ~Answered(line.id)
         \/ line.by = "server" /\ line.id \in ServerIds
  PROVE  pxInv'
<1>1. pxOut \in Seq(ProxyAnswer) /\ DOMAIN pxOut = 1 .. Len(pxOut) /\ Len(pxOut) \in Nat
  BY DEF pxInv, pxTypeOK
<1>2. /\ DOMAIN pxOut' = 1 .. Len(pxOut) + 1 /\ pxOut'[Len(pxOut) + 1] = line
      /\ \A i \in DOMAIN pxOut : pxOut'[i] = pxOut[i]
  BY <1>1 DEF FromChild
<1>3. UNCHANGED <<pxLines, pxAt, pxAsking, pxDenied, pxChild>> /\ Done' = Done
  BY DEF FromChild, Done
<1>4. line.id \in Nat
  BY DEF ProxyAnswer
<1>5. pxTypeOK'
  <2>1. pxOut' \in Seq(ProxyAnswer)
    BY <1>1 DEF FromChild
  <2>2. pxPending' \subseteq Nat /\ pxPosts' \subseteq Nat
    BY <1>4 DEF FromChild, pxInv, pxTypeOK
  <2>3. QED
    BY <1>3, <2>1, <2>2 DEF pxInv, pxTypeOK
<1>6. AnswersKnown'
  <2>1. ToSet(pxChild') = Done' \ pxDenied'
    BY <1>3 DEF pxInv, AnswersKnown
  <2>2. ASSUME NEW i \in DOMAIN pxOut'
        PROVE  /\ pxOut'[i].by = "child" => pxOut'[i].id \in Done' \ pxDenied'
               /\ pxOut'[i].by = "proxy" => pxOut'[i].id \in pxDenied'
    <3>1. CASE i \in DOMAIN pxOut
      BY <1>2, <1>3, <3>1 DEF pxInv, AnswersKnown
    <3>2. CASE i \notin DOMAIN pxOut
      <4>1. i = Len(pxOut) + 1
        BY <1>1, <1>2, <2>2, <3>2
      <4>2. QED
        BY <1>2, <1>3, <4>1
    <3>3. QED
      BY <3>1, <3>2
  <2>3. QED
    BY <2>1, <2>2 DEF AnswersKnown
<1>7. ToSet(pxOut') = ToSet(pxOut) \cup {line}
  BY <1>1, <1>2 DEF ToSet
<1>8. OneAnswer'
  <2>1. ASSUME NEW n \in pxDenied' PROVE \E i \in DOMAIN pxOut' : pxOut'[i] = denyResponseFor(n)
    <3>1. PICK i \in DOMAIN pxOut : pxOut[i] = denyResponseFor(n)
      BY <1>3, <2>1 DEF pxInv, OneAnswer
    <3>2. i \in DOMAIN pxOut' /\ pxOut'[i] = denyResponseFor(n)
      BY <1>1, <1>2, <3>1
    <3>3. QED
      BY <3>2
  <2>2. \A i \in DOMAIN pxOut : pxOut[i].by # "server" /\ pxOut[i].id = line.id => line.by = "server"
    <3>1. ASSUME NEW i \in DOMAIN pxOut, pxOut[i].by # "server", pxOut[i].id = line.id, line.by # "server"
          PROVE  FALSE
      <4>1. line.by = "child" /\ ~Answered(line.id)
        BY <3>1
      <4>2. pxOut[i].by \in {"child", "proxy"}
        <5>1. pxOut[i] \in ProxyAnswer
          BY <1>1, <3>1, ElementOfSeq
        <5>2. QED
          BY <3>1, <5>1 DEF ProxyAnswer
      <4>3. QED
        BY <3>1, <4>1, <4>2 DEF Answered
    <3>2. QED
      BY <3>1
  <2>3. ASSUME NEW i \in DOMAIN pxOut', NEW j \in DOMAIN pxOut',
               pxOut'[i].id = pxOut'[j].id, pxOut'[i].by # "server", pxOut'[j].by # "server"
        PROVE  i = j
    <3>1. CASE i \in DOMAIN pxOut /\ j \in DOMAIN pxOut
      BY <1>2, <2>3, <3>1 DEF pxInv, OneAnswer
    <3>2. CASE i \notin DOMAIN pxOut
      BY <1>1, <1>2, <2>2, <2>3, <3>2
    <3>3. CASE j \notin DOMAIN pxOut
      BY <1>1, <1>2, <2>2, <2>3, <3>3
    <3>4. QED
      BY <3>1, <3>2, <3>3
  <2>4. QED
    BY <2>1, <2>3 DEF OneAnswer
<1>9. CallsCounted'
  <2>1. ASSUME NEW n \in Nat \ ServerIds
        PROVE  /\ n \in pxPending' <=> n \in Done' \ pxDenied' /\ pxLines'[n] = "call" /\ ~Answers(n)'
               /\ n \in pxPosts' <=> n \in Done' \ pxDenied' /\ pxLines'[n] = "call" /\ Answers(n)'
    <3>1. /\ n \in pxPending <=> n \in Done \ pxDenied /\ pxLines[n] = "call" /\ ~Answers(n)
          /\ n \in pxPosts <=> n \in Done \ pxDenied /\ pxLines[n] = "call" /\ Answers(n)
      BY <2>1 DEF pxInv, CallsCounted
    <3>2. CASE n # line.id
      <4>1. [id |-> n, by |-> "child"] # line
        BY <3>2
      <4>2. Answers(n)' <=> Answers(n)
        BY <1>7, <4>1 DEF Answers
      <4>3. (n \in pxPending' <=> n \in pxPending) /\ (n \in pxPosts' <=> n \in pxPosts)
        BY <3>2 DEF FromChild
      <4>4. QED
        BY <1>3, <3>1, <4>2, <4>3
    <3>3. CASE n = line.id
      <4>1. line.by = "child" /\ n \in Done \ pxDenied /\ ~Answered(n)
        BY <2>1, <3>3
      <4>2. line = [id |-> n, by |-> "child"]
        BY <3>3, <4>1 DEF ProxyAnswer
      <4>3. Answers(n)'
        BY <1>7, <4>2 DEF Answers
      <4>4. ~Answers(n)
        BY <1>1, <4>1 DEF Answers, Answered, ToSet
      <4>5. n \notin pxPending' /\ (n \in pxPosts' <=> n \in pxPosts \/ n \in pxPending)
        BY <3>3 DEF FromChild
      <4>6. QED
        BY <1>3, <3>1, <4>1, <4>3, <4>4, <4>5
    <3>4. QED
      BY <3>2, <3>3
  <2>2. QED
    BY <2>1 DEF CallsCounted
<1>10. ChildSeesInOrder'
  BY <1>3 DEF pxInv, ChildSeesInOrder
<1>11. QED
  BY <1>5, <1>6, <1>8, <1>9, <1>10 DEF pxInv

LEMMA pxInvKeeps == pxInv /\ [pxNext]_pxVars => pxInv'
<1> SUFFICES ASSUME pxInv, [pxNext]_pxVars PROVE pxInv'
  OBVIOUS
<1>1. CASE HostSends
  <2>1. PICK kind \in ProxyLine : pxLines' = Append(pxLines, kind)
    BY <1>1 DEF HostSends, ProxyLine
  <2>2. UNCHANGED <<pxAt, pxAsking, pxDenied, pxChild, pxPending, pxOut, pxPosts>> /\ Len(pxLines) < MaxLines
    BY <1>1 DEF HostSends
  <2>3. pxLines \in Seq(ProxyLine) /\ pxAt \in Nat /\ Len(pxLines) \in Nat /\ pxAt <= Len(pxLines) + 1
    BY DEF pxInv, pxTypeOK
  <2>4. /\ pxLines' \in Seq(ProxyLine) /\ Len(pxLines') = Len(pxLines) + 1
        /\ \A n \in 1 .. Len(pxLines) : pxLines'[n] = pxLines[n]
    BY <2>1, <2>3
  <2>5. Done' = Done /\ Done \subseteq 1 .. Len(pxLines)
    BY <2>2, <2>3 DEF Done
  <2>6. pxTypeOK'
    BY <2>2, <2>3, <2>4, <2>5, ProxyAssumption DEF pxInv, pxTypeOK
  <2>7. AnswersKnown' /\ OneAnswer' /\ ChildSeesInOrder'
    BY <2>2, <2>5 DEF pxInv, AnswersKnown, OneAnswer, ChildSeesInOrder
  <2>8. CallsCounted'
    BY <2>2, <2>4, <2>5 DEF pxInv, CallsCounted, Answers
  <2>9. QED
    BY <2>6, <2>7, <2>8 DEF pxInv
<1>2. CASE processLine
  <2>1. CASE pxLines[pxAt] = "call"
    <3>1. UNCHANGED <<pxLines, pxAt, pxDenied, pxChild, pxPending, pxOut, pxPosts>> /\ pxAsking' = TRUE
      BY <1>2, <2>1 DEF processLine
    <3>2. pxAt <= Len(pxLines)
      BY <1>2 DEF processLine
    <3>3. Done' = Done
      BY <3>1 DEF Done
    <3>4. QED
      BY <2>1, <3>1, <3>2, <3>3
      DEF pxInv, pxTypeOK, AnswersKnown, CallsCounted, Answers, ChildSeesInOrder, OneAnswer
  <2>2. CASE pxLines[pxAt] # "call"
    <3>1. /\ pxAt <= Len(pxLines) /\ pxAt' = pxAt + 1 /\ pxAsking' = FALSE
          /\ UNCHANGED <<pxLines, pxPosts>> /\ pxChild' = Append(pxChild, pxAt) /\ pxOut' = pxOut
          /\ pxDenied' = pxDenied /\ pxPending' = pxPending
      BY <1>2, <2>2 DEF processLine, pxInv, pxTypeOK
    <3>2. QED
      BY <2>2, <3>1, LinePassed
  <2>3. QED
    BY <2>1, <2>2
<1>3. CASE callPreToolUse
  <2>1. pxAsking /\ pxAt <= Len(pxLines) /\ pxLines[pxAt] = "call"
    BY <1>3 DEF callPreToolUse, Decided, pxInv, pxTypeOK
  <2>2. /\ pxAt' = pxAt + 1 /\ pxAsking' = FALSE /\ UNCHANGED <<pxLines, pxPosts>>
        /\ \/ /\ pxChild' = Append(pxChild, pxAt) /\ pxOut' = pxOut /\ pxDenied' = pxDenied
              /\ pxPending' = pxPending \cup {pxAt}
           \/ /\ pxChild' = pxChild /\ pxOut' = Append(pxOut, denyResponseFor(pxAt))
              /\ pxDenied' = pxDenied \cup {pxAt} /\ pxPending' = pxPending
    BY <1>3 DEF callPreToolUse, Decided
  <2>3. QED
    BY <2>1, <2>2, LinePassed
<1>4. CASE ChildAnswers
  <2>1. PICK i \in DOMAIN pxChild : /\ ~Answered(pxChild[i])
                                    /\ FromChild([id |-> pxChild[i], by |-> "child"])
    BY <1>4 DEF ChildAnswers
  <2>2. PICK n : n = pxChild[i]
    OBVIOUS
  <2>3. n \in Done \ pxDenied /\ n \in Nat
    BY <2>2 DEF pxInv, AnswersKnown, ToSet, Done
  <2>4. [id |-> n, by |-> "child"] \in ProxyAnswer
    BY <2>3 DEF ProxyAnswer
  <2>5. PICK line : line = [id |-> n, by |-> "child"]
    OBVIOUS
  <2>6. FromChild(line) /\ line \in ProxyAnswer /\ line.by = "child" /\ line.id = n /\ ~Answered(line.id)
    BY <2>1, <2>2, <2>4, <2>5
  <2>7. QED
    BY <2>3, <2>6, ChildLine
<1>5. CASE ChildRequests
  <2>1. PICK n \in ServerIds : FromChild([id |-> n, by |-> "server"])
    BY <1>5 DEF ChildRequests
  <2>2. PICK line : line = [id |-> n, by |-> "server"]
    OBVIOUS
  <2>3. line \in ProxyAnswer /\ line.by = "server" /\ line.id \in ServerIds
    BY <2>1, <2>2, ProxyAssumption DEF ProxyAnswer
  <2>4. FromChild(line)
    BY <2>1, <2>2
  <2>5. QED
    BY <2>3, <2>4, ChildLine
<1>6. CASE HostEnds \/ EndChildInput \/ ChildExits \/ UNCHANGED pxVars
  <2>1. UNCHANGED <<pxLines, pxAt, pxAsking, pxDenied, pxChild, pxPending, pxOut, pxPosts>>
    BY <1>6 DEF HostEnds, EndChildInput, ChildExits, pxVars
  <2>2. Done' = Done
    BY <2>1 DEF Done
  <2>3. QED
    BY <2>1, <2>2
    DEF pxInv, pxTypeOK, AnswersKnown, CallsCounted, Answers, ChildSeesInOrder, OneAnswer
<1>7. QED
  BY <1>1, <1>2, <1>3, <1>4, <1>5, <1>6 DEF pxNext, ProxySteps

\* The server: who waits has a request of its own, and the answers are those of
\* the requests passed, in order.
Silent == {"notifications/initialized", "unparsable"}
Passed == 1 .. svAt - 1
Wanted == {n \in Passed : svLines[n] \notin Silent}

svTypeOK ==
  /\ svLines \in Seq(Methods) /\ svAt \in Nat /\ 1 <= svAt /\ svAt <= Len(svLines) + 1
  /\ svWaiting \in BOOLEAN /\ (svWaiting => svAt <= Len(svLines) /\ svLines[svAt] \in TOOLS)
  /\ svOut \in Seq([id : Nat, result : {"result", "error", "text"}])

AnswerIds == [i \in DOMAIN svOut |-> svOut[i].id]
svInv == svTypeOK /\ AnswerIds = Chosen(svAt - 1, Wanted)

LEMMA svPass ==
  ASSUME svInv, svAt <= Len(svLines), svLines' = svLines, svWaiting' = FALSE, svAt' = svAt + 1,
         NEW silent \in BOOLEAN, silent <=> svLines[svAt] \in Silent,
         NEW result \in {"result", "error", "text"},
         svOut' = IF silent THEN svOut ELSE Append(svOut, [id |-> svAt, result |-> result])
  PROVE  svInv'
<1>1. svAt \in Nat /\ svAt - 1 \in Nat /\ (svAt - 1) + 1 = svAt /\ svAt' = svAt + 1 /\ svAt' - 1 = svAt
  BY DEF svInv, svTypeOK
<1>2. svOut \in Seq([id : Nat, result : {"result", "error", "text"}]) /\ svLines \in Seq(Methods)
  BY DEF svInv, svTypeOK
<1>3. PICK W : W = Wanted
  OBVIOUS
<1>4. PICK V : V = Wanted'
  OBVIOUS
<1>5. W = {n \in 1 .. svAt - 1 : svLines[n] \notin Silent} /\ V = {n \in 1 .. svAt : svLines[n] \notin Silent}
  BY <1>1, <1>3, <1>4 DEF Wanted, Passed
<1>6. Chosen(svAt, V) = IF svAt \in V THEN Append(Chosen(svAt - 1, W), svAt) ELSE Chosen(svAt - 1, W)
  <2>1. PICK n : n = svAt - 1
    OBVIOUS
  <2>2. \A m \in 1 .. n : m \in W <=> m \in V
    BY <1>1, <1>5, <2>1
  <2>3. Chosen(n, W) = Chosen(n, V)
    BY <1>1, <2>1, <2>2, ChosenFacts
  <2>4. Chosen(n + 1, V) = IF n + 1 \in V THEN Append(Chosen(n, V), n + 1) ELSE Chosen(n, V)
    BY <1>1, <2>1, ChosenFacts
  <2>5. QED
    BY <1>1, <2>1, <2>3, <2>4
<1>7. svAt \in V <=> ~silent
  BY <1>1, <1>5
<1>8. AnswerIds' = IF silent THEN AnswerIds ELSE Append(AnswerIds, svAt)
  <2>1. CASE silent
    BY <2>1 DEF AnswerIds
  <2>2. CASE ~silent
    <3>1. PICK ans : ans = [id |-> svAt, result |-> result]
      OBVIOUS
    <3>2. svOut' = Append(svOut, ans) /\ ans.id = svAt /\ ans \in [id : Nat, result : {"result", "error", "text"}]
      BY <1>1, <2>2, <3>1
    <3>3. DOMAIN svOut = 1 .. Len(svOut) /\ Len(svOut) \in Nat
      BY <1>2
    <3>4. DOMAIN svOut' = 1 .. Len(svOut) + 1
      BY <1>2, <3>2
    <3>5. \A i \in 1 .. Len(svOut) + 1 : svOut'[i] = IF i = Len(svOut) + 1 THEN ans ELSE svOut[i]
      BY <1>2, <3>2
    <3>6. PICK s : s = AnswerIds
      OBVIOUS
    <3>7. s = [i \in 1 .. Len(svOut) |-> svOut[i].id]
      BY <3>3, <3>6 DEF AnswerIds
    <3>8. s \in Seq(Nat) /\ Len(s) = Len(svOut)
      <4>1. \A i \in 1 .. Len(svOut) : svOut[i].id \in Nat
        <5>1. \A i \in 1 .. Len(svOut) : svOut[i] \in [id : Nat, result : {"result", "error", "text"}]
          BY <1>2, ElementOfSeq
        <5>2. QED
          BY <5>1
      <4>2. QED
        BY <3>3, <3>7, <4>1
    <3>9. Append(s, svAt) = [i \in 1 .. Len(svOut) + 1 |-> IF i = Len(svOut) + 1 THEN svAt ELSE svOut[i].id]
      BY <1>1, <3>3, <3>7, <3>8
    <3>10. AnswerIds' = [i \in 1 .. Len(svOut) + 1 |-> svOut'[i].id]
      BY <3>4 DEF AnswerIds
    <3>11. \A i \in 1 .. Len(svOut) + 1 :
             svOut'[i].id = IF i = Len(svOut) + 1 THEN svAt ELSE svOut[i].id
      BY <3>2, <3>5
    <3>12. QED
      BY <2>2, <3>6, <3>9, <3>10, <3>11
  <2>3. QED
    BY <2>1, <2>2
<1>9. AnswerIds' = Chosen(svAt, V)
  <2>1. AnswerIds = Chosen(svAt - 1, W)
    BY <1>3 DEF svInv
  <2>2. CASE silent
    BY <1>6, <1>7, <1>8, <2>1, <2>2
  <2>3. CASE ~silent
    BY <1>6, <1>7, <1>8, <2>1, <2>3
  <2>4. QED
    BY <2>2, <2>3
<1>10. svTypeOK'
  <2>1. svOut' \in Seq([id : Nat, result : {"result", "error", "text"}])
    <3>1. [id |-> svAt, result |-> result] \in [id : Nat, result : {"result", "error", "text"}]
      BY <1>1
    <3>2. PICK R : R = [id : Nat, result : {"result", "error", "text"}]
      OBVIOUS
    <3>3. PICK ans : ans = [id |-> svAt, result |-> result]
      OBVIOUS
    <3>4. svOut \in Seq(R) /\ ans \in R
      BY <1>2, <3>1, <3>2, <3>3
    <3>5. svOut' = IF silent THEN svOut ELSE Append(svOut, ans)
      BY <3>3
    <3>6. svOut' \in Seq(R)
      BY <3>4, <3>5
    <3>7. QED
      BY <3>2, <3>6
  <2>2. svAt' \in Nat /\ 1 <= svAt' /\ svAt' <= Len(svLines') + 1
    BY <1>1, <1>2
  <2>3. QED
    BY <1>2, <2>1, <2>2 DEF svTypeOK
<1>11. QED
  BY <1>1, <1>4, <1>9, <1>10 DEF svInv

LEMMA svInvKeeps == svInv /\ [svNext]_svVars => svInv'
<1> SUFFICES ASSUME svInv, [svNext]_svVars PROVE svInv'
  OBVIOUS
<1>1. CASE LineArrives
  <2>1. PICK m \in Methods : svLines' = Append(svLines, m)
    BY <1>1 DEF LineArrives
  <2>2. UNCHANGED <<svAt, svWaiting, svOut>>
    BY <1>1 DEF LineArrives
  <2>3. svLines \in Seq(Methods) /\ Len(svLines) \in Nat /\ svAt \in Nat /\ svAt <= Len(svLines) + 1
    BY DEF svInv, svTypeOK
  <2>4. /\ svLines' \in Seq(Methods) /\ Len(svLines') = Len(svLines) + 1
        /\ \A n \in 1 .. Len(svLines) : svLines'[n] = svLines[n]
    BY <2>1, <2>3
  <2>5. svTypeOK'
    BY <2>2, <2>3, <2>4 DEF svInv, svTypeOK
  <2>6. Wanted' = Wanted
    <3>1. Passed' = Passed /\ Passed \subseteq 1 .. Len(svLines)
      BY <2>2, <2>3 DEF Passed
    <3>2. QED
      BY <2>4, <3>1 DEF Wanted
  <2>7. AnswerIds' = AnswerIds
    BY <2>2 DEF AnswerIds
  <2>8. QED
    BY <2>2, <2>5, <2>6, <2>7 DEF svInv
<1>2. CASE Dispatch
  <2>1. CASE svLines[svAt] \in TOOLS
    <3>1. UNCHANGED <<svLines, svAt, svOut>> /\ svWaiting' = TRUE /\ svAt <= Len(svLines)
      BY <1>2, <2>1 DEF Dispatch
    <3>2. QED
      BY <2>1, <3>1 DEF svInv, svTypeOK, Wanted, Passed, AnswerIds
  <2>2. CASE svLines[svAt] \notin TOOLS
    <3>1. PICK m : m = svLines[svAt]
      OBVIOUS
    <3>2. svAt <= Len(svLines) /\ Answer(dispatch[m]) /\ svLines' = svLines /\ svWaiting' = FALSE
      BY <1>2, <2>2, <3>1 DEF Dispatch, svInv, svTypeOK
    <3>3. m \in Methods \ TOOLS
      <4>1. svLines \in Seq(Methods) /\ svAt \in 1 .. Len(svLines)
        BY <3>2 DEF svInv, svTypeOK
      <4>2. QED
        BY <2>2, <3>1, <4>1, ElementOfSeq
    <3>4. PICK r : r = dispatch[m]
      OBVIOUS
    <3>5. CASE m \in Silent
      <4>1. dispatch[m] = ""
        BY <3>3, <3>5 DEF dispatch, Silent
      <4>2. svOut' = svOut /\ svAt' = svAt + 1
        BY <3>2, <4>1, Zenon DEF Answer
      <4>3. QED
        BY <3>1, <3>2, <3>5, <4>2, svPass
    <3>6. CASE m \notin Silent
      <4>1. r \in {"result", "error", "text"} /\ r # ""
        BY <3>3, <3>4, <3>6 DEF dispatch, Silent, Methods, TOOLS
      <4>2. svOut' = Append(svOut, [id |-> svAt, result |-> r]) /\ svAt' = svAt + 1
        BY <3>2, <3>4, <4>1, Zenon DEF Answer
      <4>3. r \in {"result", "error", "text"}
        BY <4>1, Zenon
      <4>4. QED
        BY <3>1, <3>2, <3>6, <4>2, <4>3, svPass
    <3>7. QED
      BY <3>5, <3>6
  <2>3. QED
    BY <2>1, <2>2
<1>3. CASE callStatus \/ callRecentDecisions
  <2>1. svWaiting /\ svAt <= Len(svLines) /\ svLines[svAt] \notin Silent
    BY <1>3 DEF callStatus, callRecentDecisions, svInv, svTypeOK, TOOLS, Silent
  <2>2. Answer("text") /\ svLines' = svLines /\ svWaiting' = FALSE
    BY <1>3 DEF callStatus, callRecentDecisions
  <2>3. "text" # ""
    OBVIOUS
  <2>4. svOut' = Append(svOut, [id |-> svAt, result |-> "text"]) /\ svAt' = svAt + 1
    BY <2>2, <2>3, Zenon DEF Answer
  <2>5. QED
    BY <2>1, <2>2, <2>4, svPass
<1>4. CASE DaemonToggles \/ UNCHANGED svVars
  <2>1. UNCHANGED <<svLines, svAt, svWaiting, svOut>>
    BY <1>4 DEF DaemonToggles, svVars
  <2>2. QED
    BY <2>1 DEF svInv, svTypeOK, Wanted, Passed, AnswerIds
<1>5. QED
  BY <1>1, <1>2, <1>3, <1>4 DEF svNext, ServerSteps

\* However lines, answers and the daemon's decisions interleave: the child sees
\* the lines that were not refused, in order (processingChain).
THEOREM ProxyAlwaysHolds == pxSpec => []ProxyHolds
<1>1. pxInv => ProxyHolds
  <2> SUFFICES ASSUME pxInv PROVE PostsAreAnswersOf(1 .. MaxLines \ ServerIds)
    BY DEF pxInv, ProxyHolds
  <2>1. pxLines \in Seq(ProxyLine) /\ DOMAIN pxLines = 1 .. Len(pxLines) /\ Len(pxLines) \in Nat
        /\ pxAt \in Nat /\ pxAt <= Len(pxLines) + 1 /\ Len(pxLines) <= MaxLines /\ pxPosts \subseteq Nat
    BY DEF pxInv, pxTypeOK
  <2>2. PICK ids : ids = 1 .. MaxLines \ ServerIds
    OBVIOUS
  <2>3. ids \subseteq Nat \ ServerIds
    BY <2>2
  <2>4. ASSUME NEW n \in ids
        PROVE  n \in pxPosts <=> n \in DOMAIN pxLines /\ pxLines[n] = "call" /\ Answers(n)
    <3>1. n \in pxPosts <=> n \in Done \ pxDenied /\ pxLines[n] = "call" /\ Answers(n)
      BY <2>3, <2>4 DEF pxInv, CallsCounted
    <3>2. Answers(n) => n \in Done \ pxDenied
      BY DEF pxInv, AnswersKnown, Answers, ToSet
    <3>3. Done \subseteq DOMAIN pxLines
      BY <2>1 DEF Done
    <3>4. QED
      BY <3>1, <3>2, <3>3
  <2>5. pxPosts \cap ids = {n \in DOMAIN pxLines \cap ids : pxLines[n] = "call" /\ Answers(n)}
    BY <2>4
  <2>6. QED
    BY <2>2, <2>5 DEF PostsAreAnswersOf, Answers
<1>2. QED
  BY <1>1, pxStart, pxInvKeeps, PTL DEF pxSpec

\* The server answers the requests it has passed, each once and in order, also
\* when a tool has to wait for the daemon (handleLine, one line after the other).
THEOREM ServerAlwaysAnswers == svSpec => []AnswersInOrder
<1>1. svInit => svInv
  <2> SUFFICES ASSUME svInit PROVE svInv
    OBVIOUS
  <2>1. svLines = <<>> /\ svAt = 1 /\ svWaiting = FALSE /\ svOut = <<>>
    BY DEF svInit
  <2>2. svTypeOK
    <3>1. <<>> \in Seq(Methods) /\ <<>> \in Seq([id : Nat, result : {"result", "error", "text"}])
      OBVIOUS
    <3>2. svLines \in Seq(Methods) /\ svOut \in Seq([id : Nat, result : {"result", "error", "text"}])
      BY <2>1, <3>1, Zenon
    <3>3. svAt \in Nat /\ 1 <= svAt /\ svAt <= Len(svLines) + 1 /\ svWaiting = FALSE
      BY <2>1
    <3>4. QED
      BY <3>2, <3>3, Zenon DEF svTypeOK
  <2>3. AnswerIds = <<>>
    <3>1. DOMAIN svOut = 1 .. 0 /\ AnswerIds \in Seq(Nat)
      BY <2>1 DEF AnswerIds
    <3>2. Len(AnswerIds) = 0
      BY <2>1, <3>1 DEF AnswerIds
    <3>3. QED
      BY <3>1, <3>2
  <2>4. Chosen(svAt - 1, Wanted) = <<>>
    <3>1. svAt - 1 = 0
      BY <2>1
    <3>2. PICK W : W = Wanted
      OBVIOUS
    <3>3. Chosen(0, W) = <<>>
      BY ChosenFacts
    <3>4. QED
      BY <3>1, <3>2, <3>3
  <2>5. QED
    BY <2>2, <2>3, <2>4 DEF svInv
<1>2. svInv => AnswersInOrder
  BY DEF svInv, AnswersInOrder, AnswerIds, Chosen, Wanted, Passed, Silent
<1>3. QED
  BY <1>1, <1>2, svInvKeeps, PTL DEF svSpec

\* Both MCP processes, next to the other programs.
THEOREM ProxiesAlwaysHold == ClientsSpec => []ProxiesHold
<1>1. ProxyHolds /\ AnswersInOrder => ProxiesHold
  BY DEF ProxiesHold
<1>2. QED
  BY <1>1, ClientsImplementEach, ProxyAlwaysHolds, ServerAlwaysAnswers, PTL
=============================================================================
