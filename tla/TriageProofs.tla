---------------------------- MODULE TriageProofs ----------------------------
(***************************************************************************)
(* The safety of a triage batch, for batches of every size, all requests   *)
(* and all folder lists, and that the batch implements TriageContract.     *)
(***************************************************************************)
EXTENDS Triage, FiniteSetTheorems, TLAPS

\* The source mailbox is open and the loop over the UIDs may run.
Opened == {"caps", "check", "list", "precheck", "write", "await"}

\* The batch stands at UID i: everything before has a definite outcome, nothing
\* after has been sent, and i itself has been sent only if it is awaited or
\* the batch has ended with it.
OrderInv ==
  /\ pc = "done" <=> request # "pending"
  /\ pc = "decide" => err # "ok"
  /\ pc \in {"start", "open", "select", "decide", "caps"} => i = 1
  /\ \A u \in UID : u < i => outcome[u] \in {"applied", "refused"}
  /\ pc # "done" => \A u \in UID : u >= i => outcome[u] = "not_attempted"
  /\ \A u \in UID : u > i => outcome[u] \in {"not_attempted", "refused"} /\ sent[u] = 0
  /\ \A u \in UID : sent[u] <= 1
  /\ pc \notin {"await", "done"} => sent[i] = 0

\* The command on its way is the last one sent, is for UID i and has had no
\* effect; the batch awaits its answer or has reported it as unknown on a
\* session that is gone.
WireInv ==
  /\ wire = NoCommand \/ (wire.uid = i /\ sent[i] = 1 /\ effect[i] = 0 /\ reply = "none")
  /\ wire = NoCommand \/ pc = "await"
       \/ (pc = "done" /\ request = "results" /\ outcome[i] = "unknown" /\ conn = "none")
  /\ reply # "none" => pc = "await" /\ conn = "open" /\ wire = NoCommand /\ sent[i] = 1
  /\ reply = "ok" => effect[i] = 1 \/ i \notin present
  /\ reply = "no" => effect[i] = 0

\* What has taken effect was sent, and agrees with what was settled.
EffectInv ==
  /\ \A u \in UID : effect[u] <= sent[u]
  /\ \A u \in UID : outcome[u] = "applied" => sent[u] = 1 /\ (effect[u] = 1 \/ u \notin present)
  /\ \A u \in UID : outcome[u] = "refused" => effect[u] = 0
  /\ pc = "done" => \A u \in UID : outcome[u] = "not_attempted" => effect[u] = 0
  /\ request \notin {"pending", "results"} => \A u \in UID : effect[u] = 0

\* The selected mailbox is the generation the caller named.
GenerationInv ==
  /\ pc \in Opened /\ conn = "open" => selected /\ current
  /\ wire # NoCommand => current
  /\ ~astray

\* The destination in hand was resolved from the listing of this very UID.
Resolved ==
  /\ listed.uid = i /\ listed.mailboxes \in Listings
  /\ target = destinationResolver(listed.mailboxes) /\ target # Unresolved
  /\ ~SelfMove

DestinationInv ==
  /\ pc \notin {"start", "done"} => ~SelfMove
  /\ pc \in {"list", "precheck"} => Moving
  /\ pc \in {"precheck", "write"} /\ Moving => Resolved
  /\ wire # NoCommand =>
       /\ wire.name = IF Moving THEN "MOVE" ELSE "STORE"
       /\ Moving => wire.target = target /\ Resolved

Inv == TypeOK /\ OrderInv /\ WireInv /\ EffectInv /\ GenerationInv /\ DestinationInv

-----------------------------------------------------------------------------
(* The codes a batch can fail with, and the arms of the two steps that     *)
(* decide whether a command leaves the process.                            *)

\* No code of the adapter is one of the marks the batch itself uses.
LEMMA CodeFacts ==
  /\ "pending" \notin Codes /\ "results" \notin Codes /\ "ok" \notin Codes
  /\ OpenCodes \cup {"adapter_closed", "bridge_unreachable"} \subseteq Codes
  /\ {"imap_command_failed"} \cup OutOfStepCodes \subseteq Codes
  /\ {"stale_message_id", "invalid_request", "command_timed_out"} \subseteq Codes
  /\ Ended \subseteq Codes
BY DEF Codes, OpenCodes, OutOfStepCodes, InStepCodes, CheckCodes, Ended

\* mapIMAPError turns a code into a code, and never into success.
LEMMA MappedCode ==
  ASSUME NEW x \in Contexts, NEW code \in Codes \cup {"ok"}, code # "ok"
  PROVE  mapIMAPError(x, code) \in Codes
BY DEF mapIMAPError, Contexts, Codes, Live, Ended

\* A blocked exchange fails with a code.
LEMMA FailureCodes ==
  ASSUME TypeOK
  PROVE  Failures \subseteq Codes
<1>1. opctx \in Contexts
  BY DEF TypeOK
<1>2. QED
  BY <1>1, MappedCode, CodeFacts DEF Failures

\* The empty wire is a command like any other.
LEMMA NoCommandType == NoCommand \in Commands /\ NoCommand.uid = 0
BY TriageAssumption DEF TriageAssumption, NoCommand, Commands, Places

\* The server counts one more write at most.
LEMMA EffectType ==
  ASSUME TypeOK, Execute
  PROVE  effect' \in [UID -> Nat]
<1>1. CASE wire.uid \in present /\ effect' = [effect EXCEPT ![wire.uid] = @ + 1]
  BY <1>1 DEF TypeOK
<1>2. CASE effect' = effect
  BY <1>2 DEF TypeOK
<1>3. QED
  BY <1>1, <1>2 DEF Execute

\* The arms of dispatch and of MoveUID.
Kept == UNCHANGED <<op, attempt, ctx, err, target, mailVars, effect, astray, listed>>

NotSent ==
  /\ pc = "write" /\ pc' = "await" /\ Kept
  /\ UNCHANGED <<wire, sent, outcome, request, conn, selected, reply, i, opctx>>

SentNatively ==
  /\ pc = "write" /\ conn = "open" /\ Kept
  /\ Deliver(IF Moving THEN "MOVE" ELSE "STORE")

Precheck ==
  /\ pc = "precheck" /\ pc' = "write" /\ Kept
  /\ UNCHANGED <<wire, sent, outcome, request, conn, selected, reply, i, opctx>>

RefusedWhole ==
  /\ pc \in {"precheck", "write"} /\ Kept
  /\ outcome' = refuseRemaining(outcome, i)
  /\ Return("results") /\ invalidate
  /\ UNCHANGED <<wire, sent, i, opctx>>

GaveUp ==
  /\ pc \in {"precheck", "write"} /\ Kept
  /\ Uncertain
  /\ UNCHANGED <<wire, sent>>

\* The armed guard leaves dispatch no way to send anything but a STORE or a
\* native MOVE.
LEMMA DispatchCases == dispatch => NotSent \/ SentNatively \/ RefusedWhole \/ GaveUp
<1> SUFFICES ASSUME dispatch PROVE NotSent \/ SentNatively \/ RefusedWhole \/ GaveUp
  OBVIOUS
<1> USE DEF dispatch, Dispatch, Kept
<1>1. CASE conn # "open"
  BY <1>1 DEF NotSent
<1>2. CASE conn = "open" /\ ~Moving
  BY <1>2 DEF SentNatively
<1>3. CASE conn = "open" /\ Moving /\ moveCap
  BY <1>3 DEF SentNatively
<1>4. CASE conn = "open" /\ Moving /\ ~moveCap
  BY <1>4 DEF RefusedWhole, GaveUp, Unsupported
<1>5. QED
  BY <1>1, <1>2, <1>3, <1>4

\* MoveUID looks at the capabilities and writes nothing.
LEMMA MoveUIDCases == MoveUID => Precheck \/ RefusedWhole \/ GaveUp
BY DEF MoveUID, Precheck, RefusedWhole, GaveUp, Unsupported, Kept

-----------------------------------------------------------------------------
(* Where a listing can lead.                                               *)

\* A destination resolved by name is a place the server knows, or none.
LEMMA MovePlaces ==
  ASSUME NEW m, NEW d
  PROVE  resolveMoveDestination(m, d) \in Places
<1> DEFINE box == m[CHOOSE k \in Matching(m, d) : TRUE]
<1>1. \/ resolveMoveDestination(m, d) \in {"INBOX", Unresolved}
      \/ resolveMoveDestination(m, d) = box.Name /\ box.Name \in FolderNames \cup RootNames
  BY DEF resolveMoveDestination, isHierarchyRoot
<1>2. QED
  BY <1>1 DEF Places

\* The same for the destination of the request.
LEMMA ResolverPlaces ==
  ASSUME NEW m
  PROVE  destinationResolver(m) \in Places
<1>1. Unresolved \in Places
  BY DEF Places
<1>2. resolveAttributeDestination(m, op.goal) \in Places
  BY <1>1, MovePlaces DEF resolveAttributeDestination
<1>3. QED
  BY <1>1, <1>2, MovePlaces DEF destinationResolver

\* A destination found by name is matched by exactly one listed mailbox, which
\* is selectable and is no virtual view; it is that mailbox under its own
\* name, INBOX under its canonical one.
LEMMA MoveDestination ==
  ASSUME NEW m, IsFiniteSet(DOMAIN m), NEW d,
         resolveMoveDestination(m, d) # Unresolved
  PROVE  \E k \in DOMAIN m :
           /\ Matching(m, d) = {k}
           /\ Matching(m, resolveMoveDestination(m, d)) = {k}
           /\ m[k].Attributes \cap refusedDestinationAttributes = {}
           /\ mailboxIdentityMatches(d, m[k].Name)
           /\ \A s : mailboxIdentityMatches(s, m[k].Name)
                       => mailboxIdentityMatches(s, resolveMoveDestination(m, d))
<1> DEFINE t   == resolveMoveDestination(m, d)
           box == m[CHOOSE k \in Matching(m, d) : TRUE]
<1>1. Cardinality(Matching(m, d)) = 1
  BY DEF resolveMoveDestination
<1>2. IsFiniteSet(Matching(m, d))
  BY FS_Subset DEF Matching
<1>3. PICK k : Matching(m, d) = {k}
  BY <1>1, <1>2, FS_Singleton
<1>4. k \in DOMAIN m /\ mailboxIdentityMatches(d, m[k].Name)
  BY <1>3 DEF Matching
<1>5. box = m[k]
  BY <1>3
<1>6. /\ box.Attributes \cap refusedDestinationAttributes = {}
      /\ \/ box.Name \in InboxNames /\ t = "INBOX"
         \/ box.Name \notin InboxNames /\ t = box.Name
  BY <1>1 DEF resolveMoveDestination
<1> HIDE DEF t, box
<1>7. \A n : mailboxIdentityMatches(t, n) <=> mailboxIdentityMatches(d, n)
  BY <1>4, <1>5, <1>6, TriageAssumption DEF mailboxIdentityMatches, TriageAssumption
<1>8. Matching(m, t) = Matching(m, d)
  BY <1>7 DEF Matching
<1>9. \A s : mailboxIdentityMatches(s, m[k].Name) => mailboxIdentityMatches(s, t)
  BY <1>5, <1>6, TriageAssumption DEF mailboxIdentityMatches, TriageAssumption
<1>10. QED
  BY <1>3, <1>4, <1>5, <1>6, <1>8, <1>9 DEF t

-----------------------------------------------------------------------------
\* Every step keeps the variables in their types.
LEMMA TypeStep == Inv /\ [Next]_vars => TypeOK'
<1> SUFFICES ASSUME Inv, [Next]_vars PROVE TypeOK'
    OBVIOUS
<1> USE TriageAssumption DEF Inv, OrderInv, WireInv, TypeOK, UID, Outcomes, Commands, Kept, vars,
        callVars, mailVars, wireVars
<1>1. CASE RefuseInvalid
  BY <1>1, CodeFacts DEF RefuseInvalid, Return
<1>2. CASE RefuseSelfMove
  BY <1>2 DEF RefuseSelfMove, refuseRemaining, Return
<1>3. CASE Acquire
  <2>1. ctx # Live => ctx \in Codes
    BY CodeFacts DEF Contexts
  <2>2. QED
    BY <1>3, <2>1, CodeFacts DEF Acquire, Return
<1>4. CASE sessionForOperation
  <2>1. \A code \in OpenCodes \cup {"adapter_closed"} : mapIMAPError(opctx, code) \in Codes
    BY MappedCode, CodeFacts
  <2>2. err' \in Codes \cup {"ok"}
    BY <1>4, <2>1 DEF sessionForOperation
  <2>3. QED
    BY <1>4, <2>2 DEF sessionForOperation
<1>5. CASE openTriageSource
  <2>1. mapIMAPError(opctx, err) \in Codes
    BY <1>5, MappedCode DEF openTriageSource
  <2>2. QED
    BY <1>5, <2>1, CodeFacts DEF openTriageSource, Return, invalidate, Keep
<1>6. CASE SupportsMove
  BY <1>6 DEF SupportsMove, refuseRemaining, Return
<1>7. CASE MoveUID
  <2>1. CASE Precheck
    BY <2>1 DEF Precheck
  <2>2. CASE RefusedWhole
    BY <2>2 DEF RefusedWhole, refuseRemaining, Return, invalidate
  <2>3. CASE GaveUp
    BY <2>3 DEF GaveUp, Uncertain, Settle, Return, invalidate
  <2> QED BY <1>7, <2>1, <2>2, <2>3, MoveUIDCases
<1>8. CASE dispatch
  <2>1. CASE NotSent
    BY <2>1 DEF NotSent
  <2>2. CASE SentNatively
    BY <2>2 DEF SentNatively, Deliver
  <2>3. CASE RefusedWhole
    BY <2>3 DEF RefusedWhole, refuseRemaining, Return, invalidate
  <2>4. CASE GaveUp
    BY <2>4 DEF GaveUp, Uncertain, Settle, Return, invalidate
  <2> QED BY <1>8, <2>1, <2>2, <2>3, <2>4, DispatchCases
<1>9. CASE SelectSource
  BY <1>9, CodeFacts DEF SelectSource, Selected, Return
<1>10. CASE requireMessageUID
  <2>1. CASE i \in present
    BY <1>10, <2>1 DEF requireMessageUID
  <2>2. CASE i \notin present
    <3>1. outcome' \in [UID -> Outcomes]
      BY <1>10, <2>2 DEF requireMessageUID, Settle
    <3>2. i' \in UID /\ request' \in Codes \cup {"pending", "results"} /\ opctx' \in Contexts
      BY <1>10, <2>2 DEF requireMessageUID, NextUID, Return
    <3>3. pc' \in {"check", "done"}
      BY <1>10, <2>2 DEF requireMessageUID, NextUID, Return
    <3>4. QED
      BY <1>10, <3>1, <3>2, <3>3 DEF requireMessageUID
  <2>3. QED
    BY <2>1, <2>2
<1>11. CASE prepareMove
  <2>1. target' \in Places
    BY <1>11, ResolverPlaces DEF prepareMove, Resolve
  <2>2. QED
    BY <1>11, <2>1 DEF prepareMove, Resolve, refuseRemaining, Return
<1>12. CASE Acknowledged
  BY <1>12 DEF Acknowledged, Settle, NextUID, Return
<1>13. CASE Refused
  <2>1. CASE opctx = Live
    <3>1. outcome' \in [UID -> Outcomes]
      BY <1>13, <2>1 DEF Refused, Settle
    <3>2. i' \in UID /\ request' \in Codes \cup {"pending", "results"} /\ opctx' \in Contexts
      BY <1>13, <2>1 DEF Refused, NextUID, Return
    <3>3. pc' \in {"check", "done"}
      BY <1>13, <2>1 DEF Refused, NextUID, Return
    <3>4. QED
      BY <1>13, <2>1, <3>1, <3>2, <3>3 DEF Refused
  <2>2. CASE opctx # Live
    BY <1>13, <2>2 DEF Refused, Uncertain, Settle, Return, invalidate
  <2>3. QED
    BY <2>1, <2>2
<1>14. CASE SelectFails
  <2>1. err' \in Codes
    BY <1>14, FailureCodes DEF SelectFails
  <2>2. QED
    BY <1>14, <2>1, CodeFacts DEF SelectFails
<1>15. CASE abandonUID
  <2>1. request' \in Codes \cup {"results"}
    BY <1>15, FailureCodes DEF abandonUID, Abandon, Return
  <2>2. QED
    BY <1>15, <2>1 DEF abandonUID, Abandon, Return, invalidate
<1>16. CASE Lost
  BY <1>16 DEF Lost, Uncertain, Settle, Return, invalidate
<1>17. CASE operationContext
  BY <1>17 DEF operationContext, Contexts, Ended
<1>18. CASE \E e \in Ended : EndContext(e)
  BY <1>18 DEF EndContext, Contexts
<1>19. CASE Drop
  BY <1>19 DEF Drop
<1>20. CASE Execute
  <2>1. TypeOK
    OBVIOUS
  <2>2. effect' \in [UID -> Nat]
    BY <1>20, <2>1, EffectType
  <2>3. present' \in SUBSET UID
    BY <1>20 DEF Execute
  <2>4. reply' \in {"none", "ok", "no"}
    BY <1>20 DEF Execute
  <2>5. astray' = astray \/ astray' = (astray \/ ~current)
    BY <1>20 DEF Execute
  <2>6. wire' \in Commands
    BY <1>20, NoCommandType DEF Execute
  <2>7. QED
    BY <1>20, <2>2, <2>3, <2>4, <2>5, <2>6 DEF Execute
<1>21. CASE Discard
  BY <1>21, NoCommandType DEF Discard
<1>22. CASE ChangeCapabilities
  BY <1>22 DEF ChangeCapabilities
<1>23. CASE Recreate
  BY <1>23 DEF Recreate
<1>24. CASE \E u \in UID : Expunge(u)
  BY <1>24 DEF Expunge
<1>25. CASE \E m \in Listings : ChangeListing(m)
  BY <1>25 DEF ChangeListing
<1>26. CASE UNCHANGED vars
  BY <1>26
<1> QED BY <1>1, <1>2, <1>3, <1>4, <1>5, <1>6, <1>7, <1>8, <1>9, <1>10, <1>11, <1>12, <1>13,
              <1>14, <1>15, <1>16, <1>17, <1>18, <1>19, <1>20, <1>21, <1>22, <1>23, <1>24, <1>25, <1>26
           DEF Next, Local, Answered, Failed, Environment, Done

\* Every step keeps the order of the batch.
LEMMA OrderStep == Inv /\ [Next]_vars => OrderInv'
<1> SUFFICES ASSUME Inv, [Next]_vars PROVE OrderInv'
    OBVIOUS
<1> USE TriageAssumption DEF Inv, OrderInv, WireInv, EffectInv, TypeOK, UID, Outcomes, Kept,
        vars, callVars, mailVars, wireVars
<1>1. CASE RefuseInvalid
  BY <1>1 DEF RefuseInvalid, Return
<1>2. CASE RefuseSelfMove
  BY <1>2 DEF RefuseSelfMove, refuseRemaining, Return
<1>3. CASE Acquire
  <2>1. ctx # Live => ctx \in Codes
    BY CodeFacts DEF Contexts
  <2>2. QED
    BY <1>3, <2>1, CodeFacts DEF Acquire, Return
<1>4. CASE sessionForOperation
  <2>1. \A code \in OpenCodes \cup {"adapter_closed"} : mapIMAPError(opctx, code) \in Codes
    BY MappedCode, CodeFacts
  <2>2. pc' = "decide" => err' \in Codes
    BY <1>4, <2>1 DEF sessionForOperation
  <2>3. QED
    BY <1>4, <2>2, CodeFacts DEF sessionForOperation
<1>5. CASE openTriageSource
  <2>1. mapIMAPError(opctx, err) \in Codes
    BY <1>5, MappedCode DEF openTriageSource
  <2>2. QED
    BY <1>5, <2>1, CodeFacts DEF openTriageSource, Return
<1>6. CASE SupportsMove
  BY <1>6 DEF SupportsMove, refuseRemaining, Return
<1>7. CASE MoveUID
  <2>1. CASE Precheck
    BY <2>1 DEF Precheck
  <2>2. CASE RefusedWhole
    BY <2>2 DEF RefusedWhole, refuseRemaining, Return, invalidate
  <2>3. CASE GaveUp
    BY <2>3 DEF GaveUp, Uncertain, Settle, Return, invalidate
  <2> QED BY <1>7, <2>1, <2>2, <2>3, MoveUIDCases
<1>8. CASE dispatch
  <2>1. CASE NotSent
    BY <2>1 DEF NotSent
  <2>2. CASE SentNatively
    BY <2>2 DEF SentNatively, Deliver
  <2>3. CASE RefusedWhole
    BY <2>3 DEF RefusedWhole, refuseRemaining, Return, invalidate
  <2>4. CASE GaveUp
    BY <2>4 DEF GaveUp, Uncertain, Settle, Return, invalidate
  <2> QED BY <1>8, <2>1, <2>2, <2>3, <2>4, DispatchCases
<1>9. CASE SelectSource
  BY <1>9 DEF SelectSource, Selected, Return
<1>10. CASE requireMessageUID
  BY <1>10 DEF requireMessageUID, Settle, NextUID, Return
<1>11. CASE prepareMove
  BY <1>11 DEF prepareMove, Resolve, refuseRemaining, Return
<1>12. CASE Acknowledged
  BY <1>12 DEF Acknowledged, Settle, NextUID, Return
<1>13. CASE Refused
  BY <1>13 DEF Refused, NextUID, Uncertain, Settle, Return, invalidate
<1>14. CASE SelectFails
  <2>1. err' \in Codes
    BY <1>14, FailureCodes DEF SelectFails
  <2>2. QED
    BY <1>14, <2>1, CodeFacts DEF SelectFails
<1>15. CASE abandonUID
  <2>1. request' \in Codes \cup {"results"}
    BY <1>15, FailureCodes DEF abandonUID, Abandon, Return
  <2>2. QED
    BY <1>15, <2>1, CodeFacts DEF abandonUID, Abandon, Return
<1>16. CASE Lost
  BY <1>16 DEF Lost, Uncertain, Settle, Return, invalidate
<1>17. CASE operationContext
  BY <1>17 DEF operationContext
<1>18. CASE \E e \in Ended : EndContext(e)
  BY <1>18 DEF EndContext
<1>19. CASE Drop
  BY <1>19 DEF Drop
<1>20. CASE Execute
  BY <1>20 DEF Execute
<1>21. CASE Discard
  BY <1>21 DEF Discard
<1>22. CASE ChangeCapabilities
  BY <1>22 DEF ChangeCapabilities
<1>23. CASE Recreate
  BY <1>23 DEF Recreate
<1>24. CASE \E u \in UID : Expunge(u)
  BY <1>24 DEF Expunge
<1>25. CASE \E m \in Listings : ChangeListing(m)
  BY <1>25 DEF ChangeListing
<1>26. CASE UNCHANGED vars
  BY <1>26
<1> QED BY <1>1, <1>2, <1>3, <1>4, <1>5, <1>6, <1>7, <1>8, <1>9, <1>10, <1>11, <1>12, <1>13,
              <1>14, <1>15, <1>16, <1>17, <1>18, <1>19, <1>20, <1>21, <1>22, <1>23, <1>24, <1>25, <1>26
           DEF Next, Local, Answered, Failed, Environment, Done

\* Every step keeps the command on its way.
LEMMA WireStep == Inv /\ [Next]_vars => WireInv'
<1> SUFFICES ASSUME Inv, [Next]_vars PROVE WireInv'
    OBVIOUS
<1> USE TriageAssumption DEF Inv, OrderInv, WireInv, EffectInv, TypeOK, UID, Outcomes, NoCommand,
        Kept, vars, callVars, mailVars, wireVars
<1>1. CASE RefuseInvalid
  BY <1>1 DEF RefuseInvalid, Return
<1>2. CASE RefuseSelfMove
  BY <1>2 DEF RefuseSelfMove, refuseRemaining, Return
<1>3. CASE Acquire
  BY <1>3 DEF Acquire, Return
<1>4. CASE sessionForOperation
  BY <1>4 DEF sessionForOperation
<1>5. CASE openTriageSource
  BY <1>5 DEF openTriageSource, invalidate, Keep, Return
<1>6. CASE SupportsMove
  BY <1>6 DEF SupportsMove, refuseRemaining, Return
<1>7. CASE MoveUID
  <2>1. CASE Precheck
    BY <2>1 DEF Precheck
  <2>2. CASE RefusedWhole
    BY <2>2 DEF RefusedWhole, refuseRemaining, Return, invalidate
  <2>3. CASE GaveUp
    BY <2>3 DEF GaveUp, Uncertain, Settle, Return, invalidate
  <2> QED BY <1>7, <2>1, <2>2, <2>3, MoveUIDCases
<1>8. CASE dispatch
  <2>1. CASE NotSent
    BY <2>1 DEF NotSent
  <2>2. CASE SentNatively
    BY <2>2 DEF SentNatively, Deliver
  <2>3. CASE RefusedWhole
    BY <2>3 DEF RefusedWhole, refuseRemaining, Return, invalidate
  <2>4. CASE GaveUp
    BY <2>4 DEF GaveUp, Uncertain, Settle, Return, invalidate
  <2> QED BY <1>8, <2>1, <2>2, <2>3, <2>4, DispatchCases
<1>9. CASE SelectSource
  BY <1>9 DEF SelectSource, Selected, Return
<1>10. CASE requireMessageUID
  BY <1>10 DEF requireMessageUID, Settle, NextUID, Return
<1>11. CASE prepareMove
  BY <1>11 DEF prepareMove, Resolve, refuseRemaining, Return
<1>12. CASE Acknowledged
  BY <1>12 DEF Acknowledged, Settle, NextUID, Return
<1>13. CASE Refused
  BY <1>13 DEF Refused, NextUID, Uncertain, Settle, Return, invalidate
<1>14. CASE SelectFails
  BY <1>14 DEF SelectFails
<1>15. CASE abandonUID
  BY <1>15 DEF abandonUID, Abandon, Return, invalidate
<1>16. CASE Lost
  BY <1>16 DEF Lost, Uncertain, Settle, Return, invalidate
<1>17. CASE operationContext
  BY <1>17 DEF operationContext
<1>18. CASE \E e \in Ended : EndContext(e)
  BY <1>18 DEF EndContext
<1>19. CASE Drop
  BY <1>19 DEF Drop
<1>20. CASE Execute
  BY <1>20 DEF Execute
<1>21. CASE Discard
  BY <1>21 DEF Discard
<1>22. CASE ChangeCapabilities
  BY <1>22 DEF ChangeCapabilities
<1>23. CASE Recreate
  BY <1>23 DEF Recreate
<1>24. CASE \E u \in UID : Expunge(u)
  BY <1>24 DEF Expunge
<1>25. CASE \E m \in Listings : ChangeListing(m)
  BY <1>25 DEF ChangeListing
<1>26. CASE UNCHANGED vars
  BY <1>26
<1> QED BY <1>1, <1>2, <1>3, <1>4, <1>5, <1>6, <1>7, <1>8, <1>9, <1>10, <1>11, <1>12, <1>13,
              <1>14, <1>15, <1>16, <1>17, <1>18, <1>19, <1>20, <1>21, <1>22, <1>23, <1>24, <1>25, <1>26
           DEF Next, Local, Answered, Failed, Environment, Done

\* Every step keeps the effects in line with what was sent and settled.
LEMMA EffectStep == Inv /\ [Next]_vars => EffectInv'
<1> SUFFICES ASSUME Inv, [Next]_vars PROVE EffectInv'
    OBVIOUS
<1> USE TriageAssumption DEF Inv, OrderInv, WireInv, EffectInv, TypeOK, UID, Outcomes, NoCommand,
        Kept, vars, callVars, mailVars, wireVars
<1>1. CASE RefuseInvalid
  BY <1>1 DEF RefuseInvalid, Return
<1>2. CASE RefuseSelfMove
  BY <1>2 DEF RefuseSelfMove, refuseRemaining, Return
<1>3. CASE Acquire
  <2>1. \A u \in UID : sent[u] = 0 /\ effect[u] = 0 /\ outcome[u] = "not_attempted"
    BY <1>3 DEF Acquire
  <2>2. QED
    BY <1>3, <2>1 DEF Acquire, Return
<1>4. CASE sessionForOperation
  BY <1>4 DEF sessionForOperation
<1>5. CASE openTriageSource
  <2>1. \A u \in UID : sent[u] = 0 /\ effect[u] = 0 /\ outcome[u] = "not_attempted"
    BY <1>5 DEF openTriageSource
  <2>2. QED
    BY <1>5, <2>1 DEF openTriageSource, Return
<1>6. CASE SupportsMove
  BY <1>6 DEF SupportsMove, refuseRemaining, Return
<1>7. CASE MoveUID
  <2>1. CASE Precheck
    BY <2>1 DEF Precheck
  <2>2. CASE RefusedWhole
    BY <2>2 DEF RefusedWhole, refuseRemaining, Return, invalidate
  <2>3. CASE GaveUp
    BY <2>3 DEF GaveUp, Uncertain, Settle, Return, invalidate
  <2> QED BY <1>7, <2>1, <2>2, <2>3, MoveUIDCases
<1>8. CASE dispatch
  <2>1. CASE NotSent
    BY <2>1 DEF NotSent
  <2>2. CASE SentNatively
    BY <2>2 DEF SentNatively, Deliver
  <2>3. CASE RefusedWhole
    BY <2>3 DEF RefusedWhole, refuseRemaining, Return, invalidate
  <2>4. CASE GaveUp
    BY <2>4 DEF GaveUp, Uncertain, Settle, Return, invalidate
  <2> QED BY <1>8, <2>1, <2>2, <2>3, <2>4, DispatchCases
<1>9. CASE SelectSource
  <2>1. \A u \in UID : sent[u] = 0 /\ effect[u] = 0 /\ outcome[u] = "not_attempted"
    BY <1>9 DEF SelectSource, Selected
  <2>2. QED
    BY <1>9, <2>1 DEF SelectSource, Selected, Return
<1>10. CASE requireMessageUID
  BY <1>10 DEF requireMessageUID, Settle, NextUID, Return
<1>11. CASE prepareMove
  BY <1>11 DEF prepareMove, Resolve, refuseRemaining, Return
<1>12. CASE Acknowledged
  BY <1>12 DEF Acknowledged, Settle, NextUID, Return
<1>13. CASE Refused
  BY <1>13 DEF Refused, NextUID, Uncertain, Settle, Return, invalidate
<1>14. CASE SelectFails
  BY <1>14 DEF SelectFails
<1>15. CASE abandonUID
  BY <1>15 DEF abandonUID, Abandon, Return, invalidate
<1>16. CASE Lost
  BY <1>16 DEF Lost, Uncertain, Settle, Return, invalidate
<1>17. CASE operationContext
  BY <1>17 DEF operationContext
<1>18. CASE \E e \in Ended : EndContext(e)
  BY <1>18 DEF EndContext
<1>19. CASE Drop
  BY <1>19 DEF Drop
<1>20. CASE Execute
  <2>1. wire.uid = i /\ sent[i] = 1 /\ effect[i] = 0
    BY <1>20 DEF Execute
  <2>2. pc = "await" \/ (pc = "done" /\ request = "results" /\ outcome[i] = "unknown")
    BY <1>20 DEF Execute
  <2>3. outcome[i] \in {"not_attempted", "unknown"} /\ (pc = "done" => outcome[i] = "unknown")
    BY <2>2
  <2>4. CASE effect' = effect /\ present' = present
    BY <1>20, <2>4 DEF Execute
  <2>5. CASE effect' = [effect EXCEPT ![i] = 1] /\ present' \in SUBSET present
    BY <1>20, <2>1, <2>2, <2>3, <2>5 DEF Execute
  <2>6. QED
    BY <1>20, <2>1, <2>4, <2>5 DEF Execute
<1>21. CASE Discard
  BY <1>21 DEF Discard
<1>22. CASE ChangeCapabilities
  BY <1>22 DEF ChangeCapabilities
<1>23. CASE Recreate
  BY <1>23 DEF Recreate
<1>24. CASE \E u \in UID : Expunge(u)
  BY <1>24 DEF Expunge
<1>25. CASE \E m \in Listings : ChangeListing(m)
  BY <1>25 DEF ChangeListing
<1>26. CASE UNCHANGED vars
  BY <1>26
<1> QED BY <1>1, <1>2, <1>3, <1>4, <1>5, <1>6, <1>7, <1>8, <1>9, <1>10, <1>11, <1>12, <1>13,
              <1>14, <1>15, <1>16, <1>17, <1>18, <1>19, <1>20, <1>21, <1>22, <1>23, <1>24, <1>25, <1>26
           DEF Next, Local, Answered, Failed, Environment, Done

\* Every step keeps the selected generation.
LEMMA GenerationStep == Inv /\ [Next]_vars => GenerationInv'
<1> SUFFICES ASSUME Inv, [Next]_vars PROVE GenerationInv'
    OBVIOUS
<1> USE TriageAssumption DEF Inv, OrderInv, WireInv, GenerationInv, Opened, TypeOK, UID,
        Outcomes, NoCommand, Kept, vars, callVars, mailVars, wireVars
<1>1. CASE RefuseInvalid
  BY <1>1 DEF RefuseInvalid, Return
<1>2. CASE RefuseSelfMove
  BY <1>2 DEF RefuseSelfMove, refuseRemaining, Return
<1>3. CASE Acquire
  BY <1>3 DEF Acquire, Return
<1>4. CASE sessionForOperation
  BY <1>4 DEF sessionForOperation
<1>5. CASE openTriageSource
  BY <1>5 DEF openTriageSource, invalidate, Keep, Return
<1>6. CASE SupportsMove
  BY <1>6 DEF SupportsMove, refuseRemaining, Return
<1>7. CASE MoveUID
  BY <1>7 DEF MoveUID, Unsupported, refuseRemaining, Uncertain, Settle, Return, invalidate
<1>8. CASE dispatch
  BY <1>8 DEF dispatch, Dispatch, Deliver, Unsupported, refuseRemaining, Uncertain, Settle,
     Return, invalidate
<1>9. CASE SelectSource
  BY <1>9 DEF SelectSource, Selected, Return
<1>10. CASE requireMessageUID
  BY <1>10 DEF requireMessageUID, Settle, NextUID, Return
<1>11. CASE prepareMove
  BY <1>11 DEF prepareMove, Resolve, refuseRemaining, Return
<1>12. CASE Acknowledged
  BY <1>12 DEF Acknowledged, Settle, NextUID, Return
<1>13. CASE Refused
  BY <1>13 DEF Refused, NextUID, Uncertain, Settle, Return, invalidate
<1>14. CASE SelectFails
  BY <1>14 DEF SelectFails
<1>15. CASE abandonUID
  BY <1>15 DEF abandonUID, Abandon, Return, invalidate
<1>16. CASE Lost
  BY <1>16 DEF Lost, Uncertain, Settle, Return, invalidate
<1>17. CASE operationContext
  BY <1>17 DEF operationContext
<1>18. CASE \E e \in Ended : EndContext(e)
  BY <1>18 DEF EndContext
<1>19. CASE Drop
  BY <1>19 DEF Drop
<1>20. CASE Execute
  BY <1>20 DEF Execute
<1>21. CASE Discard
  BY <1>21 DEF Discard
<1>22. CASE ChangeCapabilities
  BY <1>22 DEF ChangeCapabilities
<1>23. CASE Recreate
  BY <1>23 DEF Recreate
<1>24. CASE \E u \in UID : Expunge(u)
  BY <1>24 DEF Expunge
<1>25. CASE \E m \in Listings : ChangeListing(m)
  BY <1>25 DEF ChangeListing
<1>26. CASE UNCHANGED vars
  BY <1>26
<1> QED BY <1>1, <1>2, <1>3, <1>4, <1>5, <1>6, <1>7, <1>8, <1>9, <1>10, <1>11, <1>12, <1>13,
              <1>14, <1>15, <1>16, <1>17, <1>18, <1>19, <1>20, <1>21, <1>22, <1>23, <1>24, <1>25, <1>26
           DEF Next, Local, Answered, Failed, Environment, Done

\* Every step keeps the destination in hand.
LEMMA DestinationStep == Inv /\ [Next]_vars => DestinationInv'
<1> SUFFICES ASSUME Inv, [Next]_vars PROVE DestinationInv'
    OBVIOUS
<1> USE TriageAssumption DEF Inv, OrderInv, WireInv, DestinationInv, Resolved, SelfMove, Moving,
        destinationResolver, TypeOK, UID, Outcomes, NoCommand, Kept, vars, callVars, mailVars,
        wireVars
<1>1. CASE RefuseInvalid
  BY <1>1 DEF RefuseInvalid, Return
<1>2. CASE RefuseSelfMove
  BY <1>2 DEF RefuseSelfMove, refuseRemaining, Return
<1>3. CASE Acquire
  BY <1>3 DEF Acquire, Return
<1>4. CASE sessionForOperation
  BY <1>4 DEF sessionForOperation
<1>5. CASE openTriageSource
  BY <1>5 DEF openTriageSource, invalidate, Keep, Return
<1>6. CASE SupportsMove
  BY <1>6 DEF SupportsMove, refuseRemaining, Return
<1>7. CASE MoveUID
  <2>1. CASE Precheck
    BY <2>1 DEF Precheck
  <2>2. CASE RefusedWhole
    BY <2>2 DEF RefusedWhole, refuseRemaining, Return, invalidate
  <2>3. CASE GaveUp
    BY <2>3 DEF GaveUp, Uncertain, Settle, Return, invalidate
  <2> QED BY <1>7, <2>1, <2>2, <2>3, MoveUIDCases
<1>8. CASE dispatch
  <2>1. CASE NotSent
    BY <2>1 DEF NotSent
  <2>2. CASE SentNatively
    BY <2>2 DEF SentNatively, Deliver
  <2>3. CASE RefusedWhole
    BY <2>3 DEF RefusedWhole, refuseRemaining, Return, invalidate
  <2>4. CASE GaveUp
    BY <2>4 DEF GaveUp, Uncertain, Settle, Return, invalidate
  <2> QED BY <1>8, <2>1, <2>2, <2>3, <2>4, DispatchCases
<1>9. CASE SelectSource
  BY <1>9 DEF SelectSource, Selected, Return
<1>10. CASE requireMessageUID
  BY <1>10 DEF requireMessageUID, Settle, NextUID, Return
<1>11. CASE prepareMove
  BY <1>11 DEF prepareMove, Resolve, refuseRemaining, Return
<1>12. CASE Acknowledged
  BY <1>12 DEF Acknowledged, Settle, NextUID, Return
<1>13. CASE Refused
  BY <1>13 DEF Refused, NextUID, Uncertain, Settle, Return, invalidate
<1>14. CASE SelectFails
  BY <1>14 DEF SelectFails
<1>15. CASE abandonUID
  BY <1>15 DEF abandonUID, Abandon, Return, invalidate
<1>16. CASE Lost
  BY <1>16 DEF Lost, Uncertain, Settle, Return, invalidate
<1>17. CASE operationContext
  BY <1>17 DEF operationContext
<1>18. CASE \E e \in Ended : EndContext(e)
  BY <1>18 DEF EndContext
<1>19. CASE Drop
  BY <1>19 DEF Drop
<1>20. CASE Execute
  BY <1>20 DEF Execute
<1>21. CASE Discard
  BY <1>21 DEF Discard
<1>22. CASE ChangeCapabilities
  BY <1>22 DEF ChangeCapabilities
<1>23. CASE Recreate
  BY <1>23 DEF Recreate
<1>24. CASE \E u \in UID : Expunge(u)
  BY <1>24 DEF Expunge
<1>25. CASE \E m \in Listings : ChangeListing(m)
  BY <1>25 DEF ChangeListing
<1>26. CASE UNCHANGED vars
  BY <1>26
<1> QED BY <1>1, <1>2, <1>3, <1>4, <1>5, <1>6, <1>7, <1>8, <1>9, <1>10, <1>11, <1>12, <1>13,
              <1>14, <1>15, <1>16, <1>17, <1>18, <1>19, <1>20, <1>21, <1>22, <1>23, <1>24, <1>25, <1>26
           DEF Next, Local, Answered, Failed, Environment, Done

-----------------------------------------------------------------------------
(* The theorems.                                                           *)

\* The invariant holds when the batch is called.
LEMMA InitInv == Init => Inv
<1> SUFFICES ASSUME Init PROVE Inv
  OBVIOUS
<1> USE TriageAssumption DEF TriageAssumption, Init, UID
<1>1. TypeOK
  <2>1. outcome \in [UID -> Outcomes] /\ sent \in [UID -> Nat] /\ effect \in [UID -> Nat]
    BY DEF Outcomes
  <2>2. listed \in [uid : 0 .. N, mailboxes : Listings \cup {<<>>}]
    OBVIOUS
  <2>3. target \in Places /\ wire \in Commands /\ ctx \in Contexts /\ opctx \in Contexts
    BY NoCommandType DEF Places, Contexts
  <2>4. i \in UID /\ attempt \in {0, 1}
    OBVIOUS
  <2>5. err \in Codes \cup {"ok"} /\ request \in Codes \cup {"pending", "results"}
    OBVIOUS
  <2>6. selected \in BOOLEAN /\ astray \in BOOLEAN /\ reply \in {"none", "ok", "no"}
    OBVIOUS
  <2>7. QED
    BY <2>1, <2>2, <2>3, <2>4, <2>5, <2>6 DEF TypeOK
<1>2. OrderInv /\ EffectInv
  BY DEF OrderInv, EffectInv
<1>3. WireInv /\ GenerationInv /\ DestinationInv
  BY DEF WireInv, GenerationInv, DestinationInv, Opened
<1>4. QED
  BY <1>1, <1>2, <1>3 DEF Inv

\* The invariant of the batch: order, wire, effects, generation and
\* destination, whatever the server, the other clients and the caller do.
THEOREM TriageInvariant == Spec => []Inv
<1>1. Inv /\ [Next]_vars => Inv'
  BY TypeStep, OrderStep, WireStep, EffectStep, GenerationStep, DestinationStep DEF Inv
<1>2. QED
  BY <1>1, InitInv, PTL DEF Spec

\* Every variable keeps its type in every batch.
THEOREM TypeCorrect == Spec => []TypeOK
<1>1. Inv => TypeOK
  BY DEF Inv
<1>2. QED
  BY <1>1, TriageInvariant, PTL

\* OutcomesAreTrue: what the results say of a UID is what the server did and
\* will ever do with it.
THEOREM OutcomesTrue == Spec => []OutcomesAreTrue
<1>1. Inv => OutcomesAreTrue
  <2> SUFFICES ASSUME Inv, NEW u \in UID, Final(u)
               PROVE  CASE outcome[u] = "applied" -> ~Pending(u) /\ (effect[u] = 1 \/ u \notin present)
                        [] outcome[u] \in {"refused", "not_attempted"} -> ~Pending(u) /\ effect[u] = 0
                        [] outcome[u] = "unknown" -> TRUE
    BY DEF OutcomesAreTrue
  <2> USE TriageAssumption DEF TriageAssumption, Inv, TypeOK, UID, Outcomes
  <2>1. Pending(u) => wire # NoCommand /\ u = i
    BY NoCommandType DEF Pending, WireInv
  <2>2. outcome[u] # "unknown" => ~Pending(u)
    BY <2>1 DEF Final, WireInv, OrderInv
  <2>3. outcome[u] = "not_attempted" => pc = "done"
    BY DEF Final, OrderInv
  <2>4. outcome[u] \in {"refused", "not_attempted"} => effect[u] = 0
    BY <2>3 DEF EffectInv
  <2>5. outcome[u] = "applied" => effect[u] = 1 \/ u \notin present
    BY DEF EffectInv
  <2>6. outcome[u] \in {"applied", "refused", "not_attempted", "unknown"}
    OBVIOUS
  <2>7. QED
    BY <2>2, <2>4, <2>5, <2>6
<1>2. QED
  BY <1>1, TriageInvariant, PTL

\* FailedRequestWroteNothing: when the call reports one error for the whole
\* request, no UID was written and no command for one is still on its way.
THEOREM FailedRequestClean == Spec => []FailedRequestWroteNothing
<1>1. Inv => FailedRequestWroteNothing
  <2> SUFFICES ASSUME Inv, request \notin {"pending", "results"}, NEW u \in UID
               PROVE  effect[u] = 0 /\ ~Pending(u)
    BY DEF FailedRequestWroteNothing
  <2>1. wire = NoCommand
    BY DEF Inv, WireInv, OrderInv
  <2>2. QED
    BY <2>1, NoCommandType DEF Inv, EffectInv, Pending, UID
<1>2. QED
  BY <1>1, TriageInvariant, PTL

\* WritesAreSafe: no write is replayed, sent out of order or after an uncertain
\* one, applied to another generation of the mailbox, or made by a fallback of
\* the library, however the capabilities change under the call.
THEOREM WritesSafe == Spec => []WritesAreSafe
<1>1. Inv => WritesAreSafe
  <2> SUFFICES ASSUME Inv PROVE WritesAreSafe
    OBVIOUS
  <2>1. AtMostOnce
    BY DEF AtMostOnce, Inv, OrderInv, EffectInv
  <2>2. InOrder
    BY TriageAssumption DEF InOrder, Inv, TypeOK, OrderInv, UID, TriageAssumption
  <2>3. ~astray
    BY DEF Inv, GenerationInv
  <2>4. wire # NoCommand => wire.name = IF Moving THEN "MOVE" ELSE "STORE"
    BY DEF Inv, DestinationInv
  <2>5. QED
    BY <2>1, <2>2, <2>3, <2>4 DEF WritesAreSafe
<1>2. QED
  BY <1>1, TriageInvariant, PTL

\* FreshDestination: a MOVE on its way names a mailbox that the listing read
\* for that very UID shows exactly once, selectable, and other than the source.
THEOREM DestinationFresh == Spec => []FreshDestination
<1>1. Inv => FreshDestination
  <2> SUFFICES ASSUME Inv, wire.name = "MOVE" PROVE FreshDestination
    BY DEF FreshDestination
  <2> DEFINE m == listed.mailboxes
             good(k) == /\ Matching(m, wire.target) = {k}
                        /\ m[k].Attributes \cap refusedDestinationAttributes = {}
                        /\ m[k].Name \notin AggregateNames \/ op.kind = "move"
                        /\ ~mailboxIdentityMatches(Source, m[k].Name)
                        /\ IF op.kind = "move" THEN mailboxIdentityMatches(op.goal, m[k].Name)
                           ELSE Holders(m, op.goal) = {k}
  <2>1. wire # NoCommand /\ Moving
    BY DEF NoCommand, Inv, DestinationInv
  <2>2. Resolved /\ wire.target = target /\ wire.uid = i
    BY <2>1 DEF Inv, DestinationInv, WireInv
  <2>3. IsFiniteSet(DOMAIN m)
    BY <2>2, TriageAssumption DEF Resolved, TriageAssumption
  <2>4. target = destinationResolver(m) /\ target # Unresolved /\ ~SelfMove
    BY <2>2 DEF Resolved
  <2> HIDE DEF m
  <2>5. CASE op.kind = "move"
    <3>1. target = resolveMoveDestination(m, op.goal)
      BY <2>4, <2>5 DEF destinationResolver
    <3>2. PICK k \in DOMAIN m :
            /\ Matching(m, target) = {k}
            /\ m[k].Attributes \cap refusedDestinationAttributes = {}
            /\ mailboxIdentityMatches(op.goal, m[k].Name)
      BY <2>3, <2>4, <3>1, MoveDestination
    <3>3. ~mailboxIdentityMatches(Source, m[k].Name)
      BY <2>4, <2>5, <3>2 DEF SelfMove, mailboxIdentityMatches
    <3>4. good(k)
      BY <2>2, <2>5, <3>2, <3>3
    <3>5. QED
      BY <2>2, <3>4 DEF FreshDestination, m, Resolved
  <2>6. CASE op.kind # "move"
    <3> DEFINE t == resolveAttributeDestination(m, op.goal)
               name == m[CHOOSE j \in Holders(m, op.goal) : TRUE].Name
    <3>1. target = t /\ ~mailboxIdentityMatches(Source, t) /\ t # Unresolved
      BY <2>4, <2>6 DEF destinationResolver
    <3>2. /\ Cardinality(Holders(m, op.goal)) = 1
          /\ name \notin AggregateNames
          /\ t = resolveMoveDestination(m, name)
      BY <3>1 DEF resolveAttributeDestination
    <3>3. IsFiniteSet(Holders(m, op.goal))
      BY <2>3, FS_Subset DEF Holders
    <3>4. PICK k : Holders(m, op.goal) = {k}
      BY <3>2, <3>3, FS_Singleton
    <3>5. name = m[k].Name /\ k \in DOMAIN m
      BY <3>4 DEF Holders
    <3> HIDE DEF t, name
    <3>6. PICK j \in DOMAIN m :
            /\ Matching(m, name) = {j}
            /\ Matching(m, t) = {j}
            /\ m[j].Attributes \cap refusedDestinationAttributes = {}
            /\ \A s : mailboxIdentityMatches(s, m[j].Name) => mailboxIdentityMatches(s, t)
      BY <2>3, <3>1, <3>2, MoveDestination
    <3>7. j = k
      BY <3>5, <3>6 DEF Matching, mailboxIdentityMatches
    <3>8. good(k)
      BY <2>2, <2>6, <3>1, <3>2, <3>4, <3>5, <3>6, <3>7
    <3>9. QED
      BY <2>2, <3>5, <3>8 DEF FreshDestination, m, Resolved
  <2>7. QED
    BY <2>5, <2>6
<1>2. QED
  BY <1>1, TriageInvariant, PTL

-----------------------------------------------------------------------------
(* The batch implements the contract.  Seen from the contract a step does  *)
(* one of eight things; the rest of the state is how the code gets there.  *)

Quiet == UNCHANGED <<request, outcome, sent, effect>>

Sends ==
  /\ pc = "write" /\ sent' = [sent EXCEPT ![i] = @ + 1]
  /\ UNCHANGED <<request, outcome, effect>>

Writes ==
  /\ wire # NoCommand /\ effect' = [effect EXCEPT ![wire.uid] = @ + 1]
  /\ UNCHANGED <<request, outcome, sent>>

Settles(v) ==
  /\ Settle(v)
  /\ IF i < N THEN request' = request ELSE request' = "results"
  /\ UNCHANGED <<sent, effect>>

EndsApplied == pc = "await" /\ reply = "ok" /\ Settles("applied")

EndsRefused ==
  /\ (pc = "await" /\ reply = "no") \/ pc = "check"
  /\ Settles("refused")

EndsUncertain ==
  /\ pc # "done" /\ Settle("unknown") /\ request' = "results"
  /\ UNCHANGED <<sent, effect>>

EndsStopped ==
  /\ pc \notin {"await", "done"} /\ request' = "results"
  /\ outcome' = outcome \/ outcome' = refuseRemaining(outcome, i)
  /\ UNCHANGED <<sent, effect>>

EndsFailed ==
  /\ pc \notin {"await", "done"} /\ request' \in Codes
  /\ UNCHANGED <<outcome, sent, effect>>

\* Every step of the batch and of its environment is one of these.
LEMMA StepKinds ==
  Inv /\ [Next]_vars =>
    \/ Quiet \/ Sends \/ Writes \/ EndsApplied \/ EndsRefused
    \/ EndsUncertain \/ EndsStopped \/ EndsFailed
<1> SUFFICES ASSUME Inv, [Next]_vars
             PROVE  \/ Quiet \/ Sends \/ Writes \/ EndsApplied \/ EndsRefused
                    \/ EndsUncertain \/ EndsStopped \/ EndsFailed
  OBVIOUS
<1> USE DEF Inv, TypeOK, vars, callVars, wireVars, mailVars
<1>1. CASE RefuseInvalid
  BY <1>1, CodeFacts DEF RefuseInvalid, Return, EndsFailed
<1>2. CASE RefuseSelfMove
  <2>1. i = 1
    BY <1>2 DEF RefuseSelfMove, OrderInv
  <2>2. QED
    BY <1>2, <2>1 DEF RefuseSelfMove, Return, EndsStopped
<1>3. CASE Acquire
  <2>1. ctx # Live => ctx \in Codes
    BY CodeFacts DEF Contexts
  <2>2. QED
    BY <1>3, <2>1 DEF Acquire, Return, Quiet, EndsFailed
<1>4. CASE sessionForOperation \/ SelectFails
  BY <1>4 DEF sessionForOperation, SelectFails, Quiet
<1>5. CASE openTriageSource
  <2>1. mapIMAPError(opctx, err) \in Codes
    BY <1>5, MappedCode DEF openTriageSource, OrderInv
  <2>2. QED
    BY <1>5, <2>1 DEF openTriageSource, Return, Quiet, EndsFailed
<1>6. CASE SupportsMove
  <2>1. i = 1
    BY <1>6 DEF SupportsMove, OrderInv
  <2>2. QED
    BY <1>6, <2>1 DEF SupportsMove, Return, Quiet, EndsStopped
<1>7. CASE MoveUID
  <2>1. CASE Precheck
    BY <2>1 DEF Precheck, Kept, Quiet
  <2>2. CASE RefusedWhole
    BY <2>2 DEF RefusedWhole, Kept, Return, EndsStopped
  <2>3. CASE GaveUp
    BY <2>3 DEF GaveUp, Kept, Uncertain, Return, EndsUncertain
  <2>4. QED
    BY <1>7, <2>1, <2>2, <2>3, MoveUIDCases
<1>8. CASE dispatch
  <2>1. CASE NotSent
    BY <2>1 DEF NotSent, Kept, Quiet
  <2>2. CASE SentNatively
    BY <2>2 DEF SentNatively, Deliver, Kept, Sends
  <2>3. CASE RefusedWhole
    BY <2>3 DEF RefusedWhole, Kept, Return, EndsStopped
  <2>4. CASE GaveUp
    BY <2>4 DEF GaveUp, Kept, Uncertain, Return, EndsUncertain
  <2>5. QED
    BY <1>8, <2>1, <2>2, <2>3, <2>4, DispatchCases
<1>9. CASE SelectSource
  BY <1>9, CodeFacts DEF SelectSource, Selected, Return, Quiet, EndsFailed
<1>10. CASE requireMessageUID
  <2>1. CASE i \in present
    BY <1>10, <2>1 DEF requireMessageUID, Quiet
  <2>2. CASE i \notin present
    BY <1>10, <2>2 DEF requireMessageUID, NextUID, Return, EndsRefused, Settles
  <2>3. QED
    BY <2>1, <2>2
<1>11. CASE prepareMove
  BY <1>11 DEF prepareMove, Resolve, Return, Quiet, EndsStopped
<1>12. CASE Acknowledged
  BY <1>12 DEF Acknowledged, NextUID, Return, EndsApplied, Settles
<1>13. CASE Refused
  <2>1. CASE opctx = Live
    BY <1>13, <2>1 DEF Refused, NextUID, Return, EndsRefused, Settles
  <2>2. CASE opctx # Live
    BY <1>13, <2>2 DEF Refused, Uncertain, Return, EndsUncertain
  <2>3. QED
    BY <2>1, <2>2
<1>14. CASE abandonUID
  <2>1. request' \in Codes \cup {"results"}
    BY <1>14, FailureCodes DEF abandonUID, Abandon, Return
  <2>2. QED
    BY <1>14, <2>1 DEF abandonUID, Abandon, Return, EndsStopped, EndsFailed
<1>15. CASE Lost
  BY <1>15 DEF Lost, Uncertain, Return, EndsUncertain
<1>16. CASE Execute
  BY <1>16 DEF Execute, Quiet, Writes
<1>17. CASE \/ operationContext \/ \E e \in Ended : EndContext(e)
            \/ Drop \/ Discard \/ ChangeCapabilities \/ Recreate
            \/ \E u \in UID : Expunge(u)
            \/ \E m \in Listings : ChangeListing(m)
  BY <1>17 DEF operationContext, EndContext, Drop, Discard, ChangeCapabilities,
               Recreate, Expunge, ChangeListing, Quiet
<1>18. CASE UNCHANGED vars
  BY <1>18 DEF Quiet
<1>19. QED
  BY <1>1, <1>2, <1>3, <1>4, <1>5, <1>6, <1>7, <1>8, <1>9, <1>10, <1>11, <1>12,
     <1>13, <1>14, <1>15, <1>16, <1>17, <1>18
  DEF Next, Local, Answered, Failed, Environment, Done

\* While the call runs it is the turn of UID i, in the contract's sense too.
LEMMA InTurn ==
  ASSUME Inv, pc # "done"
  PROVE  /\ Contract!Turn(i) /\ request = "pending"
         /\ i \in UID /\ i \in Nat /\ N \in Nat
         /\ \A u \in UID : u >= i => outcome[u] = "not_attempted"
         /\ \A u \in UID : u < i => outcome[u] \in {"applied", "refused"}
<1> USE TriageAssumption DEF TriageAssumption, Inv, TypeOK, OrderInv, UID
<1>1. request = "pending" /\ i \in UID /\ i \in Nat /\ N \in Nat
  OBVIOUS
<1>2. \A u \in UID : u >= i => outcome[u] = "not_attempted"
  OBVIOUS
<1>3. \A u \in UID : u < i => outcome[u] \in {"applied", "refused"}
  OBVIOUS
<1>4. Verdict(i) = "pending" /\ \A u \in UID : u < i => Verdict(u) \in {"applied", "refused"}
  BY <1>1, <1>2, <1>3 DEF Verdict
<1>5. Contract!Turn(i)
  BY <1>1, <1>4 DEF Contract!Turn, Contract!UID
<1>6. QED
  BY <1>1, <1>2, <1>3, <1>5

\* A step of the contract for one UID is a step of the contract.
LEMMA ContractNext ==
  ASSUME NEW u \in UID,
         \/ Contract!Expose(u) \/ Contract!TakeEffect(u) \/ Contract!Apply(u)
         \/ Contract!Refuse(u) \/ Contract!Uncertain(u) \/ Contract!Stop(u)
  PROVE  Contract!Next
<1>1. u \in Contract!UID
  BY DEF Contract!UID, UID
<1>2. QED
  BY <1>1, Zenon DEF Contract!Next

\* A step that writes, sends or settles is a step of the contract.
LEMMA ContractStep ==
  Inv /\ Inv' /\ [Next]_vars =>
    \/ Contract!Next
    \/ UNCHANGED <<[u \in UID |-> Verdict(u)], {u \in UID : sent[u] > 0}, effect>>
<1> SUFFICES ASSUME Inv, Inv', [Next]_vars
             PROVE  \/ Contract!Next
                    \/ UNCHANGED <<[u \in UID |-> Verdict(u)], {u \in UID : sent[u] > 0}, effect>>
  OBVIOUS
<1>t. /\ i \in UID /\ sent \in [UID -> Nat] /\ effect \in [UID -> Nat]
      /\ outcome \in [UID -> Outcomes]
  BY DEF Inv, TypeOK
<1>1. CASE Quiet
  BY <1>1 DEF Quiet, Verdict
<1>2. CASE Sends
  <2>1. Contract!Turn(i) /\ sent[i] = 0 /\ i \in UID
    BY <1>2, InTurn DEF Sends, Inv, OrderInv
  <2>2. ASSUME NEW u \in UID, u = i
        PROVE  Contract!Expose(u)
    BY <1>2, <1>t, <2>1, <2>2 DEF Sends, Verdict, Contract!Expose, Contract!Turn
  <2>3. QED
    BY <1>t, <2>2, ContractNext
<1>3. CASE Writes
  <2>1. wire.uid = i /\ sent[i] = 1 /\ effect[i] = 0
    BY <1>3 DEF Writes, Inv, WireInv
  <2>2. Verdict(i) \in {"pending", "unknown"}
    <3>1. CASE pc = "await"
      BY <3>1, InTurn DEF Verdict
    <3>2. CASE pc # "await"
      BY <1>3, <3>2 DEF Verdict, Writes, Inv, WireInv
    <3>3. QED
      BY <3>1, <3>2
  <2>3. Contract!TakeEffect(i)
    BY <1>3, <1>t, <2>1, <2>2 DEF Writes, Verdict, Contract!TakeEffect
  <2>4. QED
    BY <1>t, <2>3, ContractNext
<1>4. ASSUME NEW v \in {"applied", "refused"}, Settles(v), pc # "done"
      PROVE  /\ [u \in UID |-> Verdict(u)]' = [[u \in UID |-> Verdict(u)] EXCEPT ![i] = v]
             /\ UNCHANGED <<{u \in UID : sent[u] > 0}, effect>>
  <2>1. \A u \in UID : u # i => Verdict(u)' = Verdict(u)
    <3> SUFFICES ASSUME NEW u \in UID, u # i PROVE Verdict(u)' = Verdict(u)
      OBVIOUS
    <3>1. outcome'[u] = outcome[u]
      BY <1>4, <1>t DEF Settles, Settle
    <3>2. CASE i < N
      BY <1>4, <3>1, <3>2 DEF Settles, Verdict
    <3>3. CASE ~(i < N)
      <4>1. u < i
        BY <1>4, <3>3, InTurn DEF UID
      <4>2. QED
        BY <1>4, <3>1, <3>3, <4>1, InTurn DEF Settles, Verdict
    <3>4. QED
      BY <3>2, <3>3
  <2>2. \A u \in UID : u = i => Verdict(u)' = v
    BY <1>4, <1>t, InTurn DEF Settles, Settle, Verdict
  <2>3. QED
    BY <1>4, <1>t, <2>1, <2>2 DEF Settles
<1>5. CASE EndsApplied
  <2>1. Contract!Turn(i) /\ sent[i] = 1
    BY <1>5, InTurn DEF EndsApplied, Inv, WireInv
  <2>2. Contract!Apply(i)
    BY <1>5, <1>t, <1>4, <2>1 DEF EndsApplied, Contract!Apply
  <2>3. QED
    BY <1>t, <2>2, ContractNext
<1>6. CASE EndsRefused
  <2>1. sent[i] = 0 \/ effect[i] = 0
    BY <1>6 DEF EndsRefused, Inv, WireInv, OrderInv
  <2>2. Contract!Turn(i) /\ effect[i] = 0
    BY <1>6, <1>t, <2>1, InTurn DEF EndsRefused, Inv, EffectInv
  <2>3. Contract!Refuse(i)
    BY <1>6, <1>t, <1>4, <2>2 DEF EndsRefused, Contract!Refuse
  <2>4. QED
    BY <1>t, <2>3, ContractNext
<1>7. ASSUME pc # "done", request' = "results", NEW u \in UID
      PROVE  /\ Verdict(u)' = outcome'[u]
             /\ u < i => Verdict(u) = outcome[u]
             /\ u >= i => outcome[u] = "not_attempted"
  BY <1>7, InTurn DEF Verdict
<1>8. CASE EndsUncertain
  <2>1. [u \in UID |-> Verdict(u)]' = [Contract!From(i, "not_attempted") EXCEPT ![i] = "unknown"]
    <3>1. \A u \in UID : Verdict(u)' = IF u = i THEN "unknown" ELSE IF u >= i THEN "not_attempted" ELSE Verdict(u)
      BY <1>8, <1>t, <1>7, InTurn DEF EndsUncertain, Settle, UID
    <3>2. QED
      BY <1>t, <3>1 DEF Contract!From, Contract!UID, UID
  <2>2. Contract!Uncertain(i)
    BY <1>8, <2>1, InTurn DEF EndsUncertain, Contract!Uncertain
  <2>3. QED
    BY <1>t, <2>2, ContractNext
<1>9. CASE EndsStopped
  <2>1. Contract!Turn(i) /\ sent[i] = 0
    BY <1>9, InTurn DEF EndsStopped, Inv, OrderInv
  <2>2. [u \in UID |-> Verdict(u)]' \in {Contract!From(i, "not_attempted"), Contract!From(i, "refused")}
    <3>1. CASE outcome' = outcome
      <4>1. \A u \in UID : Verdict(u)' = IF u >= i THEN "not_attempted" ELSE Verdict(u)
        BY <1>9, <3>1, <1>t, <1>7, InTurn DEF EndsStopped, UID
      <4>2. QED
        BY <4>1 DEF Contract!From, Contract!UID, UID
    <3>2. CASE outcome' = refuseRemaining(outcome, i)
      <4>1. \A u \in UID : Verdict(u)' = IF u >= i THEN "refused" ELSE Verdict(u)
        BY <1>9, <3>2, <1>t, <1>7, InTurn DEF EndsStopped, refuseRemaining, UID
      <4>2. QED
        BY <4>1 DEF Contract!From, Contract!UID, UID
    <3>3. QED
      BY <1>9, <3>1, <3>2 DEF EndsStopped
  <2>3. Contract!Stop(i)
    BY <1>9, <2>1, <2>2 DEF EndsStopped, Contract!Stop
  <2>4. QED
    BY <1>t, <2>3, ContractNext
<1>10. CASE EndsFailed
  <2>1. Contract!Turn(i) /\ sent[i] = 0
    BY <1>10, InTurn DEF EndsFailed, Inv, OrderInv
  <2>2. request' \notin {"pending", "results"}
    BY <1>10, CodeFacts DEF EndsFailed
  <2>3. \A u \in UID : effect[u] = 0
    BY <1>10, <2>2 DEF EndsFailed, Inv, EffectInv, UID
  <2>4. [u \in UID |-> Verdict(u)]' = [u \in UID |-> "failed"]
    BY <2>2 DEF Verdict
  <2>5. Contract!Fail
    BY <1>10, <1>t, <2>1, <2>3, <2>4 DEF EndsFailed, Contract!Fail, Contract!UID, UID
  <2>6. QED
    BY <2>5 DEF Contract!Next
<1>11. QED
  BY <1>1, <1>2, <1>3, <1>5, <1>6, <1>8, <1>9, <1>10, StepKinds

\* Refinement: with its sessions, replays, contexts, lost answers and the
\* other clients of the mailbox, the batch implements TriageContract, for
\* every number of UIDs.  (That every UID gets a verdict is model-checked.)
THEOREM Refinement == Spec => Contract!Spec
<1>1. Init => Contract!Init
  <2> SUFFICES ASSUME Init PROVE Contract!Init
    OBVIOUS
  <2>1. \A u \in UID : Verdict(u) = "pending"
    BY DEF Init, Verdict
  <2>2. QED
    BY <2>1 DEF Init, Contract!Init, Contract!UID, UID
<1>2. Inv /\ Inv' /\ [Next]_vars =>
        [Contract!Next]_<<[u \in UID |-> Verdict(u)], {u \in UID : sent[u] > 0}, effect>>
  BY ContractStep
<1>3. QED
  BY <1>1, <1>2, TriageInvariant, PTL DEF Spec, Contract!Spec
=============================================================================
