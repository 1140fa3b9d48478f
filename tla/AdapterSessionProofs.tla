------------------------ MODULE AdapterSessionProofs ------------------------
(***************************************************************************)
(* The safety properties of AdapterSession for any number of callers and   *)
(* sessions and any batch size.  They all follow from one inductive        *)
(* invariant, Inv, the conjunction of the parts named below.               *)
(***************************************************************************)
EXTENDS AdapterSession, TLAPS

\* The token is in exactly one place.
GateInv ==
  /\ \A c \in Callers : pc[c] \in Holding => ~gate
  /\ \A c, d \in Callers : pc[c] \in Holding /\ pc[d] \in Holding => c = d

\* Which session the holder has in hand at each control point.
OwnInv ==
  /\ session # None => conn[session] # "none"
  /\ \A c \in Callers :
       /\ pc[c] \in {"idle", "waiting", "ready", "dial", "closing"} => own[c] = None
       /\ pc[c] \in {"decide", "returning"} =>
            own[c] = None \/ (own[c] = session /\ kind[c] # "structure")
       /\ pc[c] = "decide" /\ kind[c] = "triage" /\ err[c] = "ok" => own[c] # None
       /\ pc[c] = "login" => own[c] # None /\ own[c] # session
       /\ pc[c] = "operating" =>
            own[c] # None /\ (own[c] = session <=> kind[c] # "structure")
       /\ pc[c] \in {"writing", "commanding", "logout"} =>
            own[c] # None /\ own[c] = session
       /\ pc[c] \in {"login", "operating", "writing", "commanding"} => conn[own[c]] # "none"
       /\ pc[c] \in {"dial", "login"} => kind[c] = "structure" \/ session = None
       /\ kind[c] = "close" => pc[c] \in {"idle", "waiting", "closing", "logout", "returning"}
       /\ pc[c] \in {"closing", "logout"} => kind[c] = "close"
       /\ pc[c] \in {"writing", "commanding"} => kind[c] = "triage"

\* A session out of step is in the hands of a caller that is about to drop it.
StepInv ==
  /\ session # None /\ ~inStep[session] =>
       \E c \in Callers : pc[c] = "decide" /\ own[c] = session
  /\ \A c \in Callers :
       /\ pc[c] \in {"login", "operating"} => inStep[own[c]]
       /\ pc[c] = "decide" /\ own[c] # None /\ ~inStep[own[c]] => invalidatesSession(err[c])

\* A closed adapter has no session, or one that is being logged out.
CloseInv ==
  closed =>
    /\ session # None => \E c \in Callers : pc[c] = "logout" /\ own[c] = session
    /\ \A c \in Callers :
         pc[c] \in {"idle", "waiting", "ready", "closing", "logout", "returning"}

\* A replay runs on a transport the call has dialed.
ReplayInv ==
  \A c \in Callers :
    /\ pc[c] \in {"idle", "waiting"} => attempt[c] = 0
    /\ pc[c] = "decide" /\ own[c] = None /\ kind[c] # "structure" => session = None
    /\ pc[c] = "login" => fresh[c]
    /\ pc[c] = "operating" /\ (attempt[c] = 1 \/ kind[c] = "structure") => fresh[c]
    /\ pc[c] = "ready" /\ attempt[c] = 1 /\ kind[c] # "structure" => session = None
    /\ (/\ pc[c] = "decide" /\ attempt[c] = 1 /\ err[c] = "bridge_unreachable")
         => freshLost[c]

Inv == TypeOK /\ GateInv /\ OwnInv /\ NoTransportLeak /\ StepInv /\ CloseInv /\ ReplayInv /\ StaleSessionHeals
-----------------------------------------------------------------------------
(* Error codes stay in the vocabulary.                                     *)

\* mapIMAPError maps every code, under every context, into the vocabulary.
LEMMA MappedCode ==
  ASSUME NEW x \in Contexts, NEW code \in Codes
  PROVE  mapIMAPError(x, code) \in Codes
BY DEF mapIMAPError, Contexts, Codes, Live, Ended

\* The codes that opening, checking and operating can fail with are codes of
\* the adapter, and none of them means success.
LEMMA CodeSets ==
  /\ OpenCodes \subseteq Codes
  /\ {"imap_command_failed"} \cup OutOfStepCodes \subseteq Codes
  /\ CheckCodes \subseteq Codes /\ Ended \subseteq Codes /\ "ok" \notin Codes
  /\ "adapter_closed" \in Codes /\ "bridge_unreachable" \in Codes
BY DEF Codes, OpenCodes, OutOfStepCodes, InStepCodes, CheckCodes, Ended

\* Whatever an operation fails with is a code of the adapter.
LEMMA FailureCodes ==
  ASSUME TypeOK, NEW c \in Callers, NEW s, NEW answers \in SUBSET Codes
  PROVE  Failures(c, s, answers) \subseteq Codes
<1>1. opctx[c] \in Contexts
  BY DEF TypeOK
<1>2. QED
  BY <1>1, MappedCode, CodeSets DEF Failures

\* Of the codes a blocked exchange ends with, only a complete refusal lets the
\* session live.
LEMMA FailureInvalidates ==
  ASSUME TypeOK, NEW c \in Callers, NEW s,
         NEW code \in Failures(c, s, {"imap_command_failed"} \cup OutOfStepCodes),
         code # "imap_command_failed"
  PROVE  invalidatesSession(code)
<1>1. opctx[c] \in Contexts
  BY DEF TypeOK
<1>2. QED
  BY <1>1 DEF Failures, mapIMAPError, Contexts, Ended, Live, OutOfStepCodes, invalidatesSession

\* The error an attempt of execute ends with is a code, or nil.
LEMMA AttemptErrorCode ==
  ASSUME TypeOK, NEW c \in Callers
  PROVE  /\ attemptError(c) \in Codes \cup {"ok"}
         /\ attemptError(c) = "ok" => err[c] = "ok"
<1>1. opctx[c] \in Contexts /\ err[c] \in Codes \cup {"ok"}
  BY DEF TypeOK
<1>2. QED
  BY <1>1, MappedCode, CodeSets DEF attemptError

-----------------------------------------------------------------------------
(* Type correctness.                                                       *)

\* Every step of a caller, a timer or a transport keeps the variables in
\* their types.
LEMMA TypeStep == TypeOK /\ [Next]_vars => TypeOK'
<1> SUFFICES ASSUME TypeOK, [Next]_vars PROVE TypeOK'
  OBVIOUS
<1> USE AdapterAssumption DEF AdapterAssumption
<1> USE DEF adapterVars, callVars, history, vars, Holding, Blocking, Kinds
<1>1. ASSUME NEW c \in Callers, NEW k \in Kinds, Begin(c, k) PROVE TypeOK'
  BY <1>1 DEF TypeOK, Begin
<1>2. ASSUME NEW c \in Callers, NEW e \in Ended, EndContext(c, e) PROVE TypeOK'
  BY <1>2 DEF TypeOK, EndContext, Contexts
<1>3. ASSUME NEW c \in Callers, acquire(c) PROVE TypeOK'
  <2>1. 0 \in 0 .. BatchSize /\ BatchSize \in 0 .. BatchSize
    OBVIOUS
  <2>2. left' \in [Callers -> 0 .. BatchSize]
    BY <1>3, <2>1, Zenon DEF TypeOK, acquire, Enter
  <2>3. QED
    BY <1>3, <2>2 DEF TypeOK, acquire, Enter
<1>4. ASSUME NEW c \in Callers, operationContext(c) PROVE TypeOK'
  BY <1>4 DEF TypeOK, operationContext, Contexts, Ended
<1>5. ASSUME NEW c \in Callers, Local(c) PROVE TypeOK'
  <2>1. CASE RefuseClosed(c)
    <3>1. opctx[c] \in Contexts
      BY DEF TypeOK
    <3>2. err' \in [Callers -> Codes \cup {"ok"}]
      BY <2>1, <3>1, MappedCode, CodeSets DEF TypeOK, RefuseClosed
    <3>3. QED
      BY <2>1, <3>2 DEF TypeOK, RefuseClosed
  <2>2. CASE sessionForOperation(c)
    BY <2>2 DEF TypeOK, sessionForOperation, Obtain
  <2>3. CASE Decide(c)
    <3>1. attemptError(c) \in Codes \cup {"ok"}
      BY AttemptErrorCode
    <3>2. attempt' \in [Callers -> {0, 1}] /\ err' \in [Callers -> Codes \cup {"ok"}]
      BY <2>3, <3>1 DEF TypeOK, Decide, EndAttempt
    <3>3. session' \in Sessions \cup {None} /\ conn' \in [Sessions -> {"none", "open", "dead"}]
      BY <2>3 DEF TypeOK, Decide, EndAttempt, invalidate, Abort
    <3>4. QED
      BY <2>3, <3>2, <3>3 DEF TypeOK, Decide, EndAttempt
  <2>4. CASE StartCommand(c)
    BY <2>4 DEF TypeOK, StartCommand
  <2>5. CASE FinishBatch(c)
    BY <2>5 DEF TypeOK, FinishBatch
  <2>6. CASE Close(c)
    BY <2>6 DEF TypeOK, Close
  <2>7. CASE Release(c)
    BY <2>7 DEF TypeOK, Release, Forget, Contexts
  <2>8. CASE acquireEnded(c)
    BY <2>8 DEF TypeOK, acquireEnded, Forget, Contexts
  <2>9. QED
    BY <1>5, <2>1, <2>2, <2>3, <2>4, <2>5, <2>6, <2>7, <2>8 DEF Local
<1>6. ASSUME NEW c \in Callers, Answered(c) PROVE TypeOK'
  <2>1. CASE DialOk(c)
    BY <2>1 DEF TypeOK, DialOk
  <2>2. CASE LoginOk(c)
    BY <2>2 DEF TypeOK, LoginOk, LoggedIn
  <2>3. CASE OperateOk(c)
    BY <2>3 DEF TypeOK, OperateOk
  <2>4. CASE CommandOk(c)
    BY <2>4 DEF TypeOK, CommandOk
  <2>5. CASE LogoutOk(c)
    BY <2>5 DEF TypeOK, LogoutOk, LogoutEnds
  <2>6. QED
    BY <1>6, <2>1, <2>2, <2>3, <2>4, <2>5 DEF Answered
<1>7. ASSUME NEW c \in Callers, Failed(c) PROVE TypeOK'
  <2>0. /\ \A s : Failures(c, s, OpenCodes) \subseteq Codes
        /\ \A s : Failures(c, s, {"imap_command_failed"} \cup OutOfStepCodes) \subseteq Codes
        /\ mapIMAPError(opctx[c], "bridge_unreachable") \in Codes
    BY FailureCodes, CodeSets, MappedCode DEF TypeOK
  <2>1. CASE DialFail(c)
    BY <2>0, <2>1 DEF TypeOK, DialFail
  <2>2. CASE LoginFail(c)
    <3>1. PICK code \in Codes :
            /\ err' = [err EXCEPT ![c] = code]
            /\ freshLost' = [freshLost EXCEPT ![c] = @ \/ code = "bridge_unreachable"]
      BY <2>0, <2>2 DEF LoginFail, LoginRefused
    <3>2. err' \in [Callers -> Codes \cup {"ok"}] /\ freshLost' \in [Callers -> BOOLEAN]
      BY <3>1 DEF TypeOK
    <3>3. QED
      BY <2>2, <3>2 DEF TypeOK, LoginFail, LoginRefused
  <2>3. CASE OperateFail(c)
    <3>0. PICK code \in Codes : err' = [err EXCEPT ![c] = code]
      BY <2>0, <2>3, CodeSets DEF OperateFail
    <3>1. err' \in [Callers -> Codes \cup {"ok"}]
      BY <3>0 DEF TypeOK
    <3>2. inStep' \in [Sessions -> BOOLEAN] /\ freshLost' \in [Callers -> BOOLEAN]
      BY <2>3, Zenon DEF TypeOK, OperateFail
    <3>3. QED
      BY <2>3, <3>1, <3>2 DEF TypeOK, OperateFail
  <2>4. CASE CommandFail(c)
    <3>1. err' \in [Callers -> Codes \cup {"ok"}]
      BY <2>0, <2>4 DEF TypeOK, CommandFail
    <3>2. inStep' \in [Sessions -> BOOLEAN]
      BY <2>4 DEF TypeOK, CommandFail
    <3>3. session' \in Sessions \cup {None} /\ conn' \in [Sessions -> {"none", "open", "dead"}]
      BY <2>4 DEF TypeOK, CommandFail, invalidate, Abort
    <3>4. QED
      BY <2>4, <3>1, <3>2, <3>3 DEF TypeOK, CommandFail
  <2>5. CASE LogoutFail(c)
    <3>1. PICK code \in Codes : err' = [err EXCEPT ![c] = code]
      BY <2>0, <2>5 DEF LogoutFail, LogoutEnds
    <3>2. QED
      BY <2>5, <3>1 DEF TypeOK, LogoutFail, LogoutEnds
  <2>6. QED
    BY <1>7, <2>1, <2>2, <2>3, <2>4, <2>5 DEF Failed
<1>8. ASSUME NEW s \in Sessions, Drop(s) PROVE TypeOK'
  BY <1>8 DEF TypeOK, Drop
<1>9. CASE UNCHANGED vars
  BY <1>9 DEF TypeOK
<1>10. QED
  BY <1>1, <1>2, <1>3, <1>4, <1>5, <1>6, <1>7, <1>8, <1>9 DEF Next

\* A new adapter (NewAdapter) has the types.
LEMMA InitType == Init => TypeOK
<1>1. 0 \in 0 .. BatchSize
  BY AdapterAssumption DEF AdapterAssumption
<1>2. Init => left \in [Callers -> 0 .. BatchSize]
  BY <1>1, Zenon DEF Init
<1>3. SUFFICES ASSUME Init PROVE TypeOK
  OBVIOUS
<1>4. gate \in BOOLEAN /\ closed \in BOOLEAN /\ session \in Sessions \cup {None}
  BY <1>3 DEF Init
<1>5. /\ conn \in [Sessions -> {"none", "open", "dead"}]
      /\ pc \in [Callers -> {"idle", "waiting"} \cup Holding]
      /\ kind \in [Callers -> Kinds]
      /\ attempt \in [Callers -> {0, 1}]
  BY <1>3 DEF Init, Kinds
<1>6. /\ ctx \in [Callers -> Contexts] /\ opctx \in [Callers -> Contexts]
  BY <1>3 DEF Init, Contexts
<1>7. err \in [Callers -> Codes \cup {"ok"}]
  BY <1>3 DEF Init
<1>8. own \in [Callers -> Sessions \cup {None}]
  BY <1>3 DEF Init
<1>9. /\ inStep \in [Sessions -> BOOLEAN]
      /\ fresh \in [Callers -> BOOLEAN] /\ freshLost \in [Callers -> BOOLEAN]
  BY <1>3 DEF Init
<1>10. QED
  BY <1>2, <1>3, <1>4, <1>5, <1>6, <1>7, <1>8, <1>9 DEF TypeOK

\* Every variable keeps its type: attempts stay within the two of the loops,
\* and every error is one of the stable codes.
THEOREM TypeCorrect == Spec => []TypeOK
<1>1. QED
  BY InitType, TypeStep, PTL DEF Spec

-----------------------------------------------------------------------------
(* Safety.                                                                 *)

\* A caller gets the gate only with the token, and gives it back once.
LEMMA GateStep == TypeOK /\ GateInv /\ [Next]_vars => GateInv'
<1> SUFFICES ASSUME TypeOK, GateInv, [Next]_vars PROVE GateInv'
  OBVIOUS
<1> USE DEF adapterVars, callVars, history, vars, Holding, Blocking, TypeOK, GateInv
<1> USE AdapterAssumption DEF AdapterAssumption
<1>1. ASSUME NEW c \in Callers, NEW k \in Kinds, Begin(c, k) PROVE GateInv'
  BY <1>1 DEF Begin
<1>2. ASSUME NEW c \in Callers, NEW e \in Ended, EndContext(c, e) PROVE GateInv'
  BY <1>2 DEF EndContext
<1>3. ASSUME NEW c \in Callers, acquire(c) PROVE GateInv'
  BY <1>3 DEF acquire, Enter
<1>4. ASSUME NEW c \in Callers, operationContext(c) PROVE GateInv'
  BY <1>4 DEF operationContext
<1>5. ASSUME NEW c \in Callers, acquireEnded(c) PROVE GateInv'
  BY <1>5 DEF acquireEnded, Forget
<1>6. ASSUME NEW c \in Callers, Release(c) PROVE GateInv'
  BY <1>6 DEF Release, Forget
<1>7. ASSUME NEW c \in Callers, RefuseClosed(c) PROVE GateInv'
  BY <1>7 DEF RefuseClosed
<1>8. ASSUME NEW c \in Callers, sessionForOperation(c) PROVE GateInv'
  BY <1>8 DEF sessionForOperation, Obtain
<1>9. ASSUME NEW c \in Callers, DialOk(c) PROVE GateInv'
  BY <1>9 DEF DialOk
<1>10. ASSUME NEW c \in Callers, DialFail(c) PROVE GateInv'
  BY <1>10 DEF DialFail
<1>11. ASSUME NEW c \in Callers, LoginOk(c) PROVE GateInv'
  BY <1>11 DEF LoginOk, LoggedIn
<1>12. ASSUME NEW c \in Callers, LoginFail(c) PROVE GateInv'
  BY <1>12 DEF LoginFail, LoginRefused
<1>13. ASSUME NEW c \in Callers, OperateOk(c) PROVE GateInv'
  BY <1>13 DEF OperateOk
<1>14. ASSUME NEW c \in Callers, OperateFail(c) PROVE GateInv'
  BY <1>14 DEF OperateFail
<1>15. ASSUME NEW c \in Callers, Decide(c) PROVE GateInv'
  BY <1>15 DEF Decide, EndAttempt, invalidate, Abort
<1>16. ASSUME NEW c \in Callers, StartCommand(c) PROVE GateInv'
  BY <1>16 DEF StartCommand
<1>17. ASSUME NEW c \in Callers, CommandOk(c) PROVE GateInv'
  BY <1>17 DEF CommandOk
<1>18. ASSUME NEW c \in Callers, CommandFail(c) PROVE GateInv'
  BY <1>18 DEF CommandFail, invalidate, Abort
<1>19. ASSUME NEW c \in Callers, FinishBatch(c) PROVE GateInv'
  BY <1>19 DEF FinishBatch
<1>20. ASSUME NEW c \in Callers, Close(c) PROVE GateInv'
  BY <1>20 DEF Close
<1>21. ASSUME NEW c \in Callers, LogoutOk(c) PROVE GateInv'
  BY <1>21 DEF LogoutOk, LogoutEnds
<1>22. ASSUME NEW c \in Callers, LogoutFail(c) PROVE GateInv'
  BY <1>22 DEF LogoutFail, LogoutEnds
<1>23. ASSUME NEW s \in Sessions, Drop(s) PROVE GateInv'
  BY <1>23 DEF Drop
<1>24. CASE UNCHANGED vars
  BY <1>24
<1>25. QED
  BY <1>1, <1>2, <1>3, <1>4, <1>5, <1>6, <1>7, <1>8, <1>9, <1>10, <1>11,
     <1>12, <1>13, <1>14, <1>15, <1>16, <1>17, <1>18, <1>19, <1>20,
     <1>21, <1>22, <1>23, <1>24
     DEF Next, Local, Answered, Failed

\* The session in hand at each control point.
LEMMA OwnStep == TypeOK /\ GateInv /\ OwnInv /\ [Next]_vars => OwnInv'
<1> SUFFICES ASSUME TypeOK, GateInv, OwnInv, [Next]_vars PROVE OwnInv'
  OBVIOUS
<1> USE DEF adapterVars, callVars, history, vars, Holding, Blocking, TypeOK, GateInv, OwnInv, Kinds
<1> USE AdapterAssumption DEF AdapterAssumption
<1>1. ASSUME NEW c \in Callers, NEW k \in Kinds, Begin(c, k) PROVE OwnInv'
  BY <1>1 DEF Begin
<1>2. ASSUME NEW c \in Callers, NEW e \in Ended, EndContext(c, e) PROVE OwnInv'
  BY <1>2 DEF EndContext
<1>3. ASSUME NEW c \in Callers, acquire(c) PROVE OwnInv'
  BY <1>3 DEF acquire, Enter
<1>4. ASSUME NEW c \in Callers, operationContext(c) PROVE OwnInv'
  BY <1>4 DEF operationContext
<1>5. ASSUME NEW c \in Callers, acquireEnded(c) PROVE OwnInv'
  BY <1>5 DEF acquireEnded, Forget
<1>6. ASSUME NEW c \in Callers, Release(c) PROVE OwnInv'
  BY <1>6 DEF Release, Forget
<1>7. ASSUME NEW c \in Callers, RefuseClosed(c) PROVE OwnInv'
  BY <1>7 DEF RefuseClosed
<1>8. ASSUME NEW c \in Callers, sessionForOperation(c) PROVE OwnInv'
  BY <1>8 DEF sessionForOperation, Obtain
<1>9. ASSUME NEW c \in Callers, DialOk(c) PROVE OwnInv'
  BY <1>9 DEF DialOk
<1>10. ASSUME NEW c \in Callers, DialFail(c) PROVE OwnInv'
  <2>1. err'[c] # "ok"
    <3>1. PICK code \in Codes : err' = [err EXCEPT ![c] = code]
      BY <1>10, FailureCodes, MappedCode, CodeSets DEF DialFail
    <3>2. QED
      BY <3>1, CodeSets
  <2>2. QED
    BY <1>10, <2>1 DEF DialFail
<1>11. ASSUME NEW c \in Callers, LoginOk(c) PROVE OwnInv'
  BY <1>11 DEF LoginOk, LoggedIn
<1>12. ASSUME NEW c \in Callers, LoginFail(c) PROVE OwnInv'
  <2>1. err'[c] # "ok"
    <3>1. PICK code \in Codes : err' = [err EXCEPT ![c] = code]
      BY <1>12, FailureCodes, MappedCode, CodeSets DEF LoginFail, LoginRefused
    <3>2. QED
      BY <3>1, CodeSets
  <2>2. QED
    BY <1>12, <2>1 DEF LoginFail, LoginRefused
<1>13. ASSUME NEW c \in Callers, OperateOk(c) PROVE OwnInv'
  BY <1>13 DEF OperateOk
<1>14. ASSUME NEW c \in Callers, OperateFail(c) PROVE OwnInv'
  BY <1>14 DEF OperateFail
<1>15. ASSUME NEW c \in Callers, Decide(c) PROVE OwnInv'
  <2>1. attemptError(c) = "ok" => err[c] = "ok"
    BY AttemptErrorCode
  <2>2. CASE session' = session /\ conn' = conn
    <3>1. CASE kind[c] = "triage" /\ attemptError(c) = "ok"
      <4>1. pc' = [pc EXCEPT ![c] = "writing"] /\ own' = own
        BY <1>15, <3>1 DEF Decide, EndAttempt, canReplay
      <4>2. own[c] = session /\ session # None
        BY <1>15, <2>1, <3>1 DEF Decide, EndAttempt
      <4>3. QED
        BY <1>15, <2>2, <3>1, <4>1, <4>2 DEF Decide, EndAttempt
    <3>2. CASE ~(kind[c] = "triage" /\ attemptError(c) = "ok")
      <4>1. /\ own' = [own EXCEPT ![c] = None]
            /\ pc' \in {[pc EXCEPT ![c] = "ready"], [pc EXCEPT ![c] = "returning"]}
            /\ kind' = kind
        BY <1>15, <3>2 DEF Decide, EndAttempt
      <4>2. ASSUME NEW d \in Callers, d # c
            PROVE  pc'[d] \in {"idle", "waiting"} /\ own'[d] = None
        BY <1>15, <4>1, <4>2 DEF Decide, EndAttempt
      <4>3. own'[c] = None /\ pc'[c] \in {"ready", "returning"} /\ kind[c] # "close"
        BY <1>15, <4>1 DEF Decide, EndAttempt
      <4>4. QED
        BY <2>2, <4>1, <4>2, <4>3
    <3>3. QED
      BY <3>1, <3>2
  <2>3. CASE session' = None /\ attemptError(c) # "ok"
    BY <1>15, <2>3 DEF Decide, EndAttempt
  <2>4. QED
    BY <1>15, <2>2, <2>3 DEF Decide, EndAttempt, invalidate, Abort, invalidatesSession, canReplay
<1>16. ASSUME NEW c \in Callers, StartCommand(c) PROVE OwnInv'
  BY <1>16 DEF StartCommand
<1>17. ASSUME NEW c \in Callers, CommandOk(c) PROVE OwnInv'
  BY <1>17 DEF CommandOk
<1>18. ASSUME NEW c \in Callers, CommandFail(c) PROVE OwnInv'
  BY <1>18 DEF CommandFail, invalidate, Abort
<1>19. ASSUME NEW c \in Callers, FinishBatch(c) PROVE OwnInv'
  BY <1>19 DEF FinishBatch
<1>20. ASSUME NEW c \in Callers, Close(c) PROVE OwnInv'
  BY <1>20 DEF Close
<1>21. ASSUME NEW c \in Callers, LogoutOk(c) PROVE OwnInv'
  BY <1>21 DEF LogoutOk, LogoutEnds
<1>22. ASSUME NEW c \in Callers, LogoutFail(c) PROVE OwnInv'
  BY <1>22 DEF LogoutFail, LogoutEnds
<1>23. ASSUME NEW s \in Sessions, Drop(s) PROVE OwnInv'
  BY <1>23 DEF Drop
<1>24. CASE UNCHANGED vars
  BY <1>24
<1>25. QED
  BY <1>1, <1>2, <1>3, <1>4, <1>5, <1>6, <1>7, <1>8, <1>9, <1>10, <1>11,
     <1>12, <1>13, <1>14, <1>15, <1>16, <1>17, <1>18, <1>19, <1>20,
     <1>21, <1>22, <1>23, <1>24
     DEF Next, Local, Answered, Failed

\* A transport changes hands, is retained or is closed; it is never dropped.
LEMMA LeakStep == TypeOK /\ GateInv /\ OwnInv /\ NoTransportLeak /\ [Next]_vars => NoTransportLeak'
<1> SUFFICES ASSUME TypeOK, GateInv, OwnInv, NoTransportLeak, [Next]_vars PROVE NoTransportLeak'
  OBVIOUS
<1> USE DEF adapterVars, callVars, history, vars, Holding, Blocking, TypeOK, GateInv, OwnInv,
        NoTransportLeak
<1> USE AdapterAssumption DEF AdapterAssumption
<1>1. ASSUME NEW c \in Callers, NEW k \in Kinds, Begin(c, k) PROVE NoTransportLeak'
  BY <1>1 DEF Begin
<1>2. ASSUME NEW c \in Callers, NEW e \in Ended, EndContext(c, e) PROVE NoTransportLeak'
  BY <1>2 DEF EndContext
<1>3. ASSUME NEW c \in Callers, acquire(c) PROVE NoTransportLeak'
  BY <1>3 DEF acquire, Enter
<1>4. ASSUME NEW c \in Callers, operationContext(c) PROVE NoTransportLeak'
  BY <1>4 DEF operationContext
<1>5. ASSUME NEW c \in Callers, acquireEnded(c) PROVE NoTransportLeak'
  BY <1>5 DEF acquireEnded, Forget
<1>6. ASSUME NEW c \in Callers, Release(c) PROVE NoTransportLeak'
  BY <1>6 DEF Release, Forget
<1>7. ASSUME NEW c \in Callers, RefuseClosed(c) PROVE NoTransportLeak'
  BY <1>7 DEF RefuseClosed
<1>8. ASSUME NEW c \in Callers, sessionForOperation(c) PROVE NoTransportLeak'
  BY <1>8 DEF sessionForOperation, Obtain
<1>9. ASSUME NEW c \in Callers, DialOk(c) PROVE NoTransportLeak'
  BY <1>9 DEF DialOk
<1>10. ASSUME NEW c \in Callers, DialFail(c) PROVE NoTransportLeak'
  BY <1>10 DEF DialFail
<1>11. ASSUME NEW c \in Callers, LoginOk(c) PROVE NoTransportLeak'
  BY <1>11 DEF LoginOk, LoggedIn
<1>12. ASSUME NEW c \in Callers, LoginFail(c) PROVE NoTransportLeak'
  BY <1>12 DEF LoginFail, LoginRefused
<1>13. ASSUME NEW c \in Callers, OperateOk(c) PROVE NoTransportLeak'
  BY <1>13 DEF OperateOk
<1>14. ASSUME NEW c \in Callers, OperateFail(c) PROVE NoTransportLeak'
  BY <1>14 DEF OperateFail
<1>15. ASSUME NEW c \in Callers, Decide(c) PROVE NoTransportLeak'
  BY <1>15 DEF Decide, EndAttempt, invalidate, Abort
<1>16. ASSUME NEW c \in Callers, StartCommand(c) PROVE NoTransportLeak'
  BY <1>16 DEF StartCommand
<1>17. ASSUME NEW c \in Callers, CommandOk(c) PROVE NoTransportLeak'
  BY <1>17 DEF CommandOk
<1>18. ASSUME NEW c \in Callers, CommandFail(c) PROVE NoTransportLeak'
  BY <1>18 DEF CommandFail, invalidate, Abort
<1>19. ASSUME NEW c \in Callers, FinishBatch(c) PROVE NoTransportLeak'
  BY <1>19 DEF FinishBatch
<1>20. ASSUME NEW c \in Callers, Close(c) PROVE NoTransportLeak'
  BY <1>20 DEF Close
<1>21. ASSUME NEW c \in Callers, LogoutOk(c) PROVE NoTransportLeak'
  BY <1>21 DEF LogoutOk, LogoutEnds
<1>22. ASSUME NEW c \in Callers, LogoutFail(c) PROVE NoTransportLeak'
  BY <1>22 DEF LogoutFail, LogoutEnds
<1>23. ASSUME NEW s \in Sessions, Drop(s) PROVE NoTransportLeak'
  BY <1>23 DEF Drop
<1>24. CASE UNCHANGED vars
  BY <1>24
<1>25. QED
  BY <1>1, <1>2, <1>3, <1>4, <1>5, <1>6, <1>7, <1>8, <1>9, <1>10, <1>11,
     <1>12, <1>13, <1>14, <1>15, <1>16, <1>17, <1>18, <1>19, <1>20,
     <1>21, <1>22, <1>23, <1>24
     DEF Next, Local, Answered, Failed

\* Nothing is opened or retained once the adapter is closed.
LEMMA CloseStep == TypeOK /\ GateInv /\ OwnInv /\ CloseInv /\ [Next]_vars => CloseInv'
<1> SUFFICES ASSUME TypeOK, GateInv, OwnInv, CloseInv, [Next]_vars PROVE CloseInv'
  OBVIOUS
<1> USE DEF adapterVars, callVars, history, vars, Holding, Blocking, TypeOK, GateInv, OwnInv,
        CloseInv
<1> USE AdapterAssumption DEF AdapterAssumption
<1>1. ASSUME NEW c \in Callers, NEW k \in Kinds, Begin(c, k) PROVE CloseInv'
  BY <1>1 DEF Begin
<1>2. ASSUME NEW c \in Callers, NEW e \in Ended, EndContext(c, e) PROVE CloseInv'
  BY <1>2 DEF EndContext
<1>3. ASSUME NEW c \in Callers, acquire(c) PROVE CloseInv'
  BY <1>3 DEF acquire, Enter
<1>4. ASSUME NEW c \in Callers, operationContext(c) PROVE CloseInv'
  BY <1>4 DEF operationContext
<1>5. ASSUME NEW c \in Callers, acquireEnded(c) PROVE CloseInv'
  BY <1>5 DEF acquireEnded, Forget
<1>6. ASSUME NEW c \in Callers, Release(c) PROVE CloseInv'
  BY <1>6 DEF Release, Forget
<1>7. ASSUME NEW c \in Callers, RefuseClosed(c) PROVE CloseInv'
  BY <1>7 DEF RefuseClosed
<1>8. ASSUME NEW c \in Callers, sessionForOperation(c) PROVE CloseInv'
  BY <1>8 DEF sessionForOperation, Obtain
<1>9. ASSUME NEW c \in Callers, DialOk(c) PROVE CloseInv'
  BY <1>9 DEF DialOk
<1>10. ASSUME NEW c \in Callers, DialFail(c) PROVE CloseInv'
  BY <1>10 DEF DialFail
<1>11. ASSUME NEW c \in Callers, LoginOk(c) PROVE CloseInv'
  BY <1>11 DEF LoginOk, LoggedIn
<1>12. ASSUME NEW c \in Callers, LoginFail(c) PROVE CloseInv'
  BY <1>12 DEF LoginFail, LoginRefused
<1>13. ASSUME NEW c \in Callers, OperateOk(c) PROVE CloseInv'
  BY <1>13 DEF OperateOk
<1>14. ASSUME NEW c \in Callers, OperateFail(c) PROVE CloseInv'
  BY <1>14 DEF OperateFail
<1>15. ASSUME NEW c \in Callers, Decide(c) PROVE CloseInv'
  BY <1>15 DEF Decide, EndAttempt, invalidate, Abort
<1>16. ASSUME NEW c \in Callers, StartCommand(c) PROVE CloseInv'
  BY <1>16 DEF StartCommand
<1>17. ASSUME NEW c \in Callers, CommandOk(c) PROVE CloseInv'
  BY <1>17 DEF CommandOk
<1>18. ASSUME NEW c \in Callers, CommandFail(c) PROVE CloseInv'
  BY <1>18 DEF CommandFail, invalidate, Abort
<1>19. ASSUME NEW c \in Callers, FinishBatch(c) PROVE CloseInv'
  BY <1>19 DEF FinishBatch
<1>20. ASSUME NEW c \in Callers, Close(c) PROVE CloseInv'
  BY <1>20 DEF Close
<1>21. ASSUME NEW c \in Callers, LogoutOk(c) PROVE CloseInv'
  BY <1>21 DEF LogoutOk, LogoutEnds
<1>22. ASSUME NEW c \in Callers, LogoutFail(c) PROVE CloseInv'
  BY <1>22 DEF LogoutFail, LogoutEnds
<1>23. ASSUME NEW s \in Sessions, Drop(s) PROVE CloseInv'
  BY <1>23 DEF Drop
<1>24. CASE UNCHANGED vars
  BY <1>24
<1>25. QED
  BY <1>1, <1>2, <1>3, <1>4, <1>5, <1>6, <1>7, <1>8, <1>9, <1>10, <1>11,
     <1>12, <1>13, <1>14, <1>15, <1>16, <1>17, <1>18, <1>19, <1>20,
     <1>21, <1>22, <1>23, <1>24
     DEF Next, Local, Answered, Failed

\* Reading an updated function at the updated point.
LEMMA ExceptAt ==
  ASSUME NEW S, NEW f \in [S -> BOOLEAN], NEW x \in S, NEW v
  PROVE  [f EXCEPT ![x] = v][x] = v
BY Zenon

\* Mapping an error never hides that the session must be dropped.
LEMMA InvalidatesMapped ==
  ASSUME TypeOK, NEW c \in Callers, invalidatesSession(err[c])
  PROVE  invalidatesSession(attemptError(c)) /\ attemptError(c) # "ok"
<1>1. opctx[c] \in Contexts
  BY DEF TypeOK
<1>2. QED
  BY <1>1 DEF invalidatesSession, attemptError, mapIMAPError, Contexts, Ended, Live

\* An operation that leaves bytes unread drops its session before the next.
LEMMA StepStep == TypeOK /\ GateInv /\ OwnInv /\ StepInv /\ [Next]_vars => StepInv'
<1> SUFFICES ASSUME TypeOK, GateInv, OwnInv, StepInv, [Next]_vars PROVE StepInv'
  OBVIOUS
<1> USE DEF adapterVars, callVars, history, vars, Holding, Blocking, TypeOK, GateInv, OwnInv,
        StepInv
<1> USE AdapterAssumption DEF AdapterAssumption
<1>1. ASSUME NEW c \in Callers, NEW k \in Kinds, Begin(c, k) PROVE StepInv'
  BY <1>1 DEF Begin
<1>2. ASSUME NEW c \in Callers, NEW e \in Ended, EndContext(c, e) PROVE StepInv'
  BY <1>2 DEF EndContext
<1>3. ASSUME NEW c \in Callers, acquire(c) PROVE StepInv'
  BY <1>3 DEF acquire, Enter
<1>4. ASSUME NEW c \in Callers, operationContext(c) PROVE StepInv'
  BY <1>4 DEF operationContext
<1>5. ASSUME NEW c \in Callers, acquireEnded(c) PROVE StepInv'
  BY <1>5 DEF acquireEnded, Forget
<1>6. ASSUME NEW c \in Callers, Release(c) PROVE StepInv'
  BY <1>6 DEF Release, Forget
<1>7. ASSUME NEW c \in Callers, RefuseClosed(c) PROVE StepInv'
  BY <1>7 DEF RefuseClosed
<1>8. ASSUME NEW c \in Callers, sessionForOperation(c) PROVE StepInv'
  BY <1>8 DEF sessionForOperation, Obtain
<1>9. ASSUME NEW c \in Callers, DialOk(c) PROVE StepInv'
  BY <1>9 DEF DialOk
<1>10. ASSUME NEW c \in Callers, DialFail(c) PROVE StepInv'
  BY <1>10 DEF DialFail
<1>11. ASSUME NEW c \in Callers, LoginOk(c) PROVE StepInv'
  BY <1>11 DEF LoginOk, LoggedIn
<1>12. ASSUME NEW c \in Callers, LoginFail(c) PROVE StepInv'
  BY <1>12 DEF LoginFail, LoginRefused
<1>13. ASSUME NEW c \in Callers, OperateOk(c) PROVE StepInv'
  BY <1>13 DEF OperateOk
<1>14. ASSUME NEW c \in Callers, OperateFail(c) PROVE StepInv'
  <2>0. \A d \in Callers : d # c => pc[d] \in {"idle", "waiting"}
    BY <1>14 DEF OperateFail
  <2>1. CASE kind[c] = "structure"
    <3>1. session # own[c] /\ session' = session /\ own'[c] = None
      BY <1>14, <2>1 DEF OperateFail
    <3>2. session # None => inStep'[session] /\ inStep[session]
      BY <1>14, <3>1 DEF OperateFail
    <3>3. QED
      BY <1>14, <2>0, <3>1, <3>2 DEF OperateFail
  <2>2. CASE kind[c] # "structure"
    <3>1. own[c] = session /\ session' = session /\ own' = own /\ pc'[c] = "decide" /\ inStep[session]
      BY <1>14, <2>2 DEF OperateFail
    <3>2. inStep'[own[c]] \/ invalidatesSession(err'[c])
      <4>1. CASE UNCHANGED <<inStep, freshLost>>
        BY <3>1, <4>1
      <4>2. CASE \E code \in Failures(c, own[c], {"imap_command_failed"} \cup OutOfStepCodes) :
                    /\ err' = [err EXCEPT ![c] = code]
                    /\ inStep' = [inStep EXCEPT ![own[c]] = code = "imap_command_failed"]
        <5>1. PICK code \in Failures(c, own[c], {"imap_command_failed"} \cup OutOfStepCodes) :
                    /\ err' = [err EXCEPT ![c] = code]
                    /\ inStep' = [inStep EXCEPT ![own[c]] = code = "imap_command_failed"]
          BY <4>2
        <5>2. own[c] \in Sessions /\ err'[c] = code
          BY <1>14, <5>1 DEF OperateFail
        <5>3. code # "imap_command_failed" => invalidatesSession(code)
          BY FailureInvalidates
        <5>4. inStep'[own[c]] = (code = "imap_command_failed")
          <6>1. inStep \in [Sessions -> BOOLEAN]
            OBVIOUS
          <6>2. [inStep EXCEPT ![own[c]] = code = "imap_command_failed"][own[c]]
                  = (code = "imap_command_failed")
            BY <5>2, <6>1, ExceptAt
          <6>3. QED
            BY <5>1, <6>2
        <5>5. QED
          BY <5>2, <5>3, <5>4
      <4>3. QED
        BY <1>14, <4>1, <4>2, Zenon DEF OperateFail
    <3>3. QED
      BY <1>14, <2>0, <3>1, <3>2 DEF OperateFail
  <2>3. QED
    BY <2>1, <2>2
<1>15. ASSUME NEW c \in Callers, Decide(c) PROVE StepInv'
  <2>0. \A d \in Callers : d # c => pc[d] \in {"idle", "waiting"}
    BY <1>15 DEF Decide, EndAttempt
  <2>1. own[c] # None /\ ~inStep[own[c]] =>
          invalidatesSession(attemptError(c)) /\ attemptError(c) # "ok"
    BY <1>15, InvalidatesMapped DEF Decide, EndAttempt
  <2>2. session' # None => session' = session /\ inStep'[session]
    BY <1>15, <2>0, <2>1 DEF Decide, EndAttempt, invalidate, Abort
  <2>3. pc'[c] \in {"ready", "writing", "returning"} /\ inStep' = inStep
    BY <1>15 DEF Decide, EndAttempt
  <2>4. \A d \in Callers : d # c => pc'[d] \in {"idle", "waiting"}
    BY <1>15, <2>0 DEF Decide, EndAttempt
  <2>5. QED
    BY <2>2, <2>3, <2>4
<1>16. ASSUME NEW c \in Callers, StartCommand(c) PROVE StepInv'
  BY <1>16 DEF StartCommand
<1>17. ASSUME NEW c \in Callers, CommandOk(c) PROVE StepInv'
  BY <1>17 DEF CommandOk
<1>18. ASSUME NEW c \in Callers, CommandFail(c) PROVE StepInv'
  BY <1>18 DEF CommandFail, invalidate, Abort
<1>19. ASSUME NEW c \in Callers, FinishBatch(c) PROVE StepInv'
  BY <1>19 DEF FinishBatch
<1>20. ASSUME NEW c \in Callers, Close(c) PROVE StepInv'
  BY <1>20 DEF Close
<1>21. ASSUME NEW c \in Callers, LogoutOk(c) PROVE StepInv'
  BY <1>21 DEF LogoutOk, LogoutEnds
<1>22. ASSUME NEW c \in Callers, LogoutFail(c) PROVE StepInv'
  BY <1>22 DEF LogoutFail, LogoutEnds
<1>23. ASSUME NEW s \in Sessions, Drop(s) PROVE StepInv'
  BY <1>23 DEF Drop
<1>24. CASE UNCHANGED vars
  BY <1>24
<1>25. QED
  BY <1>1, <1>2, <1>3, <1>4, <1>5, <1>6, <1>7, <1>8, <1>9, <1>10, <1>11,
     <1>12, <1>13, <1>14, <1>15, <1>16, <1>17, <1>18, <1>19, <1>20,
     <1>21, <1>22, <1>23, <1>24
     DEF Next, Local, Answered, Failed

\* The second attempt runs on a transport of its own.
LEMMA ReplayStep == TypeOK /\ GateInv /\ OwnInv /\ ReplayInv /\ [Next]_vars => ReplayInv'
<1> SUFFICES ASSUME TypeOK, GateInv, OwnInv, ReplayInv, [Next]_vars PROVE ReplayInv'
  OBVIOUS
<1> USE DEF adapterVars, callVars, history, vars, Holding, Blocking, TypeOK, GateInv, OwnInv,
        ReplayInv
<1> USE AdapterAssumption DEF AdapterAssumption
<1>1. ASSUME NEW c \in Callers, NEW k \in Kinds, Begin(c, k) PROVE ReplayInv'
  BY <1>1 DEF Begin
<1>2. ASSUME NEW c \in Callers, NEW e \in Ended, EndContext(c, e) PROVE ReplayInv'
  BY <1>2 DEF EndContext
<1>3. ASSUME NEW c \in Callers, acquire(c) PROVE ReplayInv'
  BY <1>3 DEF acquire, Enter
<1>4. ASSUME NEW c \in Callers, operationContext(c) PROVE ReplayInv'
  BY <1>4 DEF operationContext
<1>5. ASSUME NEW c \in Callers, acquireEnded(c) PROVE ReplayInv'
  BY <1>5 DEF acquireEnded, Forget
<1>6. ASSUME NEW c \in Callers, Release(c) PROVE ReplayInv'
  BY <1>6 DEF Release, Forget
<1>7. ASSUME NEW c \in Callers, RefuseClosed(c) PROVE ReplayInv'
  BY <1>7 DEF RefuseClosed
<1>8. ASSUME NEW c \in Callers, sessionForOperation(c) PROVE ReplayInv'
  BY <1>8 DEF sessionForOperation, Obtain
<1>9. ASSUME NEW c \in Callers, DialOk(c) PROVE ReplayInv'
  BY <1>9 DEF DialOk
<1>10. ASSUME NEW c \in Callers, DialFail(c) PROVE ReplayInv'
  BY <1>10 DEF DialFail
<1>11. ASSUME NEW c \in Callers, LoginOk(c) PROVE ReplayInv'
  BY <1>11 DEF LoginOk, LoggedIn
<1>12. ASSUME NEW c \in Callers, LoginFail(c) PROVE ReplayInv'
  BY <1>12 DEF LoginFail, LoginRefused
<1>13. ASSUME NEW c \in Callers, OperateOk(c) PROVE ReplayInv'
  BY <1>13 DEF OperateOk
<1>14. ASSUME NEW c \in Callers, OperateFail(c) PROVE ReplayInv'
  <2>1. attempt[c] = 1 /\ err'[c] = "bridge_unreachable" => freshLost'[c]
    BY <1>14 DEF OperateFail, CheckCodes
  <2>2. QED
    BY <1>14, <2>1 DEF OperateFail
<1>15. ASSUME NEW c \in Callers, Decide(c) PROVE ReplayInv'
  <2>1. pc'[c] = "ready" /\ kind[c] # "structure" => session' = None
    BY <1>15 DEF Decide, EndAttempt, invalidate, Abort
  <2>2. /\ pc'[c] \in {"ready", "writing", "returning"}
        /\ kind' = kind /\ fresh' = fresh /\ freshLost' = freshLost
    BY <1>15 DEF Decide, EndAttempt
  <2>3. \A d \in Callers : d # c =>
          pc'[d] = pc[d] /\ pc[d] \in {"idle", "waiting"} /\ attempt'[d] = attempt[d]
    BY <1>15 DEF Decide, EndAttempt
  <2>4. QED
    BY <2>1, <2>2, <2>3
<1>16. ASSUME NEW c \in Callers, StartCommand(c) PROVE ReplayInv'
  BY <1>16 DEF StartCommand
<1>17. ASSUME NEW c \in Callers, CommandOk(c) PROVE ReplayInv'
  BY <1>17 DEF CommandOk
<1>18. ASSUME NEW c \in Callers, CommandFail(c) PROVE ReplayInv'
  BY <1>18 DEF CommandFail, invalidate, Abort
<1>19. ASSUME NEW c \in Callers, FinishBatch(c) PROVE ReplayInv'
  BY <1>19 DEF FinishBatch
<1>20. ASSUME NEW c \in Callers, Close(c) PROVE ReplayInv'
  BY <1>20 DEF Close
<1>21. ASSUME NEW c \in Callers, LogoutOk(c) PROVE ReplayInv'
  BY <1>21 DEF LogoutOk, LogoutEnds
<1>22. ASSUME NEW c \in Callers, LogoutFail(c) PROVE ReplayInv'
  BY <1>22 DEF LogoutFail, LogoutEnds
<1>23. ASSUME NEW s \in Sessions, Drop(s) PROVE ReplayInv'
  BY <1>23 DEF Drop
<1>24. CASE UNCHANGED vars
  BY <1>24
<1>25. QED
  BY <1>1, <1>2, <1>3, <1>4, <1>5, <1>6, <1>7, <1>8, <1>9, <1>10, <1>11,
     <1>12, <1>13, <1>14, <1>15, <1>16, <1>17, <1>18, <1>19, <1>20,
     <1>21, <1>22, <1>23, <1>24
     DEF Next, Local, Answered, Failed

\* Only the loss of a fresh transport is reported.
LEMMA HealStep == TypeOK /\ OwnInv /\ ReplayInv /\ StaleSessionHeals /\ [Next]_vars => StaleSessionHeals'
<1> SUFFICES ASSUME TypeOK, OwnInv, ReplayInv, StaleSessionHeals, [Next]_vars PROVE StaleSessionHeals'
  OBVIOUS
<1> USE DEF adapterVars, callVars, history, vars, Holding, Blocking, TypeOK, OwnInv, ReplayInv,
        StaleSessionHeals
<1> USE AdapterAssumption DEF AdapterAssumption
<1>1. ASSUME NEW c \in Callers, NEW k \in Kinds, Begin(c, k) PROVE StaleSessionHeals'
  BY <1>1 DEF Begin
<1>2. ASSUME NEW c \in Callers, NEW e \in Ended, EndContext(c, e) PROVE StaleSessionHeals'
  BY <1>2 DEF EndContext
<1>3. ASSUME NEW c \in Callers, acquire(c) PROVE StaleSessionHeals'
  BY <1>3 DEF acquire, Enter
<1>4. ASSUME NEW c \in Callers, operationContext(c) PROVE StaleSessionHeals'
  BY <1>4 DEF operationContext
<1>5. ASSUME NEW c \in Callers, acquireEnded(c) PROVE StaleSessionHeals'
  BY <1>5 DEF acquireEnded, Forget
<1>6. ASSUME NEW c \in Callers, Release(c) PROVE StaleSessionHeals'
  BY <1>6 DEF Release, Forget
<1>7. ASSUME NEW c \in Callers, RefuseClosed(c) PROVE StaleSessionHeals'
  BY <1>7 DEF RefuseClosed, mapIMAPError, Contexts, Ended, Live
<1>8. ASSUME NEW c \in Callers, sessionForOperation(c) PROVE StaleSessionHeals'
  BY <1>8 DEF sessionForOperation, Obtain
<1>9. ASSUME NEW c \in Callers, DialOk(c) PROVE StaleSessionHeals'
  BY <1>9 DEF DialOk
<1>10. ASSUME NEW c \in Callers, DialFail(c) PROVE StaleSessionHeals'
  BY <1>10 DEF DialFail
<1>11. ASSUME NEW c \in Callers, LoginOk(c) PROVE StaleSessionHeals'
  BY <1>11 DEF LoginOk, LoggedIn
<1>12. ASSUME NEW c \in Callers, LoginFail(c) PROVE StaleSessionHeals'
  BY <1>12 DEF LoginFail, LoginRefused
<1>13. ASSUME NEW c \in Callers, OperateOk(c) PROVE StaleSessionHeals'
  BY <1>13 DEF OperateOk
<1>14. ASSUME NEW c \in Callers, OperateFail(c) PROVE StaleSessionHeals'
  BY <1>14 DEF OperateFail
<1>15. ASSUME NEW c \in Callers, Decide(c) PROVE StaleSessionHeals'
  <2>1. ASSUME pc'[c] = "returning", kind[c] \in {"read", "structure"},
               err'[c] = "bridge_unreachable", opctx'[c] = Live
        PROVE  freshLost'[c]
    <3>1. opctx[c] = Live
      BY <1>15, <2>1 DEF Decide, EndAttempt
    <3>2. err[c] = "bridge_unreachable" /\ attemptError(c) = "bridge_unreachable"
      BY <1>15, <2>1, <3>1 DEF Decide, EndAttempt, attemptError, mapIMAPError
    <3>3. attempt[c] = 1
      BY <1>15, <2>1, <3>1, <3>2 DEF Decide, EndAttempt, canReplay
    <3>4. QED
      BY <1>15, <3>2, <3>3 DEF Decide, EndAttempt
  <2>2. \A d \in Callers : d # c =>
          /\ pc'[d] = pc[d] /\ kind'[d] = kind[d] /\ err'[d] = err[d]
          /\ opctx'[d] = opctx[d] /\ freshLost'[d] = freshLost[d]
    BY <1>15 DEF Decide, EndAttempt
  <2>3. kind'[c] = kind[c]
    BY <1>15 DEF Decide, EndAttempt
  <2>4. QED
    BY <2>1, <2>2, <2>3
<1>16. ASSUME NEW c \in Callers, StartCommand(c) PROVE StaleSessionHeals'
  BY <1>16 DEF StartCommand
<1>17. ASSUME NEW c \in Callers, CommandOk(c) PROVE StaleSessionHeals'
  BY <1>17 DEF CommandOk
<1>18. ASSUME NEW c \in Callers, CommandFail(c) PROVE StaleSessionHeals'
  BY <1>18 DEF CommandFail, invalidate, Abort
<1>19. ASSUME NEW c \in Callers, FinishBatch(c) PROVE StaleSessionHeals'
  BY <1>19 DEF FinishBatch
<1>20. ASSUME NEW c \in Callers, Close(c) PROVE StaleSessionHeals'
  BY <1>20 DEF Close
<1>21. ASSUME NEW c \in Callers, LogoutOk(c) PROVE StaleSessionHeals'
  BY <1>21 DEF LogoutOk, LogoutEnds
<1>22. ASSUME NEW c \in Callers, LogoutFail(c) PROVE StaleSessionHeals'
  BY <1>22 DEF LogoutFail, LogoutEnds
<1>23. ASSUME NEW s \in Sessions, Drop(s) PROVE StaleSessionHeals'
  BY <1>23 DEF Drop
<1>24. CASE UNCHANGED vars
  BY <1>24
<1>25. QED
  BY <1>1, <1>2, <1>3, <1>4, <1>5, <1>6, <1>7, <1>8, <1>9, <1>10, <1>11,
     <1>12, <1>13, <1>14, <1>15, <1>16, <1>17, <1>18, <1>19, <1>20,
     <1>21, <1>22, <1>23, <1>24
     DEF Next, Local, Answered, Failed

-----------------------------------------------------------------------------
(* The invariant and what follows from it.                                 *)

\* Inv holds in every reachable state, for any Callers, Sessions and BatchSize.
THEOREM Safety == Spec => []Inv
<1>1. Init => Inv
  <2>1. SUFFICES ASSUME Init PROVE Inv
    OBVIOUS
  <2>2. TypeOK
    BY <2>1, InitType
  <2>3. GateInv /\ OwnInv /\ NoTransportLeak
    BY <2>1 DEF Init, GateInv, OwnInv, NoTransportLeak, Holding, Blocking
  <2>4. StepInv /\ CloseInv /\ ReplayInv /\ StaleSessionHeals
    BY <2>1 DEF Init, StepInv, CloseInv, ReplayInv, StaleSessionHeals
  <2>5. QED
    BY <2>2, <2>3, <2>4 DEF Inv
<1>2. Inv /\ [Next]_vars => Inv'
  BY TypeStep, GateStep, OwnStep, LeakStep, StepStep, CloseStep, ReplayStep,
     HealStep, Zenon DEF Inv
<1>3. QED
  BY <1>1, <1>2, PTL DEF Spec

\* Two calls never share the session, whatever the interleaving of acquire,
\* cancellation and Close.
THEOREM GateSerializes == Spec => []Serialized
<1>1. Inv => Serialized
  BY DEF Inv, GateInv, Serialized
<1>2. QED
  BY <1>1, Safety, PTL

\* No path through openSession, execute, the structure read or Close loses a
\* transport.
THEOREM TransportsAreOwned == Spec => []NoTransportLeak
<1>1. Inv => NoTransportLeak
  BY DEF Inv
<1>2. QED
  BY <1>1, Safety, PTL

\* No command is sent on a session with unread bytes of an earlier answer.
THEOREM StreamsAreInStep == Spec => []NoStaleResponses
<1>1. Inv => NoStaleResponses
  <2> SUFFICES ASSUME Inv, NEW c \in Callers,
                      pc[c] \in {"operating", "writing", "commanding"}
               PROVE  inStep[own[c]]
    BY DEF NoStaleResponses
  <2>1. CASE pc[c] = "operating"
    BY <2>1 DEF Inv, StepInv
  <2>2. CASE pc[c] \in {"writing", "commanding"}
    <3>1. own[c] = session /\ session # None
      BY <2>2 DEF Inv, OwnInv
    <3>2. \A d \in Callers : pc[d] # "decide"
      BY <2>2 DEF Inv, GateInv, Holding, Blocking
    <3>3. QED
      BY <3>1, <3>2 DEF Inv, StepInv
  <2>3. QED
    BY <2>1, <2>2
<1>2. QED
  BY <1>1, Safety, PTL

\* A closed adapter has no transport but the one being logged out.
THEOREM CloseDrains == Spec => []ClosedIsDrained
<1>1. Inv => ClosedIsDrained
  <2> SUFFICES ASSUME Inv, closed, NEW s \in Sessions, conn[s] # "none"
               PROVE  \E c \in Callers : pc[c] = "logout" /\ own[c] = s
    BY DEF ClosedIsDrained
  <2>1. CASE session = s
    BY <2>1, AdapterAssumption DEF Inv, CloseInv, AdapterAssumption
  <2>2. CASE session # s
    <3>1. PICK c \in Callers : own[c] = s /\ pc[c] \in Holding
      BY <2>2 DEF Inv, NoTransportLeak
    <3>2. s # None
      BY AdapterAssumption DEF AdapterAssumption
    <3>3. pc[c] \in {"idle", "waiting", "ready", "closing", "logout", "returning"}
      BY DEF Inv, CloseInv
    <3>4. QED
      BY <2>2, <3>1, <3>2, <3>3 DEF Inv, OwnInv
  <2>3. QED
    BY <2>1, <2>2
<1>2. QED
  BY <1>1, Safety, PTL

\* A retained session that died between calls is never what a call reports.
THEOREM StaleSessionIsInvisible == Spec => []StaleSessionHeals
<1>1. Inv => StaleSessionHeals
  BY DEF Inv
<1>2. QED
  BY <1>1, Safety, PTL

\* The pooled session changes only in the hands of a call that is no structure
\* read.
THEOREM StructureDedicated == Spec => StructureIsDedicated
<1>1. Inv /\ [Next]_vars =>
        [session' # session =>
           \E c \in Callers : pc[c] \in Holding /\ kind[c] # "structure"]_vars
  <2> SUFFICES ASSUME Inv, [Next]_vars, session' # session
               PROVE  \E c \in Callers : pc[c] \in Holding /\ kind[c] # "structure"
    OBVIOUS
  <2> USE DEF adapterVars, vars, Holding, Blocking
  <2>1. PICK c \in Callers : LoginOk(c) \/ Decide(c) \/ CommandFail(c) \/ LogoutOk(c) \/ LogoutFail(c)
    BY DEF Next, Local, Answered, Failed, Begin, EndContext, acquire, Enter,
       operationContext, acquireEnded, Release, RefuseClosed, sessionForOperation,
       Obtain, StartCommand, FinishBatch, Close, DialOk, OperateOk, CommandOk,
       DialFail, LoginFail, LoginRefused, OperateFail, Drop
  <2>2. CASE LoginOk(c)
    BY <2>2 DEF LoginOk, LoggedIn
  <2>3. CASE Decide(c)
    <3>1. own[c] = session /\ session # None /\ kind[c] # "structure"
      BY <2>3 DEF Decide, EndAttempt, invalidate, Abort, Inv, OwnInv
    <3>2. QED
      BY <2>3, <3>1 DEF Decide, EndAttempt
  <2>4. CASE CommandFail(c) \/ LogoutOk(c) \/ LogoutFail(c)
    BY <2>4 DEF CommandFail, LogoutOk, LogoutFail, Inv, OwnInv
  <2>5. QED
    BY <2>1, <2>2, <2>3, <2>4
<1>2. QED
  BY <1>1, Safety, PTL DEF Spec, StructureIsDedicated

\* The pooled session serves one call at a time and never a structure read.
THEOREM PooledExclusive == Spec => []PooledIsExclusive
<1>1. Inv => PooledIsExclusive
  <2> SUFFICES ASSUME Inv PROVE PooledIsExclusive
      OBVIOUS
  <2>1. Serialized
        BY DEF Inv, GateInv, Serialized
  <2>2. ASSUME NEW c \in Callers, own[c] # None, own[c] = session, kind[c] = "structure"
        PROVE  FALSE
    <3>1. pc[c] \in {"idle", "waiting"} \cup Holding
          BY DEF Inv, TypeOK, Holding, Blocking
    <3> QED BY <2>2, <3>1 DEF Inv, OwnInv, Holding, Blocking
  <2> QED BY <2>1, <2>2 DEF PooledIsExclusive
<1>2. QED
  BY <1>1, Safety, PTL
=============================================================================
