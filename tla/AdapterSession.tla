--------------------------- MODULE AdapterSession ---------------------------
(***************************************************************************)
(* bridge.Adapter: concurrent calls that share one authenticated IMAP      *)
(* session behind a one-token gate.                                        *)
(*                                                                         *)
(* Four kinds of call are made on the adapter:                             *)
(*   "read"       execute: one operation on the pooled session, replayed   *)
(*                once on a fresh session after a lost transport;          *)
(*   "triage"     openTriageSource (same replay), then one command at a    *)
(*                time on the pooled session, never replayed;              *)
(*   "structure"  GetMessageAttachmentStructure: up to two dedicated       *)
(*                sessions, the pooled one untouched;                      *)
(*   "close"      Close.                                                   *)
(*                                                                         *)
(* A transport is "none" (never dialed, or closed by this process), "open" *)
(* or "dead": dropped by the peer, or closed by the context watcher while  *)
(* the session object is still around.  A transport can die at any moment, *)
(* also while its session is retained between calls.  adapter.mu is held   *)
(* only by a holder of the gate and is therefore not a variable.           *)
(***************************************************************************)
EXTENDS Naturals, FiniteSets, BridgeErrors

CONSTANTS Callers,    \* goroutines that call the adapter
          Sessions,   \* identities of transports; a closed one is reused
          None,       \* no session
          BatchSize   \* commands of one triage batch (the code allows 50 UIDs)

ASSUME AdapterAssumption ==
  /\ None \notin Sessions
  /\ BatchSize \in Nat

VARIABLES
  gate,      \* the token is in adapter.gate
  session,   \* adapter.session
  closed,    \* adapter.closed
  conn,      \* the transport behind each session
  pc, kind,  \* where each caller is, and in which kind of call
  attempt,   \* the loop variable of execute and its two siblings
  ctx,       \* the caller's context
  opctx,     \* the operation context derived from it
  err,       \* the error in hand, "ok" for nil
  own,       \* the session the caller is using or opening
  left,      \* triage commands not yet sent
  inStep,    \* history: responses of the session have been read completely
  fresh,     \* history: own was opened by this call
  freshLost  \* history: a transport dialed by this call was refused or lost

adapterVars == <<gate, session, closed>>
callVars == <<pc, kind, attempt, ctx, opctx, err, own, left>>
history == <<inStep, fresh, freshLost>>
vars == <<adapterVars, conn, callVars, history>>

Kinds == {"read", "triage", "structure", "close"}

\* Blocked on the network, holding the gate.
Blocking == {"dial", "login", "operating", "commanding", "logout"}

Holding == Blocking \cup {"ready", "decide", "writing", "closing", "returning"}

TypeOK ==
  /\ gate \in BOOLEAN /\ closed \in BOOLEAN
  /\ session \in Sessions \cup {None}
  /\ conn \in [Sessions -> {"none", "open", "dead"}]
  /\ pc \in [Callers -> {"idle", "waiting"} \cup Holding]
  /\ kind \in [Callers -> Kinds]
  /\ attempt \in [Callers -> {0, 1}]
  /\ ctx \in [Callers -> Contexts] /\ opctx \in [Callers -> Contexts]
  /\ err \in [Callers -> Codes \cup {"ok"}]
  /\ own \in [Callers -> Sessions \cup {None}]
  /\ left \in [Callers -> 0 .. BatchSize]
  /\ inStep \in [Sessions -> BOOLEAN]
  /\ fresh \in [Callers -> BOOLEAN] /\ freshLost \in [Callers -> BOOLEAN]

Init ==
  /\ gate = TRUE /\ session = None /\ closed = FALSE
  /\ conn = [s \in Sessions |-> "none"]
  /\ pc = [c \in Callers |-> "idle"]
  /\ kind = [c \in Callers |-> "read"]
  /\ attempt = [c \in Callers |-> 0]
  /\ ctx = [c \in Callers |-> Live] /\ opctx = [c \in Callers |-> Live]
  /\ err = [c \in Callers |-> "ok"]
  /\ own = [c \in Callers |-> None]
  /\ left = [c \in Callers |-> 0]
  /\ inStep = [s \in Sessions |-> TRUE]
  /\ fresh = [c \in Callers |-> FALSE] /\ freshLost = [c \in Callers |-> FALSE]

-----------------------------------------------------------------------------
(* The gate.                                                               *)

\* The locals of a call that has returned.
Forget(c) ==
  /\ pc' = [pc EXCEPT ![c] = "idle"]
  /\ kind' = [kind EXCEPT ![c] = "read"]
  /\ attempt' = [attempt EXCEPT ![c] = 0]
  /\ ctx' = [ctx EXCEPT ![c] = Live]
  /\ opctx' = [opctx EXCEPT ![c] = Live]
  /\ err' = [err EXCEPT ![c] = "ok"]
  /\ own' = [own EXCEPT ![c] = None]
  /\ left' = [left EXCEPT ![c] = 0]
  /\ fresh' = [fresh EXCEPT ![c] = FALSE]
  /\ freshLost' = [freshLost EXCEPT ![c] = FALSE]

\* A call enters the adapter and waits for the gate.
Begin(c, k) ==
  /\ pc[c] = "idle"
  /\ pc' = [pc EXCEPT ![c] = "waiting"]
  /\ kind' = [kind EXCEPT ![c] = k]
  /\ UNCHANGED <<adapterVars, conn, attempt, ctx, opctx, err, own, left, history>>

\* The gate is passed and the operation context starts (for a triage call it
\* restarts with every attempt and every command).
Enter(c, token) ==
  /\ pc[c] = "waiting" /\ token
  /\ gate' = FALSE
  /\ pc' = [pc EXCEPT ![c] = IF kind[c] = "close" THEN "closing" ELSE "ready"]
  /\ opctx' = [opctx EXCEPT ![c] = ctx[c]]
  /\ left' = [left EXCEPT ![c] = IF kind[c] = "triage" THEN BatchSize ELSE 0]
  /\ UNCHANGED <<session, closed, conn, kind, attempt, ctx, err, own, history>>

\* A bug: acquire proceeds without the token, as a select with a default would.
acquireWithoutToken(c) == Enter(c, TRUE)

\* The select of acquire takes the token.  The select picks either ready case,
\* so a call whose context has ended may still enter.
acquire(c) == Enter(c, gate)

\* The select of acquire takes ctx.Done(): the call ends without the gate.
acquireEnded(c) ==
  /\ pc[c] = "waiting" /\ ctx[c] # Live
  /\ Forget(c)
  /\ UNCHANGED <<adapterVars, conn, inStep>>

\* The deferred send of every call puts the token back.
Release(c) ==
  /\ pc[c] = "returning"
  /\ gate' = TRUE
  /\ Forget(c)
  /\ UNCHANGED <<session, closed, conn, inStep>>

-----------------------------------------------------------------------------
(* Obtaining a session.                                                    *)

\* sessionForOperation and the closed check of the structure read.
RefuseClosed(c) ==
  /\ pc[c] = "ready" /\ closed
  /\ err' = [err EXCEPT ![c] = IF kind[c] = "structure" THEN "adapter_closed"
                               ELSE mapIMAPError(opctx[c], "adapter_closed")]
  /\ pc' = [pc EXCEPT ![c] = "returning"]
  /\ UNCHANGED <<adapterVars, conn, kind, attempt, ctx, opctx, own, left, history>>

\* The retained session is used as it is; without one, or for a structure
\* read, a transport is dialed.
Obtain(c) ==
  /\ pc[c] = "ready"
  /\ IF kind[c] = "structure" \/ session = None
       THEN /\ pc' = [pc EXCEPT ![c] = "dial"]
            /\ UNCHANGED own
       ELSE /\ pc' = [pc EXCEPT ![c] = "operating"]
            /\ own' = [own EXCEPT ![c] = session]
  /\ fresh' = [fresh EXCEPT ![c] = FALSE]
  /\ UNCHANGED <<adapterVars, conn, kind, attempt, ctx, opctx, err, left, inStep, freshLost>>

\* A bug: the closed flag is only looked at by Close itself.
sessionForOperationIgnoresClosed(c) == Obtain(c)

sessionForOperation(c) == ~closed /\ Obtain(c)

\* Dial: a verified transport, or a refusal.
DialOk(c) ==
  /\ pc[c] = "dial"
  /\ \E s \in Sessions :
       /\ conn[s] = "none"
       /\ conn' = [conn EXCEPT ![s] = "open"]
       /\ inStep' = [inStep EXCEPT ![s] = TRUE]
       /\ own' = [own EXCEPT ![c] = s]
  /\ fresh' = [fresh EXCEPT ![c] = TRUE]
  /\ pc' = [pc EXCEPT ![c] = "login"]
  /\ UNCHANGED <<adapterVars, kind, attempt, ctx, opctx, err, left, freshLost>>

DialFail(c) ==
  /\ pc[c] = "dial"
  /\ err' = [err EXCEPT ![c] = mapIMAPError(opctx[c], "bridge_unreachable")]
  /\ freshLost' = [freshLost EXCEPT ![c] = TRUE]
  /\ pc' = [pc EXCEPT ![c] = "decide"]
  /\ UNCHANGED <<adapterVars, conn, kind, attempt, ctx, opctx, own, left, inStep, fresh>>

\* Greeting, credential helper and LOGIN succeed.
LoggedIn(c, retained) ==
  /\ pc[c] = "login" /\ conn[own[c]] = "open"
  /\ session' = IF kind[c] \in retained THEN own[c] ELSE session
  /\ pc' = [pc EXCEPT ![c] = "operating"]
  /\ UNCHANGED <<gate, closed, conn, kind, attempt, ctx, opctx, err, own, left, history>>

\* openSession returns and the pooled session is retained; the session of a
\* structure read stays the caller's own.
LoginOk(c) == LoggedIn(c, {"read", "triage"})

\* What a blocked exchange on transport s may fail with: everything while the
\* peer answers, only a lost transport once it is gone; an ended context hides
\* either.
Failures(c, s, answers) ==
  LET seen == IF conn[s] = "open" THEN answers ELSE {"bridge_unreachable"}
  IN {mapIMAPError(opctx[c], code) : code \in seen}

LoginRefused(c, transport) ==
  /\ pc[c] = "login"
  /\ \E code \in Failures(c, own[c], OpenCodes) :
       /\ err' = [err EXCEPT ![c] = code]
       /\ freshLost' = [freshLost EXCEPT ![c] = @ \/ code = "bridge_unreachable"]
  /\ conn' = [conn EXCEPT ![own[c]] = transport]
  /\ own' = [own EXCEPT ![c] = None]
  /\ pc' = [pc EXCEPT ![c] = "decide"]
  /\ UNCHANGED <<adapterVars, kind, attempt, ctx, opctx, left, inStep, fresh>>

\* A bug of openSession: the transport of a failed login is forgotten.
LoginFailLeaks(c) == LoginRefused(c, conn[own[c]])

\* openSession (or readStructure) fails after Dial and closes what it opened.
LoginFail(c) == LoginRefused(c, "none")

-----------------------------------------------------------------------------
(* The operation of one attempt.                                           *)

\* The operation succeeds.  A structure read has also logged out its session.
OperateOk(c) ==
  /\ pc[c] = "operating" /\ conn[own[c]] = "open"
  /\ err' = [err EXCEPT ![c] = "ok"]
  /\ pc' = [pc EXCEPT ![c] = "decide"]
  /\ IF kind[c] = "structure"
       THEN /\ conn' = [conn EXCEPT ![own[c]] = "none"]
            /\ own' = [own EXCEPT ![c] = None]
       ELSE UNCHANGED <<conn, own>>
  /\ UNCHANGED <<adapterVars, kind, attempt, ctx, opctx, left, history>>

\* The operation fails.  Unless the answer was complete, bytes of it are left
\* in the stream.  A structure read aborts its session.
OperateFail(c) ==
  /\ pc[c] = "operating"
  /\ \/ /\ \E code \in Failures(c, own[c], {"imap_command_failed"} \cup OutOfStepCodes) :
             /\ err' = [err EXCEPT ![c] = code]
             /\ inStep' = [inStep EXCEPT ![own[c]] = code = "imap_command_failed"]
             /\ freshLost' = [freshLost EXCEPT ![c] =
                                @ \/ (fresh[c] /\ code = "bridge_unreachable")]
     \/ /\ conn[own[c]] = "open"
        /\ \E code \in CheckCodes : err' = [err EXCEPT ![c] = code]
        /\ UNCHANGED <<inStep, freshLost>>
  /\ pc' = [pc EXCEPT ![c] = "decide"]
  /\ IF kind[c] = "structure"
       THEN /\ conn' = [conn EXCEPT ![own[c]] = "none"]
            /\ own' = [own EXCEPT ![c] = None]
       ELSE UNCHANGED <<conn, own>>
  /\ UNCHANGED <<adapterVars, kind, attempt, ctx, opctx, left, fresh>>

\* s is aborted, and the retained session becomes next, if it is s.
Abort(s, next) ==
  IF s # None /\ session = s
    THEN conn' = [conn EXCEPT ![s] = "none"] /\ session' = next
    ELSE UNCHANGED <<conn, session>>

\* A bug: the retained session is aborted but not forgotten.
invalidateKeepsPointer(s) == Abort(s, s)

invalidate(s) == Abort(s, None)

\* The error after one attempt: openTriageSource, readStructureAttempts and a
\* failed factory map it once more, an operation of execute does not.
attemptError(c) ==
  IF err[c] = "ok" \/ (own[c] # None /\ (kind[c] = "read" \/ err[c] \in CheckCodes))
    THEN err[c]
    ELSE mapIMAPError(opctx[c], err[c])

EndAttempt(c, replayable) ==
  LET e     == attemptError(c)
      retry == replayable /\ canReplay(opctx[c], e)
      open  == kind[c] = "triage" /\ e = "ok"
  IN /\ pc[c] = "decide"
     /\ IF retry \/ invalidatesSession(e)
          THEN invalidate(own[c])
          ELSE UNCHANGED <<conn, session>>
     /\ err' = [err EXCEPT ![c] = e]
     /\ attempt' = [attempt EXCEPT ![c] = IF retry THEN @ + 1 ELSE @]
     /\ opctx' = [opctx EXCEPT ![c] = IF kind[c] = "triage" /\ (retry \/ open)
                                      THEN ctx[c] ELSE @]
     /\ pc' = [pc EXCEPT ![c] = IF retry THEN "ready"
                                ELSE IF open THEN "writing" ELSE "returning"]
     /\ own' = [own EXCEPT ![c] = IF open THEN @ ELSE None]
     /\ UNCHANGED <<gate, closed, kind, ctx, left, history>>

\* The end of an attempt: return, or replay once on a fresh session.
Decide(c) == EndAttempt(c, attempt[c] = 0)

-----------------------------------------------------------------------------
(* Triage commands after the source is open (detailed in module Triage).   *)

StartCommand(c) ==
  /\ pc[c] = "writing" /\ left[c] > 0
  /\ left' = [left EXCEPT ![c] = @ - 1]
  /\ opctx' = [opctx EXCEPT ![c] = ctx[c]]
  /\ pc' = [pc EXCEPT ![c] = "commanding"]
  /\ UNCHANGED <<adapterVars, conn, kind, attempt, ctx, err, own, history>>

\* The command was applied or definitely refused.
CommandOk(c) ==
  /\ pc[c] = "commanding" /\ conn[own[c]] = "open"
  /\ pc' = [pc EXCEPT ![c] = "writing"]
  /\ UNCHANGED <<adapterVars, conn, kind, attempt, ctx, opctx, err, own, left, history>>

\* Any other end drops the session and stops the batch; the call returns its
\* partial results, or one code for the whole request.
CommandFail(c) ==
  /\ pc[c] = "commanding"
  /\ \E code \in Failures(c, own[c], {"imap_command_failed"} \cup OutOfStepCodes) :
       /\ err' \in {[err EXCEPT ![c] = "ok"], [err EXCEPT ![c] = code]}
       /\ inStep' = [inStep EXCEPT ![own[c]] = code = "imap_command_failed"]
  /\ invalidate(own[c])
  /\ own' = [own EXCEPT ![c] = None]
  /\ pc' = [pc EXCEPT ![c] = "returning"]
  /\ UNCHANGED <<gate, closed, kind, attempt, ctx, opctx, left, fresh, freshLost>>

FinishBatch(c) ==
  /\ pc[c] = "writing"
  /\ left[c] = 0
  /\ pc' = [pc EXCEPT ![c] = "returning"]
  /\ UNCHANGED <<adapterVars, conn, kind, attempt, ctx, opctx, err, own, left, history>>

-----------------------------------------------------------------------------
(* Close, with the gate held.                                              *)

Close(c) ==
  /\ pc[c] = "closing"
  /\ closed' = TRUE
  /\ IF ~closed /\ session # None
       THEN /\ pc' = [pc EXCEPT ![c] = "logout"]
            /\ own' = [own EXCEPT ![c] = session]
       ELSE /\ pc' = [pc EXCEPT ![c] = "returning"]
            /\ UNCHANGED own
  /\ UNCHANGED <<gate, session, conn, kind, attempt, ctx, opctx, err, left, history>>

\* Logout ends, answered or not; its transport is closed and forgotten.
LogoutEnds(c, answers) ==
  /\ \E code \in answers : err' = [err EXCEPT ![c] = code]
  /\ conn' = [conn EXCEPT ![own[c]] = "none"]
  /\ session' = None
  /\ own' = [own EXCEPT ![c] = None]
  /\ pc' = [pc EXCEPT ![c] = "returning"]
  /\ UNCHANGED <<gate, closed, kind, attempt, ctx, opctx, left, history>>

LogoutOk(c) ==
  /\ pc[c] = "logout" /\ conn[own[c]] = "open"
  /\ LogoutEnds(c, {"ok"})

LogoutFail(c) ==
  /\ pc[c] = "logout"
  /\ LogoutEnds(c, Failures(c, own[c], {"imap_command_failed"} \cup OutOfStepCodes))

-----------------------------------------------------------------------------
(* The environment: contexts end and transports die at any moment.         *)

\* The caller cancels, or its own deadline passes.  Close uses Background.
EndContext(c, e) ==
  /\ pc[c] # "idle" /\ kind[c] # "close" /\ ctx[c] = Live
  /\ ctx' = [ctx EXCEPT ![c] = e]
  /\ opctx' = [opctx EXCEPT ![c] = IF @ = Live THEN e ELSE @]
  /\ UNCHANGED <<adapterVars, conn, pc, kind, attempt, err, own, left, history>>

\* A bug: an operation context without a deadline of its own.
operationContextUnbounded(c) ==
  /\ pc[c] \in Blocking /\ opctx[c] = Live /\ ctx[c] # Live
  /\ opctx' = [opctx EXCEPT ![c] = ctx[c]]
  /\ UNCHANGED <<adapterVars, conn, pc, kind, attempt, ctx, err, own, left, history>>

\* operationContext: the command timeout passes.
operationContext(c) ==
  /\ pc[c] \in Holding /\ opctx[c] = Live
  /\ opctx' = [opctx EXCEPT ![c] = "command_timed_out"]
  /\ UNCHANGED <<adapterVars, conn, pc, kind, attempt, ctx, err, own, left, history>>

Drop(s) ==
  /\ conn[s] = "open"
  /\ conn' = [conn EXCEPT ![s] = "dead"]
  /\ UNCHANGED <<adapterVars, callVars, history>>

-----------------------------------------------------------------------------
\* Steps the caller takes by itself, without waiting for anyone.
Local(c) ==
  \/ RefuseClosed(c) \/ sessionForOperation(c) \/ Decide(c)
  \/ StartCommand(c) \/ FinishBatch(c) \/ Close(c) \/ Release(c)
  \/ acquireEnded(c)

\* Steps that wait for the peer.
Answered(c) ==
  \/ DialOk(c) \/ LoginOk(c) \/ OperateOk(c) \/ CommandOk(c) \/ LogoutOk(c)

Failed(c) ==
  \/ DialFail(c) \/ LoginFail(c) \/ OperateFail(c) \/ CommandFail(c)
  \/ LogoutFail(c)

Next ==
  \/ \E c \in Callers :
       \/ \E k \in Kinds : Begin(c, k)
       \/ \E e \in Ended : EndContext(c, e)
       \/ acquire(c) \/ operationContext(c)
       \/ Local(c) \/ Answered(c) \/ Failed(c)
  \/ \E s \in Sessions : Drop(s)

Spec == Init /\ [][Next]_vars

\* The peer owes nothing.  A goroutine that can run does run; a blocked
\* exchange ends once its context has ended, because the watcher closes the
\* transport; the operation timer fires; and the waiters of a Go channel are
\* served in order, so none waits for the gate forever.
Fairness ==
  \A c \in Callers :
    /\ WF_vars(Local(c))
    /\ WF_vars(opctx[c] # Live /\ Failed(c))
    /\ WF_vars(pc[c] \in Blocking /\ operationContext(c))
    /\ SF_vars(acquire(c))

FairSpec == Spec /\ Fairness

-----------------------------------------------------------------------------
(* Properties.                                                             *)

\* Every transport this process has not closed is the retained session or is
\* in the hands of the one caller that holds the gate: no path of openSession,
\* execute, the structure read or Close loses one.
NoTransportLeak ==
  \A s \in Sessions : conn[s] # "none" =>
    session = s \/ \E c \in Callers : own[c] = s /\ pc[c] \in Holding

\* Two calls never use the same session at once, and nobody uses one while the
\* token is in the gate.
Serialized ==
  \A c, d \in Callers :
    pc[c] \in Holding => ~gate /\ (pc[d] \in Holding => c = d)

\* No command is ever sent on a session whose stream still carries bytes of
\* an earlier answer, so no call can read another call's response.
NoStaleResponses ==
  \A c \in Callers :
    pc[c] \in {"operating", "writing", "commanding"} => inStep[own[c]]

\* A retained session that died between calls is invisible: a read or structure
\* call reports bridge_unreachable under a live context only if a transport
\* it dialed itself was refused or lost.
StaleSessionHeals ==
  \A c \in Callers :
    (/\ pc[c] = "returning" /\ kind[c] \in {"read", "structure"}
     /\ err[c] = "bridge_unreachable" /\ opctx[c] = Live)
    => freshLost[c]

\* After Close no transport is left, and none is opened again.
ClosedIsDrained ==
  closed => \A s \in Sessions : conn[s] # "none" =>
              \E c \in Callers : pc[c] = "logout" /\ own[c] = s

\* A structure read never replaces, drops or retains the pooled session.
StructureIsDedicated ==
  [][session' # session =>
       \E c \in Callers : pc[c] \in Holding /\ kind[c] # "structure"]_vars

\* The pooled session serves one call at a time, and never a structure read,
\* whose literals it is not built to bound.
PooledIsExclusive ==
  /\ Serialized
  /\ \A c \in Callers : own[c] # None /\ own[c] = session => kind[c] # "structure"

\* Every call returns, Close included, whatever the peer does.
CallsReturn == \A c \in Callers : (pc[c] = "waiting") ~> (pc[c] = "idle")
=============================================================================
