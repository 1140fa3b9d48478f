------------------------------ MODULE SessionIO ------------------------------
(***************************************************************************)
(* What an imapSession puts between go-imap and its transport, one         *)
(* operation after the other: withContext (deadlineConn and the watcher of *)
(* closeOnContext) and withInputBudget (readBudgetConn).                   *)
(*                                                                         *)
(* Four goroutines meet here: the caller; go-imap's response reader, which *)
(* blocks in Read across operations; go-imap, which sets deadlines of its  *)
(* own; and the watcher.  The mutexes of deadlineConn and readBudgetConn   *)
(* make each of their methods one step, but readBudgetConn.Read releases   *)
(* its mutex while it waits for the transport, and the limit may change    *)
(* under it.                                                               *)
(***************************************************************************)
EXTENDS Integers

CONSTANTS Requests, \* sizes a Read is asked for: a bufio buffer (4096), a literal
                    \* read around it, the copy buffer of a discarded one (8192)
          Limits,   \* input limits of operations (the smallest is 4096)
          Idle      \* idleLimit, the budget between operations

ASSUME SessionIOAssumption ==
  Requests \subseteq Nat \ {0} /\ Limits \subseteq Nat /\ Idle \in Nat

VARIABLES
  pc,         \* the caller in withContext
  ctx,        \* context of the operation: "live" or "ended"
  watcher,    \* "off", "watching" or "exited"
  stop,       \* the watcher's stop channel is closed
  conn,       \* "open", "closed" by this process, or "lost"
  clamp,      \* deadlineConn.deadline is set
  deadline,   \* on the socket: "none", "operation", or go-imap's: "sooner", "later"
  remaining,  \* readBudgetConn.remaining
  exceeded,   \* readBudgetConn.exceeded
  reader,     \* who reads: "ready"; "waiting", go-imap's goroutine in Read;
              \* "literal", the caller in Read; "dead"; "panicked" in Read
  asked,      \* bytes of the Read in flight, as cut to what remained
  result,     \* what the operation returned
  limit,      \* history: input limit in force
  used,       \* history: bytes read since it is
  carried     \* history: bytes of the Read that was in flight when it changed

callVars == <<pc, ctx, result>>
watchVars == <<watcher, stop>>
deadlineVars == <<clamp, deadline>>
budgetVars == <<remaining, exceeded, limit, used, carried>>
readVars == <<reader, asked>>
vars == <<callVars, watchVars, conn, deadlineVars, budgetVars, readVars>>

Codes == {"ok", "bounds_exceeded", "failed", "ended"}

TypeOK ==
  /\ pc \in {"idle", "watch", "begin", "operate", "stop", "clear"}
  /\ ctx \in {"live", "ended"} /\ result \in Codes
  /\ watcher \in {"off", "watching", "exited"} /\ stop \in BOOLEAN
  /\ conn \in {"open", "closed", "lost"}
  /\ clamp \in BOOLEAN /\ deadline \in {"none", "operation", "sooner", "later"}
  /\ remaining \in Int /\ exceeded \in BOOLEAN
  /\ reader \in {"ready", "waiting", "literal", "dead", "panicked"}
  /\ asked \in Nat /\ carried \in Nat
  /\ limit \in Limits \cup {Idle} /\ used \in Nat

Init ==
  /\ pc = "idle" /\ ctx = "ended" /\ result = "ok"
  /\ watcher = "off" /\ stop = FALSE /\ conn = "open"
  /\ clamp = FALSE /\ deadline = "none"
  /\ remaining = Idle /\ exceeded = FALSE /\ limit = Idle
  /\ used = 0 /\ carried = 0 /\ reader = "ready" /\ asked = 0

-----------------------------------------------------------------------------
(* withContext around withInputBudget.                                     *)

\* setLimit.  The context of an operation always has a deadline.
setLimit ==
  /\ pc = "idle" /\ conn # "closed"
  /\ clamp' = TRUE /\ deadline' = "operation"
  /\ ctx' = "live" /\ pc' = "watch"
  /\ UNCHANGED <<result, watchVars, conn, budgetVars, readVars>>

closeOnContext ==
  /\ pc = "watch"
  /\ watcher' = "watching" /\ stop' = FALSE
  /\ pc' = "begin"
  /\ UNCHANGED <<ctx, result, conn, deadlineVars, budgetVars, readVars>>

\* readBudgetConn.begin and the first half of end.  A Read that panicked never
\* unlocked the mutex they need.
Rebudget(l) ==
  /\ reader # "panicked"
  /\ remaining' = l /\ exceeded' = FALSE
  /\ limit' = l /\ used' = 0 /\ carried' = asked

begin ==
  /\ pc = "begin"
  /\ \E l \in Limits : Rebudget(l)
  /\ pc' = "operate"
  /\ UNCHANGED <<ctx, result, watchVars, conn, deadlineVars, readVars>>

\* readBudgetConn.end, once the caller has no Read in flight; an exceeded budget wins over the operation's own error,
\* an ended context over both.
end(outcome) ==
  /\ reader # "literal" /\ Rebudget(Idle)
  /\ result' = IF ~exceeded /\ outcome = "ok" THEN "ok"
               ELSE IF ctx = "ended" THEN "ended"
               ELSE IF exceeded THEN "bounds_exceeded" ELSE "failed"
  /\ pc' = "stop"
  /\ UNCHANGED <<ctx, watchVars, conn, deadlineVars, readVars>>

\* go-imap completes the command from what the reader has read.
OperationOk == pc = "operate" /\ end("ok")

\* A refusal, an answer that is not understood, or no transport.
OperationFails == pc = "operate" /\ end("failed")

\* A bug: the watcher is told to stop but not waited for.
stopWatcherAsync ==
  /\ pc = "stop"
  /\ stop' = TRUE /\ pc' = "clear"
  /\ UNCHANGED <<ctx, result, watcher, conn, deadlineVars, budgetVars, readVars>>

\* close(stop), then <-exited.
stopWatcher ==
  /\ pc = "stop"
  /\ IF ~stop THEN stop' = TRUE /\ UNCHANGED pc
     ELSE watcher = "exited" /\ pc' = "clear" /\ UNCHANGED stop
  /\ UNCHANGED <<ctx, result, watcher, conn, deadlineVars, budgetVars, readVars>>

\* clearLimit, and return: the adapter cancels the operation context.  It drops
\* the session after an error; a bounded one is kept after a plain refusal.
clearLimit ==
  /\ pc = "clear"
  /\ clamp' = FALSE /\ deadline' = "none"
  /\ ctx' = "ended" /\ pc' = "idle"
  /\ conn' = IF result \in {"ended", "bounds_exceeded"} THEN "closed" ELSE conn
  /\ UNCHANGED <<result, watchVars, budgetVars, readVars>>

-----------------------------------------------------------------------------
(* The other goroutines.                                                   *)

\* The watcher's select; both cases may be ready.
Watch ==
  /\ watcher = "watching"
  /\ \/ ctx = "ended" /\ conn' = "closed"
     \/ stop /\ UNCHANGED conn
  /\ watcher' = "exited"
  /\ UNCHANGED <<callVars, stop, deadlineVars, budgetVars, readVars>>

\* go-imap sets or clears a deadline.
SetDeadline(clamped) ==
  /\ conn = "open"
  /\ \E d \in {"none", "sooner", "later"} :
       deadline' = IF clamped /\ d # "sooner" THEN "operation" ELSE d
  /\ UNCHANGED <<callVars, watchVars, conn, clamp, budgetVars, readVars>>

\* A bug: SetReadDeadline goes straight to the socket.
setDeadlineUnclamped == SetDeadline(FALSE)

\* setDeadline: never later than the operation in progress.
setDeadline == SetDeadline(clamp)

\* readBudgetConn.Read up to the read of the transport, for which the buffer is
\* cut to what remains.  A negative rest cannot cut it: the slice panics, with
\* the mutex locked.
ReadOf(n, who) ==
  /\ reader = "ready"
  /\ \/ remaining < 0 /\ reader' = "panicked" /\ UNCHANGED <<exceeded, asked>>
     \/ remaining = 0 /\ exceeded' = TRUE /\ reader' = "dead" /\ UNCHANGED asked
     \/ remaining > 0 /\ asked' = n /\ reader' = who /\ UNCHANGED exceeded
  /\ UNCHANGED <<callVars, watchVars, conn, deadlineVars,
                 remaining, limit, used, carried>>

\* A bug: the request is not cut to what remains.
CutNot(n) == n

Cut(n) == IF n > remaining THEN remaining ELSE n

\* go-imap's goroutine, for the next response or the rest of a literal nobody
\* wants; it may wait across operations.
ReadAsks == \E n \in Requests : ReadOf(Cut(n), "waiting")

\* readBoundedLiteral: the caller itself waits, within the operation.
LiteralAsks == pc = "operate" /\ \E n \in Requests : ReadOf(Cut(n), "literal")

InRead == reader \in {"waiting", "literal"}

\* The transport delivers; the budget charged is the one in force now, which
\* need not be the one the request was cut to.
ReadDelivers ==
  /\ InRead /\ conn = "open"
  /\ \E n \in 1 .. asked : remaining' = remaining - n /\ used' = used + n
  /\ reader' = "ready" /\ asked' = 0
  /\ UNCHANGED <<callVars, watchVars, conn, deadlineVars, exceeded, limit, carried>>

ReadFails ==
  /\ InRead /\ (conn # "open" \/ deadline # "none")
  /\ reader' = "dead" /\ asked' = 0
  /\ UNCHANGED <<callVars, watchVars, conn, deadlineVars, budgetVars>>

EndContext ==
  /\ pc # "idle" /\ ctx = "live" /\ ctx' = "ended"
  /\ UNCHANGED <<pc, result, watchVars, conn, deadlineVars, budgetVars, readVars>>

Lose ==
  /\ conn = "open" /\ conn' = "lost"
  /\ UNCHANGED <<callVars, watchVars, deadlineVars, budgetVars, readVars>>

\* The session is dropped; or a Read has panicked, and whoever needs its mutex
\* waits for ever, if the process survives at all.
Retired ==
  /\ (pc = "idle" /\ conn = "closed") \/ reader = "panicked"
  /\ UNCHANGED vars

Next ==
  \/ setLimit \/ closeOnContext \/ begin \/ OperationOk \/ OperationFails
  \/ stopWatcher \/ clearLimit
  \/ Watch \/ setDeadline
  \/ ReadAsks \/ LiteralAsks \/ ReadDelivers \/ ReadFails
  \/ EndContext \/ Lose \/ Retired

Spec == Init /\ [][Next]_vars

-----------------------------------------------------------------------------
(* Properties.                                                             *)

\* An operation takes no more input than its limit, save that a Read asked for
\* before it began is charged to it whole: go-imap's goroutine discards the
\* literal of an unsolicited FETCH in requests larger than the smallest limit (a
\* SEARCH, 4096 bytes).  Only such a Read, larger than the limit it is charged
\* to, leaves a negative rest, on which the next Read panics.
WithinBudget ==
  /\ used <= limit \/ used <= carried
  /\ remaining < 0 \/ reader = "panicked" => carried > limit

\* While an operation runs, nothing waits longer than its deadline; after it,
\* its deadline is gone and cannot end an idle session.
DeadlineIsTheOperations ==
  /\ clamp => deadline \in {"operation", "sooner"}
  /\ ~clamp => deadline # "operation"

\* The watcher of an operation never closes the session after the operation
\* has returned, although returning ends its context.
WatcherIsGone == pc = "idle" => watcher # "watching"
=============================================================================
