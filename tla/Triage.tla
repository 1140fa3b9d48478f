------------------------------- MODULE Triage -------------------------------
(***************************************************************************)
(* One triage batch of bridge.Adapter (SetSeen, Move, Archive, Trash)      *)
(* against the mail server it writes to.                                   *)
(*                                                                         *)
(* The UIDs of the batch are 1 .. N in input order.  The server side keeps *)
(* what really happened: which messages exist, how often each was written, *)
(* which write command has reached the server and is not yet executed.  A  *)
(* delivered command may be executed after the client has dropped the      *)
(* connection, its answer may be lost, and other clients expunge messages, *)
(* change the folder list and recreate the mailbox concurrently.           *)
(*                                                                         *)
(* External assumptions, from how the code uses go-imap and IMAP: NO means *)
(* that nothing was written; UIDVALIDITY is fixed while the mailbox stays  *)
(* selected; a UID STORE or UID MOVE of an expunged UID is answered OK.    *)
(***************************************************************************)
EXTENDS Naturals, BridgeErrors, Destination

CONSTANTS N,         \* UIDs in the batch (MaxTriageUIDs = 50 in the code)
          Source,    \* the mailbox of the batch
          Requests,  \* kind and goal: "seen", "move" to a name, "attribute"
          Listings   \* folder lists of the account at various times

ASSUME TriageAssumption ==
  /\ N \in Nat \ {0}
  /\ Unresolved \notin {"INBOX"} \cup FolderNames \cup RootNames
  /\ "INBOX" \in InboxNames
  /\ \A m \in Listings : IsFiniteSet(DOMAIN m)

UID == 1 .. N

VARIABLES
  op,       \* SetSeen ("seen"), Move, or Archive and Trash ("attribute")
  pc, i,    \* control point and index of the UID in hand
  attempt,  \* loop variable of openTriageSource
  ctx,      \* the caller's context
  opctx,    \* the operation context of the step
  err,      \* code with which the attempt to open the source failed
  outcome,  \* results[...].Outcome
  request,  \* "pending", then "results" or the code of the whole request
  target,   \* mailbox resolved by prepareMove
  conn,     \* transport of the retained session: "none", "open" or "dead"
  selected, \* the session has the source mailbox selected
  moveCap,  \* go-imap's cached capabilities have MOVE
  present,  \* messages of the source mailbox
  current,  \* the mailbox still has the requested UIDVALIDITY
  listing,  \* the folder list of the account
  wire,     \* delivered write command the server has not executed yet
  reply,    \* answer on its way: "none", "ok" or "no"
  sent,     \* history: write commands delivered for each UID
  effect,   \* history: writes the server has applied to each UID
  listed,   \* history: the last listing served, and for which UID
  astray    \* history: a write was applied under another UIDVALIDITY

callVars == <<op, pc, i, attempt, ctx, opctx, err, outcome, request, target>>
mailVars == <<moveCap, present, current, listing>>
wireVars == <<wire, reply, sent, effect, astray>>
vars == <<callVars, conn, selected, mailVars, wireVars, listed>>

Moving == op.kind # "seen"

Places == {"INBOX", Unresolved} \cup FolderNames \cup RootNames

NoCommand == [uid |-> 0, name |-> "none", target |-> Unresolved]

Commands == [uid : 0 .. N, name : {"none", "STORE", "MOVE", "COPY"},
             target : Places]

Outcomes == {"applied", "refused", "not_attempted", "unknown"}

TypeOK ==
  /\ op \in Requests
  /\ pc \in {"start", "open", "select", "decide", "caps", "check", "list",
             "precheck", "write", "await", "done"}
  /\ i \in UID /\ attempt \in {0, 1}
  /\ ctx \in Contexts /\ opctx \in Contexts
  /\ err \in Codes \cup {"ok"}
  /\ outcome \in [UID -> Outcomes]
  /\ request \in Codes \cup {"pending", "results"}
  /\ target \in Places
  /\ conn \in {"none", "open", "dead"} /\ selected \in BOOLEAN
  /\ moveCap \in BOOLEAN /\ present \in SUBSET UID /\ current \in BOOLEAN
  /\ listing \in Listings
  /\ wire \in Commands /\ reply \in {"none", "ok", "no"}
  /\ sent \in [UID -> Nat] /\ effect \in [UID -> Nat]
  /\ listed \in [uid : 0 .. N, mailboxes : Listings \cup {<<>>}]
  /\ astray \in BOOLEAN

Init ==
  /\ op \in Requests
  /\ pc = "start" /\ i = 1 /\ attempt = 0
  /\ ctx = Live /\ opctx = Live /\ err = "ok"
  /\ outcome = [u \in UID |-> "not_attempted"]
  /\ request = "pending" /\ target = Unresolved
  /\ conn \in {"none", "open", "dead"} /\ selected = FALSE
  /\ moveCap \in BOOLEAN /\ present \in SUBSET UID /\ current \in BOOLEAN
  /\ listing \in Listings
  /\ wire = NoCommand /\ reply = "none"
  /\ sent = [u \in UID |-> 0] /\ effect = [u \in UID |-> 0]
  /\ listed = [uid |-> 0, mailboxes |-> <<>>]
  /\ astray = FALSE

-----------------------------------------------------------------------------
(* How a step of the batch can end.                                        *)

\* The call returns: r is "results" or the code of the whole request.
Return(r) == pc' = "done" /\ request' = r

\* refuseRemaining and a settled UID, as functions on the results.
refuseRemaining(results, from) ==
  [u \in UID |-> IF u >= from THEN "refused" ELSE results[u]]

Settle(v) == outcome' = [outcome EXCEPT ![i] = v]

\* The loop goes to the next UID, under a new operation context, or ends.
NextUID ==
  IF i < N
    THEN /\ i' = i + 1 /\ pc' = "check" /\ opctx' = ctx
         /\ UNCHANGED request
    ELSE /\ Return("results")
         /\ UNCHANGED <<i, opctx>>

\* invalidate: the retained session is aborted and forgotten.
invalidate == conn' = "none" /\ selected' = FALSE /\ reply' = "none"

Keep == UNCHANGED <<conn, selected, reply>>

\* Codes a blocked exchange may fail with (see AdapterSession).
Failures ==
  LET seen == IF conn = "open" THEN {"imap_command_failed"} \cup OutOfStepCodes
              ELSE {"bridge_unreachable"}
  IN {mapIMAPError(opctx, code) : code \in seen}

-----------------------------------------------------------------------------
(* Before the first UID.                                                   *)

\* validateTriageRequest, validateMoveDestination.
RefuseInvalid ==
  /\ pc = "start"
  /\ Return("invalid_request")
  /\ UNCHANGED <<op, i, attempt, ctx, opctx, err, outcome, target,
                 conn, selected, mailVars, wireVars, listed>>

\* Move to the source mailbox itself needs no connection.
SelfMove == op.kind = "move" /\ mailboxIdentityMatches(Source, op.goal)

RefuseSelfMove ==
  /\ pc = "start" /\ SelfMove
  /\ outcome' = refuseRemaining(outcome, 1)
  /\ Return("results")
  /\ UNCHANGED <<op, i, attempt, ctx, opctx, err, target,
                 conn, selected, mailVars, wireVars, listed>>

\* acquire, with or without the gate; the first attempt gets its context.
Acquire ==
  /\ pc = "start" /\ ~SelfMove
  /\ \/ pc' = "open" /\ UNCHANGED request
     \/ ctx # Live /\ Return(ctx)
  /\ opctx' = ctx
  /\ UNCHANGED <<op, i, attempt, ctx, err, outcome, target,
                 conn, selected, mailVars, wireVars, listed>>

\* sessionForOperation: keep the retained session or open one.
sessionForOperation ==
  /\ pc = "open"
  /\ \/ conn # "none" /\ pc' = "select" /\ UNCHANGED <<conn, moveCap, err>>
     \/ /\ conn = "none" /\ pc' = "select"
        /\ conn' = "open" /\ moveCap' \in BOOLEAN /\ UNCHANGED err
     \/ /\ conn = "none" /\ pc' = "decide"
        /\ \E code \in OpenCodes \cup {"adapter_closed"} :
             err' = mapIMAPError(opctx, code)
        /\ UNCHANGED <<conn, moveCap>>
  /\ UNCHANGED <<op, i, attempt, ctx, opctx, outcome, request, target,
                 selected, present, current, listing, wireVars, listed>>

\* SELECT is answered and the generation it reports is compared.
Selected(matches) ==
  /\ pc = "select" /\ conn = "open"
  /\ selected' = TRUE
  /\ IF matches
       THEN /\ pc' = IF Moving THEN "caps" ELSE "check"
            /\ opctx' = ctx
            /\ UNCHANGED request
       ELSE /\ Return("stale_message_id")
            /\ UNCHANGED opctx
  /\ UNCHANGED <<op, i, attempt, ctx, err, outcome, target, conn,
                 mailVars, wireVars, listed>>

SelectSource == Selected(current)

SelectFails ==
  /\ pc = "select"
  /\ err' \in Failures
  /\ pc' = "decide"
  /\ UNCHANGED <<op, i, attempt, ctx, opctx, outcome, request, target,
                 conn, selected, mailVars, wireVars, listed>>

\* The end of a failed attempt of openTriageSource.  Nothing has been written
\* yet, so a lost transport is replayed once.
openTriageSource ==
  LET e     == mapIMAPError(opctx, err)
      retry == attempt = 0 /\ canReplay(opctx, e)
  IN /\ pc = "decide"
     /\ IF retry \/ invalidatesSession(e) THEN invalidate ELSE Keep
     /\ IF retry
          THEN /\ pc' = "open" /\ attempt' = 1 /\ opctx' = ctx
               /\ UNCHANGED request
          ELSE /\ Return(e)
               /\ UNCHANGED <<attempt, opctx>>
     /\ UNCHANGED <<op, i, ctx, err, outcome, target,
                    mailVars, wire, sent, effect, astray, listed>>

\* move: a server without MOVE refuses every UID.
SupportsMove ==
  /\ pc = "caps"
  /\ IF moveCap
       THEN pc' = "check" /\ UNCHANGED <<request, outcome>>
       ELSE Return("results") /\ outcome' = refuseRemaining(outcome, 1)
  /\ UNCHANGED <<op, i, attempt, ctx, opctx, err, target,
                 conn, selected, mailVars, wireVars, listed>>

-----------------------------------------------------------------------------
(* Preparing one UID: nothing has been dispatched for it.                  *)

\* requireMessageUID answers.
requireMessageUID ==
  /\ pc = "check" /\ conn = "open"
  /\ IF i \in present
       THEN /\ pc' = IF Moving THEN "list" ELSE "write"
            /\ UNCHANGED <<outcome, i, opctx, request>>
       ELSE /\ Settle("refused")
            /\ NextUID
  /\ UNCHANGED <<op, attempt, ctx, err, target, conn, selected,
                 mailVars, wireVars, listed>>

\* The destinationResolver of the request; an attribute may lead back to the
\* source.
destinationResolver(mailboxes) ==
  IF op.kind = "move" THEN resolveMoveDestination(mailboxes, op.goal)
  ELSE LET t == resolveAttributeDestination(mailboxes, op.goal)
       IN IF mailboxIdentityMatches(Source, t) THEN Unresolved ELSE t

\* The fresh LIST of prepareMove answers and the destination is resolved.
Resolve(resolved) ==
  /\ pc = "list" /\ conn = "open"
  /\ listed' = [uid |-> i, mailboxes |-> listing]
  /\ target' = resolved
  /\ IF resolved = Unresolved
       THEN /\ outcome' = refuseRemaining(outcome, i)
            /\ Return("results")
            /\ UNCHANGED opctx
       ELSE /\ pc' = "precheck" /\ opctx' = ctx
            /\ UNCHANGED <<outcome, request>>
  /\ UNCHANGED <<op, i, attempt, ctx, err, conn, selected, mailVars, wireVars>>

\* A bug: the destination of the first UID is reused for the later ones.
prepareMoveCached == Resolve(IF target # Unresolved THEN target ELSE destinationResolver(listing))

prepareMove == Resolve(destinationResolver(listing))

\* abandonUID, and what move makes of it: the session is dropped, and the batch
\* stops with the code of this UID, or of the whole request if nothing was
\* written before.
Abandon(whole) ==
  /\ pc \in {"check", "list"}
  /\ \E code \in Failures : Return(IF whole THEN code ELSE "results")
  /\ invalidate
  /\ UNCHANGED <<op, i, attempt, ctx, opctx, err, outcome, target,
                 mailVars, wire, sent, effect, astray, listed>>

\* A bug: earlier moves are not taken into account.
abandonUIDForgetsWritten == Abandon(Moving)

abandonUID ==
  Abandon(Moving /\ \A u \in 1 .. i - 1 : outcome[u] # "applied")

-----------------------------------------------------------------------------
(* Dispatching one UID.                                                    *)

\* The outcome is unknown: the session is dropped and the batch stops.
Uncertain ==
  /\ Settle("unknown")
  /\ Return("results")
  /\ invalidate
  /\ UNCHANGED <<i, opctx>>

\* MoveUID reports unsupported, and nothing was sent.
Unsupported ==
  IF opctx = Live
    THEN /\ outcome' = refuseRemaining(outcome, i)
         /\ Return("results")
         /\ invalidate
         /\ UNCHANGED <<i, opctx>>
    ELSE Uncertain

\* MoveUID looks at the cached capabilities.
MoveUID ==
  /\ pc = "precheck"
  /\ IF moveCap
       THEN /\ pc' = "write"
            /\ UNCHANGED <<outcome, request, conn, selected, reply, i, opctx>>
       ELSE Unsupported
  /\ UNCHANGED <<op, attempt, ctx, err, target, mailVars, wire, sent,
                 effect, astray, listed>>

\* Bytes of the command for the UID in hand leave the process.
Deliver(name) ==
  /\ wire' = [uid |-> i, name |-> name, target |-> target]
  /\ sent' = [sent EXCEPT ![i] = @ + 1]
  /\ pc' = "await"
  /\ UNCHANGED <<outcome, request, conn, selected, reply, i, opctx>>

\* client.Move looks at the cached capabilities again and falls back to COPY,
\* STORE and EXPUNGE without MOVE: the armed guard must refuse that write and
\* close the connection, so that disarm reports it as unsupported.
Dispatch(guarded) ==
  /\ pc = "write"
  /\ CASE conn # "open" ->
            /\ pc' = "await"
            /\ UNCHANGED <<wire, sent, outcome, request, conn, selected, reply,
                           i, opctx>>
       [] conn = "open" /\ ~Moving -> Deliver("STORE")
       [] conn = "open" /\ Moving /\ moveCap -> Deliver("MOVE")
       [] conn = "open" /\ Moving /\ ~moveCap ->
            IF guarded THEN Unsupported /\ UNCHANGED <<wire, sent>>
            ELSE Deliver("COPY")
  /\ UNCHANGED <<op, attempt, ctx, err, target, mailVars, effect, astray, listed>>

\* A bug: only the early capability check, no dispatch guard.
dispatchUnguarded == Dispatch(FALSE)

dispatch == Dispatch(TRUE)

\* The tagged OK is read.
Acknowledged ==
  /\ pc = "await" /\ conn = "open" /\ reply = "ok"
  /\ Settle("applied")
  /\ NextUID
  /\ reply' = "none"
  /\ UNCHANGED <<op, attempt, ctx, err, target, conn, selected, mailVars,
                 wire, sent, effect, astray, listed>>

\* The tagged NO or BAD is read: a definite refusal of this UID only, unless
\* the context ended meanwhile and hides it.
Refused ==
  /\ pc = "await" /\ conn = "open" /\ reply = "no"
  /\ IF opctx = Live
       THEN /\ Settle("refused")
            /\ NextUID
            /\ reply' = "none"
            /\ UNCHANGED <<conn, selected>>
       ELSE Uncertain
  /\ UNCHANGED <<op, attempt, ctx, err, target, mailVars,
                 wire, sent, effect, astray, listed>>

\* A bug: a write that timed out is taken for one that did not happen.
LostIsRefusal ==
  /\ pc = "await" /\ Failures \cap Ended # {}
  /\ Settle("refused")
  /\ Return("results")
  /\ invalidate
  /\ UNCHANGED <<op, i, attempt, ctx, opctx, err, target, mailVars,
                 wire, sent, effect, astray, listed>>

\* A bug: the write is sent again on the same session, as the read path would.
LostReplays ==
  /\ pc = "await" /\ opctx # Live
  /\ pc' = "write" /\ opctx' = Live
  /\ UNCHANGED <<op, i, attempt, ctx, err, outcome, request, target, conn,
                 selected, mailVars, wireVars, listed>>

\* The connection is lost, the context ends or the answer is not understood.
Lost ==
  /\ pc = "await"
  /\ Failures \ {"imap_command_failed"} # {}
  /\ Uncertain
  /\ UNCHANGED <<op, attempt, ctx, err, target, mailVars,
                 wire, sent, effect, astray, listed>>

-----------------------------------------------------------------------------
(* The environment.                                                        *)

\* The caller cancels or its deadline passes.
EndContext(e) ==
  /\ pc # "done" /\ ctx = Live
  /\ ctx' = e
  /\ opctx' = IF opctx = Live THEN e ELSE opctx
  /\ UNCHANGED <<op, pc, i, attempt, err, outcome, request, target,
                 conn, selected, mailVars, wireVars, listed>>

\* The command timeout passes.
operationContext ==
  /\ pc \notin {"start", "done"} /\ opctx = Live
  /\ opctx' = "command_timed_out"
  /\ UNCHANGED <<op, pc, i, attempt, ctx, err, outcome, request, target,
                 conn, selected, mailVars, wireVars, listed>>

\* The transport dies: dropped by the peer or closed by the context watcher.
Drop ==
  /\ conn = "open"
  /\ conn' = "dead" /\ reply' = "none"
  /\ UNCHANGED <<callVars, selected, mailVars, wire, sent, effect, astray, listed>>

\* The server executes a delivered command, connection or not.
Execute ==
  /\ wire # NoCommand
  /\ wire' = NoCommand
  /\ \/ /\ reply' = IF conn = "open" THEN "ok" ELSE "none"
        /\ IF wire.uid \in present
             THEN /\ effect' = [effect EXCEPT ![wire.uid] = @ + 1]
                  /\ present' = IF wire.name = "MOVE" THEN present \ {wire.uid}
                                ELSE present
                  /\ astray' = (astray \/ ~current)
             ELSE UNCHANGED <<effect, present, astray>>
     \/ /\ reply' = IF conn = "open" THEN "no" ELSE "none"
        /\ UNCHANGED <<effect, present, astray>>
  /\ UNCHANGED <<callVars, conn, selected, moveCap, current, listing, sent, listed>>

\* A command of a dropped connection is never executed.
Discard ==
  /\ wire # NoCommand /\ conn # "open"
  /\ wire' = NoCommand
  /\ UNCHANGED <<callVars, conn, selected, mailVars, reply, sent, effect, astray, listed>>

\* Other clients and the server itself.
Expunge(u) ==
  /\ u \in present /\ present' = present \ {u}
  /\ UNCHANGED <<callVars, conn, selected, moveCap, current, listing, wireVars, listed>>

ChangeListing(m) ==
  /\ pc # "done" /\ listing' = m
  /\ UNCHANGED <<callVars, conn, selected, moveCap, present, current, wireVars, listed>>

ChangeCapabilities ==
  /\ conn = "open" /\ pc # "done" /\ moveCap' = ~moveCap
  /\ UNCHANGED <<callVars, conn, selected, present, current, listing, wireVars, listed>>

\* The mailbox is recreated; never under a session that has it selected.
Recreate ==
  /\ ~(selected /\ conn = "open") /\ wire = NoCommand
  /\ pc # "done" /\ current' = ~current
  /\ UNCHANGED <<callVars, conn, selected, moveCap, present, listing, wireVars, listed>>

-----------------------------------------------------------------------------
\* Steps the goroutine takes without an answer, or after losing one.
Local ==
  \/ RefuseInvalid \/ RefuseSelfMove \/ Acquire \/ sessionForOperation
  \/ openTriageSource \/ SupportsMove \/ MoveUID \/ dispatch

Answered ==
  \/ SelectSource \/ requireMessageUID \/ prepareMove \/ Acknowledged \/ Refused

Failed == SelectFails \/ abandonUID \/ Lost

Environment ==
  \/ \E e \in Ended : EndContext(e)
  \/ Drop \/ Execute \/ Discard \/ ChangeCapabilities \/ Recreate
  \/ \E u \in UID : Expunge(u)
  \/ \E m \in Listings : ChangeListing(m)

\* The call has returned; the server may still be at work.
Done == pc = "done" /\ UNCHANGED vars

Next == Local \/ Answered \/ Failed \/ operationContext \/ Environment \/ Done

Spec == Init /\ [][Next]_vars

\* The goroutine runs, its timers fire, and an exchange whose context has
\* ended fails because the watcher closes the transport.  The server owes
\* nothing.
Fairness ==
  /\ WF_vars(Local)
  /\ WF_vars(operationContext)
  /\ WF_vars(opctx # Live /\ Failed)

FairSpec == Spec /\ Fairness

-----------------------------------------------------------------------------
(* Properties.                                                             *)

\* A UID has its final result once the loop has left it or the call returned.
Final(u) == request = "results" \/ (request = "pending" /\ u < i /\ pc # "start")

\* The server may still apply a command to u.
Pending(u) == wire.uid = u

\* "applied" was really written, unless another client expunged the message
\* first; "refused" and "not_attempted" were not written and never will be.
OutcomesAreTrue ==
  \A u \in UID : Final(u) =>
    CASE outcome[u] = "applied" -> ~Pending(u) /\ (effect[u] = 1 \/ u \notin present)
      [] outcome[u] \in {"refused", "not_attempted"} -> ~Pending(u) /\ effect[u] = 0
      [] outcome[u] = "unknown" -> TRUE

\* A request that fails as a whole has written nothing and never will.
FailedRequestWroteNothing ==
  request \notin {"pending", "results"} =>
    \A u \in UID : effect[u] = 0 /\ ~Pending(u)

\* No write is ever replayed: one command per UID, one effect per command.
AtMostOnce == \A u \in UID : effect[u] <= sent[u] /\ sent[u] <= 1

\* After an uncertain write, and before the turn of a UID, nothing is sent.
InOrder ==
  \A u, v \in UID : u < v /\ sent[v] > 0 => outcome[u] \in {"applied", "refused"}

\* Writes are never replayed and never out of order; they go to the generation
\* of the mailbox the caller named, and for a move only as native MOVE,
\* whenever the capabilities of the server change.
WritesAreSafe ==
  /\ AtMostOnce /\ InOrder
  /\ ~astray
  /\ wire # NoCommand => wire.name = IF Moving THEN "MOVE" ELSE "STORE"

\* A move goes to a mailbox that the listing read for that very UID shows
\* exactly once, selectable, not a virtual view and not the source: the one
\* that was named, or the only one that holds the attribute.
FreshDestination ==
  wire.name = "MOVE" =>
    /\ listed.uid = wire.uid
    /\ \E k \in DOMAIN listed.mailboxes :
         LET m == listed.mailboxes[k]
         IN /\ Matching(listed.mailboxes, wire.target) = {k}
            /\ m.Attributes \cap refusedDestinationAttributes = {}
            /\ m.Name \notin AggregateNames \/ op.kind = "move"
            /\ ~mailboxIdentityMatches(Source, m.Name)
            /\ IF op.kind = "move" THEN mailboxIdentityMatches(op.goal, m.Name)
               ELSE Holders(listed.mailboxes, op.goal) = {k}

\* The verdict a caller can hold for u: none while the call runs past it.
Verdict(u) ==
  CASE request \notin {"pending", "results"} -> "failed"
    [] request = "pending" /\ outcome[u] = "not_attempted" -> "pending"
    [] OTHER -> outcome[u]

Contract == INSTANCE TriageContract
              WITH verdict <- [u \in UID |-> Verdict(u)],
                   exposed <- {u \in UID : sent[u] > 0}

\* The batch with its sessions, replays, contexts and lost answers implements
\* the contract of the triage tools: every verdict is what the contract allows,
\* and every UID gets one although the server may never answer.
HonoursContract == Contract!Spec /\ Contract!Settles

\* What the design document says of request-level failures: that they dispatch
\* no write.
FailedRequestSentNothing ==
  request \notin {"pending", "results"} => \A u \in UID : sent[u] = 0
=============================================================================
