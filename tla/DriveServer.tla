----------------------------- MODULE DriveServer -----------------------------
(***************************************************************************)
(* The Drive MCP server: concurrent tool calls (makeHandler, runTool), the *)
(* single-flight handshake gate in front of every data command, and one    *)
(* CLI child process per invocation (drivecli.Client.invoke).              *)
(*                                                                         *)
(* A child may hang, die, print too much or report another version each    *)
(* time it runs; the installed binary can change while the server runs.    *)
(***************************************************************************)
EXTENDS Naturals, Sequences

CONSTANTS Requests,  \* tool calls in flight
          None       \* nobody holds the slot

ASSUME DriveServerAssumption == None \notin Requests

VARIABLES
  configured,  \* server.cli is not nil
  verified,    \* gate.verified
  slot,        \* who has filled gate.slot
  pc,          \* where each call is
  ctx,         \* its context: "live", "canceled" or "timed_out"
  timer,       \* the deadline of the running invocation has passed
  child,       \* its child process: "none", "running" or how it ended
  result,      \* "" while undecided, "ok", or the error code
  audit,       \* audit records of the call
  handshaken,  \* history: some child proved to be the pinned version
  ran          \* history: the call has invoked the CLI itself

callVars == <<pc, ctx, timer, child, result, audit, ran>>
vars == <<configured, verified, slot, callVars, handshaken>>

Ended == {"canceled", "timed_out"}

\* How a child ends.  "killed": the whole process group, by exec's Cancel.
VersionExits == {"pinned", "other", "garbled", "failed", "auth", "overflow", "killed"}
DataExits == {"good", "garbled", "truncated", "failed", "auth", "overflow", "killed"}

Errors == {"invalid_argument", "unavailable", "canceled", "timed_out",
           "bounds_exceeded", "internal"}

TypeOK ==
  /\ configured \in BOOLEAN /\ verified \in BOOLEAN
  /\ slot \in Requests \cup {None}
  /\ pc \in [Requests -> {"idle", "run", "ensure", "slot", "recheck", "version",
                          "latch", "data", "reply", "done"}]
  /\ ctx \in [Requests -> {"live"} \cup Ended]
  /\ timer \in [Requests -> BOOLEAN]
  /\ child \in [Requests -> {"none", "running"} \cup VersionExits \cup DataExits]
  /\ result \in [Requests -> Errors \cup {"", "ok"}]
  /\ audit \in [Requests -> Seq(Errors \cup {"ok"})]
  /\ handshaken \in BOOLEAN /\ ran \in [Requests -> BOOLEAN]

Init ==
  /\ configured \in BOOLEAN /\ verified = FALSE /\ slot = None
  /\ pc = [r \in Requests |-> "idle"]
  /\ ctx = [r \in Requests |-> "live"]
  /\ timer = [r \in Requests |-> FALSE]
  /\ child = [r \in Requests |-> "none"]
  /\ result = [r \in Requests |-> ""]
  /\ audit = [r \in Requests |-> <<>>]
  /\ handshaken = FALSE /\ ran = [r \in Requests |-> FALSE]

\* definition.run returns code; a slot held by r is given back by the defer.
Finish(r, code) ==
  /\ pc' = [pc EXCEPT ![r] = "reply"]
  /\ result' = [result EXCEPT ![r] = code]
  /\ slot' = IF slot = r THEN None ELSE slot

-----------------------------------------------------------------------------
(* A tool call up to the gate.                                             *)

Begin(r) ==
  /\ pc[r] = "idle"
  /\ pc' = [pc EXCEPT ![r] = "run"]
  /\ UNCHANGED <<configured, verified, slot, ctx, timer, child, result, audit,
                 handshaken, ran>>

\* runTool without a client, or arguments the tool refuses.
RefuseCall(r) ==
  /\ pc[r] = "run"
  /\ Finish(r, IF configured THEN "invalid_argument" ELSE "unavailable")
  /\ UNCHANGED <<configured, verified, ctx, timer, child, audit, handshaken, ran>>

AcceptCall(r) ==
  /\ pc[r] = "run" /\ configured
  /\ pc' = [pc EXCEPT ![r] = "ensure"]
  /\ UNCHANGED <<configured, verified, slot, ctx, timer, child, result, audit,
                 handshaken, ran>>

-----------------------------------------------------------------------------
(* handshakeGate.ensure.                                                   *)

\* The first look at the latch.
ensure(r) ==
  /\ pc[r] = "ensure"
  /\ pc' = [pc EXCEPT ![r] = IF verified THEN "data" ELSE "slot"]
  /\ UNCHANGED <<configured, verified, slot, ctx, timer, child, result, audit,
                 handshaken, ran>>

\* The select sends to the slot; the select may do so although ctx has ended.
TakeSlot(r) ==
  /\ pc[r] = "slot" /\ slot = None
  /\ slot' = r
  /\ pc' = [pc EXCEPT ![r] = "recheck"]
  /\ UNCHANGED <<configured, verified, ctx, timer, child, result, audit,
                 handshaken, ran>>

\* A bug: waiters share the failure of the handshake in flight.
SlotEndedSharesFailure(r) ==
  /\ pc[r] = "slot" /\ slot # None /\ child[slot] = "failed"
  /\ Finish(r, "unavailable")
  /\ UNCHANGED <<configured, verified, ctx, timer, child, audit, handshaken, ran>>

\* The select takes ctx.Done().
SlotEnded(r) ==
  /\ pc[r] = "slot" /\ ctx[r] # "live"
  /\ Finish(r, ctx[r])
  /\ UNCHANGED <<configured, verified, ctx, timer, child, audit, handshaken, ran>>

\* The latch, seen with the slot held.
Look(r, latched) ==
  /\ pc[r] = "recheck"
  /\ IF latched
       THEN slot' = None /\ pc' = [pc EXCEPT ![r] = "data"]
       ELSE pc' = [pc EXCEPT ![r] = "version"] /\ UNCHANGED slot
  /\ UNCHANGED <<configured, verified, ctx, timer, child, result, audit,
                 handshaken, ran>>

\* The second look, with the slot held.
Recheck(r) == Look(r, verified)

\* Handshake succeeded: latch, then the deferred receive frees the slot.
Latch(r) ==
  /\ pc[r] = "latch"
  /\ verified' = TRUE
  /\ slot' = None
  /\ pc' = [pc EXCEPT ![r] = "data"]
  /\ UNCHANGED <<configured, ctx, timer, child, result, audit, handshaken, ran>>

-----------------------------------------------------------------------------
(* One invocation of the CLI: the handshake, then the data command.        *)

\* exec refuses to start a process for a context that has ended.
StartChild(r) ==
  /\ pc[r] \in {"version", "data"} /\ child[r] = "none"
  /\ child' = [child EXCEPT ![r] = IF ctx[r] = "live" THEN "running" ELSE "failed"]
  /\ timer' = [timer EXCEPT ![r] = FALSE]
  /\ ran' = [ran EXCEPT ![r] = TRUE]
  /\ UNCHANGED <<configured, verified, slot, pc, ctx, result, audit, handshaken>>

ChildExits(r) ==
  /\ child[r] = "running"
  /\ \E e \in (IF pc[r] = "version" THEN VersionExits ELSE DataExits) \ {"killed"} :
       child' = [child EXCEPT ![r] = e]
  /\ UNCHANGED <<configured, verified, slot, pc, ctx, timer, result, audit,
                 handshaken, ran>>

\* configureProcess: the process group is killed once the deadline or the
\* context of the call has ended, and WaitDelay bounds the wait for its pipes.
Kill(r) ==
  /\ child[r] = "running" /\ (ctx[r] # "live" \/ timer[r])
  /\ child' = [child EXCEPT ![r] = "killed"]
  /\ UNCHANGED <<configured, verified, slot, pc, ctx, timer, result, audit,
                 handshaken, ran>>

\* invoke and mapDriveError: what the end of the child means to the call.
invoke(r) ==
  IF child[r] = "overflow" THEN "bounds_exceeded"
  ELSE IF ctx[r] = "canceled" THEN "canceled"
  ELSE IF ctx[r] = "timed_out" \/ timer[r] THEN "timed_out"
  ELSE IF child[r] \in {"pinned", "good"} THEN "ok" ELSE "unavailable"

\* Handshake accepts the child if it is in accepted.
Negotiated(r, accepted) ==
  /\ pc[r] = "version" /\ child[r] \notin {"none", "running"}
  /\ IF child[r] \in accepted
       THEN /\ pc' = [pc EXCEPT ![r] = "latch"]
            /\ UNCHANGED <<slot, result>>
       ELSE Finish(r, invoke(r))
  /\ handshaken' = (handshaken \/ invoke(r) = "ok")
  /\ child' = [child EXCEPT ![r] = "none"]
  /\ UNCHANGED <<configured, verified, ctx, timer, audit, ran>>

\* Handshake: version and nothing else, exactly the pinned release.
Handshake(r) == Negotiated(r, IF invoke(r) = "ok" THEN {"pinned"} ELSE {})

\* List, Info, SharingStatus.
DataCommand(r) ==
  /\ pc[r] = "data" /\ child[r] \notin {"none", "running"}
  /\ Finish(r, invoke(r))
  /\ child' = [child EXCEPT ![r] = "none"]
  /\ UNCHANGED <<configured, verified, ctx, timer, audit, handshaken, ran>>

-----------------------------------------------------------------------------
(* The answer.                                                             *)

\* A bug of runTool's recovery: the slot of a panicking handshake is not freed.
PanicKeepsSlot(r) ==
  /\ pc[r] \in {"run", "ensure", "recheck", "latch"}
  /\ pc' = [pc EXCEPT ![r] = "reply"]
  /\ result' = [result EXCEPT ![r] = "internal"]
  /\ UNCHANGED <<configured, verified, slot, ctx, timer, child, audit, handshaken, ran>>

\* runTool recovers from a panic of the tool between two blocking calls.
Panic(r) ==
  /\ pc[r] \in {"run", "ensure", "recheck", "latch"}
  /\ Finish(r, "internal")
  /\ UNCHANGED <<configured, verified, ctx, timer, child, audit, handshaken, ran>>

\* makeHandler: a result that cannot be encoded becomes "internal"; the audit
\* record is written, then the answer.
Reply(r) ==
  /\ pc[r] = "reply"
  /\ pc' = [pc EXCEPT ![r] = "done"]
  /\ \E code \in {result[r]} \cup (IF result[r] = "ok" THEN {"internal"} ELSE {}) :
       /\ audit' = [audit EXCEPT ![r] = Append(@, code)]
       /\ result' = [result EXCEPT ![r] = code]
  /\ UNCHANGED <<configured, verified, slot, ctx, timer, child, handshaken, ran>>

\* The locals of an answered call are gone; its goroutine serves another one.
Forget(r) ==
  /\ pc[r] = "done"
  /\ pc' = [pc EXCEPT ![r] = "idle"]
  /\ ctx' = [ctx EXCEPT ![r] = "live"]
  /\ timer' = [timer EXCEPT ![r] = FALSE]
  /\ result' = [result EXCEPT ![r] = ""]
  /\ audit' = [audit EXCEPT ![r] = <<>>]
  /\ ran' = [ran EXCEPT ![r] = FALSE]
  /\ UNCHANGED <<configured, verified, slot, child, handshaken>>

-----------------------------------------------------------------------------
(* The environment.                                                        *)

EndContext(r, e) ==
  /\ pc[r] \notin {"idle", "done"} /\ ctx[r] = "live"
  /\ ctx' = [ctx EXCEPT ![r] = e]
  /\ UNCHANGED <<configured, verified, slot, pc, timer, child, result, audit,
                 handshaken, ran>>

\* A bug: the invocation has no deadline besides the caller's.
TimeoutMissing(r) ==
  /\ child[r] = "running" /\ ctx[r] # "live" /\ ~timer[r]
  /\ timer' = [timer EXCEPT ![r] = TRUE]
  /\ UNCHANGED <<configured, verified, slot, pc, ctx, child, result, audit,
                 handshaken, ran>>

\* The timeout of invoke passes, while the child runs or just after it ended.
Timeout(r) ==
  /\ child[r] # "none" /\ ~timer[r]
  /\ timer' = [timer EXCEPT ![r] = TRUE]
  /\ UNCHANGED <<configured, verified, slot, pc, ctx, child, result, audit,
                 handshaken, ran>>

-----------------------------------------------------------------------------
\* Steps a goroutine takes by itself.
Local(r) ==
  \/ RefuseCall(r) \/ AcceptCall(r) \/ ensure(r) \/ SlotEnded(r) \/ Recheck(r)
  \/ Latch(r) \/ StartChild(r) \/ Handshake(r) \/ DataCommand(r) \/ Reply(r)
  \/ Forget(r) \/ Panic(r)

Next ==
  \E r \in Requests :
    \/ Begin(r) \/ Local(r) \/ TakeSlot(r)
    \/ ChildExits(r) \/ Kill(r) \/ Timeout(r)
    \/ \E e \in Ended : EndContext(r, e)

Spec == Init /\ [][Next]_vars

\* Goroutines run, the invocation timer fires, a killed process group is
\* reaped, and the senders waiting on a Go channel are served in order.
Fairness ==
  \A r \in Requests :
    /\ WF_vars(Local(r)) /\ WF_vars(Kill(r))
    /\ WF_vars(child[r] = "running" /\ Timeout(r))
    /\ SF_vars(TakeSlot(r))

FairSpec == Spec /\ Fairness

-----------------------------------------------------------------------------
(* Properties.                                                             *)

\* No data command runs before a child of this server process has proved to
\* be the pinned version.
DataAfterHandshake ==
  \A r \in Requests : pc[r] = "data" => handshaken

\* The slot is taken exactly by the one call that negotiates: a failed,
\* canceled or panicking handshake never leaves it taken.
SlotMatchesHolder ==
  \A r \in Requests : (slot = r) <=> pc[r] \in {"recheck", "version", "latch"}

\* A failed handshake fails only the calls that ran one themselves.
FailuresAreOwn ==
  \A r \in Requests :
    (pc[r] = "reply" /\ configured
       /\ result[r] \in {"unavailable", "bounds_exceeded"}) => ran[r]

\* Once the version is verified no further handshake starts, not even by the
\* calls that were already waiting for the slot.
HandshakeLatches ==
  [][verified => \A r \in Requests :
       pc[r] = "version" => child'[r] # "running"]_vars

\* Every answered call left exactly one audit record, with its outcome.
AuditedOnce ==
  \A r \in Requests : pc[r] = "done" => audit[r] = <<result[r]>>

\* The handshake gate: no data command before a verified handshake, the slot
\* comes back from failure, cancellation and panic, and a verified version is
\* never negotiated again.
GateIsSound == [](DataAfterHandshake /\ SlotMatchesHolder) /\ HandshakeLatches

\* An answer is the call's own: no failure of another call's handshake, and
\* audited once with the outcome the caller got, also if encoding it failed.
AnswersAreOwn == FailuresAreOwn /\ AuditedOnce

\* Every call is answered, although children may hang.
RequestsReturn == \A r \in Requests : (pc[r] = "run") ~> (pc[r] = "done")
=============================================================================
