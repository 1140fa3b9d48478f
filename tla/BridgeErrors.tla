---------------------------- MODULE BridgeErrors ----------------------------
(***************************************************************************)
(* The stable error vocabulary of package bridge and the three decisions   *)
(* every operation takes on it: what an error becomes once its context has *)
(* ended, whether the attempt may be replayed, and whether the session it  *)
(* happened on may be kept.                                                *)
(*                                                                         *)
(* A context is represented by the code its end maps to: Live while it     *)
(* runs, else "operation_canceled" or "command_timed_out".                 *)
(***************************************************************************)

Live == "live"

Ended == {"operation_canceled", "command_timed_out"}

Contexts == {Live} \cup Ended

\* Codes of a check the client makes on a complete answer; never mapped.
CheckCodes == {"stale_message_id"}

\* Codes that leave the response stream of the session in step: a complete
\* tagged NO or BAD, or a check on a complete answer.
InStepCodes == {"imap_command_failed"} \cup CheckCodes

\* Codes that leave unread or misread bytes behind.
OutOfStepCodes == {"bounds_exceeded", "imap_protocol_error"}

\* What opening a session can additionally fail with.
OpenCodes == {"bridge_unreachable", "authentication_failed",
              "credential_command_failed", "imap_protocol_error"}

Codes == Ended \cup InStepCodes \cup OutOfStepCodes \cup OpenCodes
           \cup {"adapter_closed", "invalid_request", "unsupported",
                   "message_not_found"}

\* mapIMAPError: an ended context hides whatever the command failed with.
mapIMAPError(ctx, code) == IF ctx = Live THEN code ELSE ctx

\* canReplay: only a lost transport, and only under a live context.
canReplay(ctx, code) == ctx = Live /\ code = "bridge_unreachable"

\* A bug of invalidatesSession: a bound is taken for a client-side condition.
invalidatesSessionKeepsBounds(code) ==
  code \in {"bridge_unreachable", "command_timed_out", "operation_canceled",
            "imap_protocol_error"}

\* invalidatesSession: the session is dropped unless its stream is in step.
invalidatesSession(code) ==
  code \in {"bridge_unreachable", "command_timed_out", "operation_canceled",
            "bounds_exceeded", "imap_protocol_error"}
=============================================================================
