-------------------------------- MODULE Dial --------------------------------
(***************************************************************************)
(* bridge.Dial: a loopback TCP connection becomes a verified TLS transport,*)
(* directly or through STARTTLS, under one connect timeout.                *)
(*                                                                         *)
(* During the plaintext dialogue the watcher goroutine of closeOnContext   *)
(* closes the socket when the context ends.  The dialing goroutine must    *)
(* have stopped it before the transport is handed out: Dial cancels its    *)
(* own context as it returns.  Lines are abstracted to what the code tells *)
(* apart; a line of the dialogue costs its length from the shared budget.  *)
(***************************************************************************)
EXTENDS Naturals

CONSTANTS MaxCount,  \* maxStartTLSResponseCount
          MaxBytes,  \* maxStartTLSResponseBytes
          Lengths    \* lengths of the lines the peer may send

ASSUME DialAssumption ==
  MaxCount \in Nat /\ MaxBytes \in Nat /\ Lengths \subseteq Nat \ {0}

VARIABLES
  mode,      \* IMAP.TLSMode: "implicit" or "starttls"
  pc, code,  \* control point; the error of a failed Dial
  ctx,       \* the context with the connect timeout: "live" or "ended"
  watcher,   \* goroutine of closeOnContext: "off", "watching", "exited"
  stop,      \* its stop channel is closed
  socket,    \* "none", "open", or "closed" by this process
  peer,      \* the peer is still there
  deadline,  \* a deadline is set on the socket
  has,       \* hasStartTLS of the running CAPABILITY command
  count,     \* startTLSResponseBudget.count
  bytes,     \* startTLSResponseBudget.bytes
  lines,     \* history: response lines taken from the peer before TLS
  trail      \* history: what the peer has answered so far

vars == <<mode, pc, code, ctx, watcher, stop, socket, peer, deadline, has, count,
          bytes, lines, trail>>
dialogue == <<has, count, bytes, lines, trail>>

\* Waiting for the peer.
Blocked == {"connect", "greeting", "CAPABILITY", "STARTTLS", "handshake"}

Returned == {"connected", "failed"}

Codes == {"", "invalid_config", "bridge_unreachable", "tls_negotiation_failed",
          "tls_mismatch"}

TypeOK ==
  /\ mode \in {"implicit", "starttls"}
  /\ pc \in Blocked \cup Returned \cup {"config", "stop", "recheck", "unwind"}
  /\ code \in Codes
  /\ ctx \in {"live", "ended"} /\ watcher \in {"off", "watching", "exited"}
  /\ stop \in BOOLEAN /\ socket \in {"none", "open", "closed"}
  /\ peer \in BOOLEAN /\ deadline \in BOOLEAN /\ has \in BOOLEAN
  /\ count \in 0 .. MaxCount + 1 /\ bytes \in Nat /\ lines \in 0 .. MaxCount + 1
  /\ trail \subseteq {"greeted", "offered", "accepted", "verified"}

Init ==
  /\ mode \in {"implicit", "starttls"}
  /\ pc = "config" /\ code = "" /\ ctx = "live"
  /\ watcher = "off" /\ stop = FALSE /\ socket = "none" /\ peer = TRUE
  /\ deadline = FALSE /\ has = FALSE /\ count = 0 /\ bytes = 0
  /\ lines = 0 /\ trail = {}

-----------------------------------------------------------------------------
(* How Dial ends.                                                          *)

\* Dial returns: its deferred cancel ends the context.
Return(how, c) == pc' = how /\ code' = c /\ ctx' = "ended"

\* The socket is closed and the deferred stop of the watcher runs.
Close(c) ==
  /\ socket' = "closed"
  /\ IF watcher = "watching"
       THEN pc' = "unwind" /\ code' = c /\ stop' = TRUE /\ UNCHANGED ctx
       ELSE Return("failed", c) /\ UNCHANGED stop

\* connectionError: an ended context hides the cause.
connectionError(causes) == IF ctx = "ended" THEN {"bridge_unreachable"} ELSE causes

-----------------------------------------------------------------------------
(* Configuration and connection.                                           *)

RefuseConfig ==
  /\ pc = "config"
  /\ Return("failed", "invalid_config")
  /\ UNCHANGED <<mode, watcher, stop, socket, peer, deadline, dialogue>>

AcceptConfig ==
  /\ pc = "config"
  /\ pc' = "connect"
  /\ UNCHANGED <<mode, code, ctx, watcher, stop, socket, peer, deadline, dialogue>>

\* The TCP connection is there; establishStartTLS sets the deadline and starts
\* the watcher.
Connect ==
  /\ pc = "connect" /\ peer /\ ctx = "live"
  /\ socket' = "open"
  /\ IF mode = "starttls"
       THEN pc' = "greeting" /\ deadline' = TRUE /\ watcher' = "watching"
       ELSE pc' = "handshake" /\ UNCHANGED <<deadline, watcher>>
  /\ UNCHANGED <<mode, code, ctx, stop, peer, dialogue>>

ConnectFails ==
  /\ pc = "connect"
  /\ Return("failed", "bridge_unreachable")
  /\ UNCHANGED <<mode, watcher, stop, socket, peer, deadline, dialogue>>

-----------------------------------------------------------------------------
(* The plaintext dialogue of establishStartTLS.                            *)

\* A line can be read.
Readable == socket = "open" /\ peer

Greeting ==
  /\ pc = "greeting" /\ Readable
  /\ pc' = "CAPABILITY"
  /\ trail' = trail \cup {"greeted"}
  /\ UNCHANGED <<mode, code, ctx, watcher, stop, socket, peer, deadline, has,
                 count, bytes, lines>>

\* readStartTLSLine fails, or the greeting is not one.
GreetingFails ==
  /\ pc = "greeting"
  /\ \E c \in connectionError({"bridge_unreachable"}) \cup {"tls_negotiation_failed"} : Close(c)
  /\ UNCHANGED <<mode, watcher, peer, deadline, dialogue>>

\* startTLSResponseBudget.add for a line of length n; the budget is shared by
\* the two commands.
add(n) == count' = count + 1 /\ bytes' = bytes + n

Exhausted == count' > MaxCount \/ bytes' > MaxBytes

\* The tagged OK of a command: CAPABILITY must have shown STARTTLS.
Completed ==
  IF pc = "CAPABILITY"
    THEN IF has
           THEN /\ pc' = "STARTTLS"
                /\ UNCHANGED <<code, ctx, stop, socket>>
           ELSE Close("tls_negotiation_failed")
    ELSE /\ pc' = "handshake"
         /\ UNCHANGED <<code, ctx, stop, socket>>

\* One response line of imapCommand.
Line(n, line) ==
  /\ add(n)
  /\ lines' = lines + 1
  /\ has' = (has \/ line = "capability_with_STARTTLS")
  /\ trail' = trail \cup
       (CASE line = "capability_with_STARTTLS" /\ pc = "CAPABILITY" -> {"offered"}
          [] line = "tagged_OK" /\ pc = "STARTTLS" -> {"accepted"}
          [] OTHER -> {})
  /\ CASE Exhausted \/ line = "tagged_NO" ->
              \E c \in connectionError({"tls_negotiation_failed"}) : Close(c)
       [] ~Exhausted /\ line = "tagged_OK" -> Completed
       [] OTHER -> UNCHANGED <<pc, code, ctx, stop, socket>>
  /\ UNCHANGED <<mode, watcher, peer, deadline>>

\* A bug: each command starts with a budget of its own.
imapCommandFreshBudget ==
  /\ pc \in {"CAPABILITY", "STARTTLS"} /\ Readable
  /\ \/ \E n \in Lengths, line \in {"other", "capability_with_STARTTLS", "tagged_NO"} :
          Line(n, line)
     \/ /\ pc = "CAPABILITY" /\ has /\ pc' = "STARTTLS"
        /\ count' = 0 /\ bytes' = 0 /\ lines' = lines + 1
        /\ UNCHANGED <<mode, code, ctx, watcher, stop, socket, peer, deadline, has, trail>>
     \/ pc = "STARTTLS" /\ \E n \in Lengths : Line(n, "tagged_OK")

imapCommand ==
  /\ pc \in {"CAPABILITY", "STARTTLS"} /\ Readable
  /\ \E n \in Lengths,
        line \in {"other", "capability_with_STARTTLS", "tagged_OK", "tagged_NO"} :
       Line(n, line)

\* The write, or the read of a well-formed line, fails.
imapCommandFails ==
  /\ pc \in {"CAPABILITY", "STARTTLS"}
  /\ \E c \in connectionError({"tls_negotiation_failed"}) : Close(c)
  /\ UNCHANGED <<mode, watcher, peer, deadline, dialogue>>

-----------------------------------------------------------------------------
(* The TLS handshake and the return.                                       *)

\* The peer's certificate matches the pin.  STARTTLS clears the deadline and
\* goes on to stop its watcher; HandshakeContext interrupts itself and reports
\* success only if it did not.
Handshake ==
  /\ pc = "handshake" /\ Readable
  /\ trail' = trail \cup {"verified"}
  /\ deadline' = FALSE
  /\ pc' = IF mode = "implicit" THEN "recheck" ELSE "stop"
  /\ UNCHANGED <<mode, code, ctx, watcher, stop, socket, peer, has, count, bytes, lines>>

HandshakeFails ==
  /\ pc = "handshake"
  /\ \E c \in connectionError({"tls_mismatch", "bridge_unreachable"}) : Close(c)
  /\ UNCHANGED <<mode, watcher, peer, deadline, dialogue>>

\* A bug: the stop channel is closed but the watcher is not waited for.
stopCancelWatcherAsync ==
  /\ pc \in {"stop", "unwind"}
  /\ stop' = TRUE
  /\ IF pc = "stop" THEN pc' = "recheck" /\ UNCHANGED <<code, ctx>>
     ELSE Return("failed", code)
  /\ UNCHANGED <<mode, watcher, socket, peer, deadline, dialogue>>

\* close(stop), then <-exited: once on the way to the transport, or deferred.
stopCancelWatcher ==
  /\ pc \in {"stop", "unwind"}
  /\ IF ~stop
       THEN stop' = TRUE /\ UNCHANGED <<pc, code, ctx>>
       ELSE /\ watcher = "exited"
            /\ UNCHANGED stop
            /\ IF pc = "stop" THEN pc' = "recheck" /\ UNCHANGED <<code, ctx>>
               ELSE Return("failed", code)
  /\ UNCHANGED <<mode, watcher, socket, peer, deadline, dialogue>>

\* The context may have ended before the watcher stopped, with or without the
\* watcher having closed the socket.
HandOut ==
  /\ pc = "recheck"
  /\ IF mode = "starttls" /\ ctx = "ended"
       THEN Close("bridge_unreachable")
       ELSE Return("connected", "") /\ UNCHANGED <<stop, socket>>
  /\ UNCHANGED <<mode, watcher, peer, deadline, dialogue>>

-----------------------------------------------------------------------------
(* The watcher and the environment.                                        *)

\* The select of the watcher goroutine; both cases may be ready.
Watch ==
  /\ watcher = "watching"
  /\ \/ ctx = "ended" /\ socket' = "closed"
     \/ stop /\ UNCHANGED socket
  /\ watcher' = "exited"
  /\ UNCHANGED <<mode, pc, code, ctx, stop, peer, deadline, dialogue>>

\* A bug: the connect timeout covers the TCP connection only.
EndContextConnectOnly ==
  /\ pc \in {"config", "connect"} /\ ctx = "live"
  /\ ctx' = "ended"
  /\ UNCHANGED <<mode, pc, code, watcher, stop, socket, peer, deadline, dialogue>>

\* The connect timeout passes, or the caller's context ends.
EndContext ==
  /\ pc \notin Returned /\ ctx = "live"
  /\ ctx' = "ended"
  /\ UNCHANGED <<mode, pc, code, watcher, stop, socket, peer, deadline, dialogue>>

PeerLeaves ==
  /\ peer /\ peer' = FALSE
  /\ UNCHANGED <<mode, pc, code, ctx, watcher, stop, socket, deadline, dialogue>>

Done == pc \in Returned /\ UNCHANGED vars

-----------------------------------------------------------------------------
Local ==
  \/ RefuseConfig \/ AcceptConfig \/ stopCancelWatcher \/ HandOut

Answered == Connect \/ Greeting \/ imapCommand \/ Handshake

Failed == ConnectFails \/ GreetingFails \/ imapCommandFails \/ HandshakeFails

Next ==
  \/ Local \/ Answered \/ Failed \/ Watch \/ EndContext \/ PeerLeaves \/ Done

Spec == Init /\ [][Next]_vars

\* Goroutines run and the connect timer fires; a wait for the peer ends once
\* the context has.  The peer owes nothing.
Fairness ==
  /\ WF_vars(Local) /\ WF_vars(Watch) /\ WF_vars(EndContext)
  /\ WF_vars(ctx = "ended" /\ Failed)

FairSpec == Spec /\ Fairness

-----------------------------------------------------------------------------
(* Properties.                                                             *)

\* What Dial returns: a verified transport, after STARTTLS only if the peer
\* offered and accepted it, that nobody closes behind its owner's back, although
\* returning ends the context the watcher looks at, and without the deadline of
\* the dialogue; or an error and no socket.  No watcher is left behind.
DialEndsClean ==
  /\ pc = "connected" =>
       /\ socket = "open" /\ ~deadline
       /\ "verified" \in trail
       /\ mode = "starttls" => {"greeted", "offered", "accepted"} \subseteq trail
  /\ pc = "failed" => socket # "open"
  /\ pc \in Returned => watcher # "watching"

\* Before TLS the peer can make the client read at most MaxCount lines of both
\* commands together; one more ends the dialogue.
DialogueIsBounded ==
  /\ lines <= MaxCount + 1
  /\ pc \in {"handshake", "stop", "recheck", "connected"} => lines <= MaxCount

\* Dial returns although the peer says nothing.
DialReturns == <>(pc \in Returned)
=============================================================================
