-------------------------- MODULE StructureSession --------------------------
(***************************************************************************)
(* readStructure: one dedicated session that reads the BODYSTRUCTURE of    *)
(* one UID through the quarantine.  Its goroutines: the caller in run,     *)
(* go-imap's reader (Quarantine), and the context, whose end closes the    *)
(* transport.                                                              *)
(***************************************************************************)
EXTENDS Quarantine, BridgeErrors

CONSTANTS Ends,        \* ways its context may end
          Rooms,       \* sizes of the buffers go-imap reads into
          Lines,       \* flat lines a peer may send, without their CRLF
          FetchBytes   \* bytes a peer may send inside a FETCH

ASSUME SessionAssumption == Ends \subseteq Ended /\ Rooms \subseteq Nat

VARIABLES
  pc,      \* the caller: its step of run, "logout" or "done"; after an error
           \* "failing", then in Abort "aborted" and "closing"
  state,   \* structureSessionState
  ctx,     \* Live, or the code of the context's end
  conn,    \* "open" or "closed"
  answered,\* the decoder got bytes since the command was sent
  err,     \* error the caller aborted with
  result   \* what readStructure returned

sessionVars == <<pc, state, ctx, conn, answered, err, result>>
vars == <<quarantineVars, sessionVars>>

Steps == {"start", "login", "examine", "fetch"}

TypeOK ==
  /\ reader \in {"idle", "source", "dead"}
  /\ s.terminal \in Terminals /\ s.dispatch \in {"idle", "active", "delivered"}
  /\ pc \in Steps \cup {"failing", "aborted", "closing", "logout", "done"}
  /\ state \in {"connected", "authenticated", "selected", "dispatched", "closed"}
  /\ ctx \in Contexts /\ conn \in {"open", "closed"} /\ answered \in BOOLEAN

Init ==
  /\ QuarantineInit
  /\ pc = "start" /\ state = "connected" /\ ctx = Live /\ conn = "open"
  /\ answered = FALSE /\ err = "none" /\ result = "none"

\* refusal: the first terminal category of the quarantine, else the mapped error.
refusal(q, code) == IF Refused(q) THEN q.terminal ELSE mapIMAPError(ctx, code)

\* The caller's step ends in an error, of which it keeps the refusal.
FailsIn(q, code) ==
  /\ pc' = "failing" /\ err' = refusal(q, code) /\ s' = q
  /\ UNCHANGED <<reader, room, count, handed, state, ctx, conn, answered, result>>

Fails(code) == FailsIn(s, code)

\* Abort: finish, then quarantine.abort.  The transport is still open and the
\* reader may be in a read of it.
Aborts ==
  /\ pc = "failing" /\ pc' = "aborted" /\ state' = "closed" /\ s' = abort(s, err)
  /\ UNCHANGED <<reader, room, count, handed, ctx, conn, answered, err, result>>

\* Abort then closes the transport.
AbortCloses ==
  /\ pc = "aborted" /\ pc' = "closing" /\ conn' = "closed"
  /\ UNCHANGED <<quarantineVars, state, ctx, answered, err, result>>

Goes(next) == /\ pc' = next /\ answered' = FALSE
              /\ UNCHANGED <<ctx, conn, err, result>>

\* advance: the only transition out of a state.
advance(from, to) == state = from /\ state' = to

\* newStructureSessionOver, whose client starts reading at once and closes
\* what it could not start; then LoadCredentials.
Start ==
  /\ pc = "start"
  /\ \/ ctx = Live /\ Goes("login") /\ advance("connected", "authenticated")
        /\ UNCHANGED quarantineVars
     \/ Fails("credential_command_failed")
     \/ /\ reader = "dead" \/ conn = "closed"
        /\ pc' = "done" /\ conn' = "closed" /\ result' = refusal(s, "bridge_unreachable")
        /\ UNCHANGED <<quarantineVars, state, ctx, answered, err>>

\* A command succeeds on an answer the decoder read after it was sent.
Answered == answered /\ s.pending = 0

\* A command fails on a refusal of the server, or with its transport or reader.
CommandFails ==
  /\ pc \in {"login", "examine", "fetch"}
  /\ \/ Answered /\ Fails("imap_command_failed")
     \/ (reader = "dead" \/ conn = "closed") /\ Fails("bridge_unreachable")

Authenticate ==
  /\ pc = "login" /\ Answered /\ Goes("examine")
  /\ advance("authenticated", "selected") /\ UNCHANGED quarantineVars

\* Examine (EXAMINE, and the UID SEARCH of requireMessageUID) has answered; the
\* UID and the generation are checked before any dispatch, and FetchStructure
\* tells the quarantine of the dispatch before the command is sent.
FetchStructure ==
  /\ pc = "examine" /\ Answered
  /\ LET begun == beginDispatch(s) IN
     \/ \E code \in {"message_not_found", "stale_message_id"} : Fails(code)
     \/ Refused(begun) /\ FailsIn(begun, begun.terminal)
     \/ /\ ~Refused(begun) /\ s' = begun
        /\ advance("selected", "dispatched") /\ Goes("fetch")
        /\ UNCHANGED <<reader, room, count, handed>>

\* The decoder has the structure and the command's completion.
Fetched ==
  /\ pc = "fetch" /\ Answered /\ s.structures > 0
  /\ Goes("logout") /\ state' = "closed" /\ UNCHANGED quarantineVars

\* Close: LOGOUT, bounded by the operation, then the transport.
Close ==
  /\ pc = "logout"
  /\ \/ Answered /\ result' = "ok"
     \/ (reader = "dead" \/ conn = "closed") /\ result' = refusal(s, "bridge_unreachable")
  /\ pc' = "done" /\ conn' = "closed"
  /\ UNCHANGED <<quarantineVars, state, ctx, answered, err>>

\* At last client.Close waits for the reader.
AbortEnds ==
  /\ pc = "closing" /\ reader = "dead"
  /\ pc' = "done" /\ result' = err
  /\ UNCHANGED <<quarantineVars, state, ctx, conn, answered, err>>

\* A bug of ContextEnds: nobody closes the transport under the reader.
ContextEndsOnly ==
  /\ ctx = Live /\ pc # "done"
  /\ ctx' \in Ends
  /\ UNCHANGED <<quarantineVars, pc, state, conn, answered, err, result>>

\* The operation's deadline passes or its caller cancels: closeOnContext
\* closes the transport.
ContextEnds ==
  /\ ctx = Live /\ pc # "done"
  /\ ctx' \in Ends /\ conn' = "closed"
  /\ UNCHANGED <<quarantineVars, pc, state, answered, err, result>>

\* operationConn.Read: an error after the end of the context is its error.
SourceError ==
  CASE ctx = "operation_canceled" -> "canceled"
    [] ctx = "command_timed_out" -> "deadline"
    [] OTHER -> "eof"

\* Bytes a peer may send next: the Lines with their CRLF; in a FETCH any of
\* FetchBytes, except that only numbers and flags take a second byte, a digit.
Offered(q) ==
  CASE Refused(q) -> {"LF"}
    [] ~Refused(q) /\ q.mode = "fetch" ->
         {b \in FetchBytes : q.state = "atom" /\ quarantineAtomChar(b)
                               => b = "1" /\ q.text[1] \in {"1", "BACKSLASH"}}
    [] ~Refused(q) /\ q.mode = "line" ->
         {"CR", "LF"} \cup {b \in Bytes : \E line \in Lines : IsPrefix(Append(q.text, b), line)}
    [] OTHER -> {line[1] : line \in Lines}

\* Chunks of one or two bytes: a boundary falls on either side of every byte.
Chunks(q) ==
  UNION {{<<b>>} \cup {<<b, c>> : c \in Applied(Offered, feedLocked(q, b))} : b \in Offered(q)}

\* The peer sends, closes, or sends on after the reader has ended.
PeerSends ==
  /\ conn = "open"
  /\ \/ \E chunk \in Chunks(s) : SourceReturns(chunk, "none")
     \/ \E b \in Offered(s) : SourceReturns(<<b>>, "eof")
     \/ SourceReturns(<<>>, "eof")

\* A closed transport fails the read that waits on it.
SourceFails == conn = "closed" /\ SourceReturns(<<>>, SourceError)

Reads == \E n \in Rooms : Read(n)

Reading(A) == A /\ answered' = (answered \/ handed' > handed)
                /\ UNCHANGED <<pc, state, ctx, conn, err, result>>

CallerNext ==
  \/ Start \/ Authenticate \/ FetchStructure
  \/ Fetched \/ CommandFails \/ Close \/ Aborts \/ AbortCloses \/ AbortEnds

Next ==
  \/ Reading(Reads) \/ Reading(PeerSends) \/ Reading(SourceFails)
  \/ CallerNext \/ ContextEnds

Spec == Init /\ [][Next]_vars

\* The operation has a deadline, its goroutines run, and a closed transport
\* fails its reader; the peer owes nothing.
FairSpec ==
  /\ Spec
  /\ WF_vars(Reading(Reads)) /\ WF_vars(Reading(SourceFails))
  /\ WF_vars(CallerNext) /\ WF_vars(ContextEnds)

-----------------------------------------------------------------------------
(* Properties.                                                             *)

\* What the decoder gets are whole approved frames: every byte of a frame
\* approved before the reader ended is handed over, no byte of another is
\* (Read: "approved bytes before any terminal error").
ReleasedIsWhole ==
  /\ handed + s.pending = s.approved
  /\ reader = "dead" => handed = s.approved

\* At most one structure reaches the decoder, after the one dispatch and for
\* the selected UID, and a read that reports success got it in full
\* (completeFetchLocked, beginDispatch).
StructureIsEarned ==
  /\ s.structures <= 1
  /\ s.structures = 1 <=> s.dispatch = "delivered"
  /\ s.structures = 1 => state \in {"dispatched", "closed"}
  /\ result = "ok" => s.structures = 1 /\ handed = s.approved

Repeat(b, n) == [i \in 1 .. n |-> b]

\* The shortest way to end the frame in progress.
Ending(q) ==
  LET close == Repeat(")", q.depth) \o <<"CR", "LF">>
      octets == Repeat("word", q.literal)
  IN CASE q.mode = "between" -> <<>>
       [] q.mode = "line" -> IF q.lineCR THEN <<"LF">> ELSE <<"CR", "LF">>
       [] q.mode = "fetch" ->
            CASE q.state = "open" -> <<"(", ")", "CR", "LF">>
              [] q.state = "quoted" -> <<"QUOTE">> \o close
              [] q.state = "escape" -> <<"QUOTE", "QUOTE">> \o close
              [] q.state = "literalSize" ->
                   (IF q.digits = 0 THEN <<"0">> ELSE <<>>) \o <<"RBRACE", "CR", "LF">> \o octets \o close
              [] q.state = "literalCR" -> <<"CR", "LF">> \o octets \o close
              [] q.state = "literalLF" -> <<"LF">> \o octets \o close
              [] q.state = "literal" -> octets \o close
              [] q.state = "endLF" -> <<"LF">>
              [] OTHER -> close

\* No budget is overrun, and none runs out inside a frame: the frame a read
\* waits in can still be ended, in the shortest way, without exceeding one
\* (fetchFeasibleLocked, lineByteLocked).
BudgetsAreAhead ==
  /\ s.sessionBytes <= SessionBytes /\ s.frame <= FrameBytes
  /\ s.tokens <= FetchTokens /\ s.work <= WorkUnits /\ s.responses <= Responses
  /\ s.depth <= Depth
  /\ reader = "source" /\ ~Refused(s) => FeedAll(s, Ending(s)).terminal # Bounds

\* The first category is final: nothing replaces it, and nothing is approved
\* after it, whatever the transport still delivers to a read that was waiting
\* when the session was aborted (refuseLocked, abort, Read).
FirstCategoryIsFinal ==
  [][Refused(s) => s'.terminal = s.terminal /\ s'.approved = s.approved]_vars

\* A dedicated read returns, whatever the peer sends and however it sends it
\* (readStructure: one deadline over the whole operation).
StructureReturns == <>(pc = "done")
=============================================================================
