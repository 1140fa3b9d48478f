----------------------------- MODULE StdioServer -----------------------------
(***************************************************************************)
(* The stdio side of the MCP servers: a bounded frame reader that admits   *)
(* one unambiguous JSON object per line, the strict decoding of tool       *)
(* arguments behind it, and a session of the Mail server, whose transport  *)
(* is closed once, by the end of its context or by the SDK, whichever      *)
(* comes first.  The Drive server shares the frame reader and leaves the   *)
(* end of its context to the SDK.                                          *)
(*                                                                         *)
(* A byte is <<frame, position>>.  Documents are numbers here; StrictJSON  *)
(* says which of them the checks accept.  The SDK is external.             *)
(***************************************************************************)
EXTENDS Integers, Sequences, FiniteSets, SequencesExt

CONSTANTS
  MaxFrameBytes,  \* MaxFrameBytes
  Streams,        \* what a client may send: sequences of frames
  ReadSizes,      \* how much the SDK asks for in one read
  Admissible,     \* documents the frame reader accepts
  Callable,       \* documents the SDK can take for a tool call
  Decodable,      \* documents whose arguments decodeArguments accepts
  Ambiguous       \* documents another reader could take for different ones

\* A frame: its length with the newline, its document, the position from which
\* its rest is an object by itself (0: none), and whether its newline is sent.
Frames == [len : Nat \ {0}, doc : Nat, tail : Nat \ {1}, ended : BOOLEAN]

\* What separates two frames is a newline.
ASSUME StdioAssumption ==
  /\ MaxFrameBytes \in Nat \ {0} /\ ReadSizes \subseteq Nat
  /\ Streams \subseteq Seq(Frames)
  /\ \A s \in Streams : \A i \in DOMAIN s : i < Len(s) => s[i].ended

-----------------------------------------------------------------------------
(* State.                                                                  *)

VARIABLES
  stream,       \* the frames of this client
  wire,         \* its bytes
  arrived,      \* bytes in the pipe or read
  source,       \* "open", "eof" or "broken"
  taken,        \* bytes ReadSlice has consumed
  pending,      \* boundedFrameReader.pending
  terminalErr,  \* boundedFrameReader.terminalErr
  delivered,    \* bytes the SDK got
  calls,        \* tool calls: frame -> "queued", "ran", "refused"
  ctx,          \* the context of the session has ended
  after,        \* AfterFunc: "none", "armed", "running", "stopped", "ran"
  closes,       \* Close calls of the underlying connection
  sdk           \* "connecting", "serving", "closing", "returned"

reader == <<taken, pending, terminalErr, delivered>>
session == <<ctx, after, closes, sdk>>
client == <<stream, wire>>
stdioVars == <<client, arrived, source, reader, calls, session>>

Newline(b) == b[2] = stream[b[1]].len /\ stream[b[1]].ended

\* The last byte of the object in frame i, before its newline.
Body(i) == IF stream[i].ended THEN stream[i].len - 1 ELSE stream[i].len

StdioInit ==
  /\ stream \in Streams
  /\ wire = FlattenSeq([i \in DOMAIN stream |-> [p \in 1 .. stream[i].len |-> <<i, p>>]])
  /\ arrived = 0 /\ source = "open"
  /\ taken = 0 /\ pending = <<>> /\ terminalErr = "none" /\ delivered = <<>>
  /\ calls = <<>> /\ ctx = FALSE /\ after = "none" /\ closes = 0 /\ sdk = "connecting"

-----------------------------------------------------------------------------
(* The frame reader.                                                       *)

\* bufio.Reader.ReadSlice with room for MaxFrameBytes + 1: a line, a full
\* buffer, or what there is at the end of the source.
Buffer ==
  LET end == IF arrived > taken + MaxFrameBytes + 1 THEN taken + MaxFrameBytes + 1 ELSE arrived
  IN [i \in 1 .. end - taken |-> wire[taken + i]]

ReadSlice ==
  LET line == SelectInSeq(Buffer, Newline)
  IN CASE line > 0 -> [frame |-> [i \in 1 .. line |-> Buffer[i]], err |-> "none"]
       [] line = 0 /\ Len(Buffer) > MaxFrameBytes -> [frame |-> Buffer, err |-> "full"]
       [] OTHER -> [frame |-> Buffer, err |-> source]

\* The slice is a frame (its newline may be missing at the end of the source),
\* or the end of one that is an object by itself.
ValidFrame(frame) ==
  LET f == stream[frame[1][1]]
  IN /\ Last(frame)[2] >= Body(frame[1][1])
     /\ \/ frame[1][2] = 1 /\ f.doc \in Admissible
        \/ frame[1][2] = f.tail

\* A bug of Admit: a frame that is too long is refused, and the reader goes on.
AdmitGoesOn(slice) ==
  CASE slice.err = "full" \/ Len(slice.frame) > MaxFrameBytes -> [pending |-> <<>>, err |-> "none"]
    [] slice.err = "broken" \/ slice.frame = <<>> -> [pending |-> <<>>, err |-> slice.err]
    [] ~ValidFrame(slice.frame) -> [pending |-> <<>>, err |-> "invalid"]
    [] OTHER -> [pending |-> slice.frame, err |-> slice.err]

\* What boundedFrameReader makes of a slice: the frame, or the error it stops with.
Admit(slice) ==
  CASE slice.err = "full" \/ Len(slice.frame) > MaxFrameBytes -> [pending |-> <<>>, err |-> "too_large"]
    [] slice.err # "full" /\ Len(slice.frame) <= MaxFrameBytes
         /\ (slice.err = "broken" \/ slice.frame = <<>>) -> [pending |-> <<>>, err |-> slice.err]
    [] slice.err \in {"none", "eof"} /\ slice.frame # <<>> /\ Len(slice.frame) <= MaxFrameBytes
         /\ ~ValidFrame(slice.frame) -> [pending |-> <<>>, err |-> "invalid"]
    [] OTHER -> [pending |-> slice.frame, err |-> slice.err]

\* The SDK got the last byte of an object: a tool call is dispatched.
Dispatched(bytes) ==
  calls \o [i \in 1 .. Cardinality({b \in Range(bytes) : b[2] = Body(b[1])}) |->
              [frame |-> bytes[1][1], state |-> "queued"]]

\* One Read of n bytes by the SDK; an error ends its session, but it may read
\* on until it has closed the connection.
Read(n) ==
  /\ sdk \in {"serving", "closing"} /\ closes = 0
  /\ pending = <<>> /\ terminalErr = "none" /\ n > 0 =>
       Len(Buffer) > MaxFrameBytes \/ source # "open" \/ SelectInSeq(Buffer, Newline) > 0
  /\ IF n = 0 THEN UNCHANGED <<reader, calls, sdk>>
     ELSE IF pending = <<>> /\ terminalErr # "none"
     THEN sdk' = "closing" /\ UNCHANGED <<reader, calls>>
     ELSE \E a \in {IF pending = <<>> THEN Admit(ReadSlice) ELSE [pending |-> pending, err |-> terminalErr]} :
            LET count == IF n < Len(a.pending) THEN n ELSE Len(a.pending)
                bytes == [i \in 1 .. count |-> a.pending[i]]
            IN /\ taken' = IF pending = <<>> THEN taken + Len(ReadSlice.frame) ELSE taken
               /\ pending' = [i \in 1 .. Len(a.pending) - count |-> a.pending[count + i]]
               /\ terminalErr' = a.err
               /\ delivered' = delivered \o bytes
               /\ calls' = Dispatched(bytes)
               /\ sdk' = IF a.pending = <<>> THEN "closing" ELSE sdk
  /\ UNCHANGED <<client, arrived, source, ctx, after, closes>>

\* The SDK takes the call apart, and decodeArguments decides whether it runs.
HandleCall(i) ==
  /\ calls[i].state = "queued" /\ sdk # "returned"
  /\ calls' = [calls EXCEPT ![i].state =
                  IF stream[calls[i].frame].doc \in Callable \cap Decodable
                  THEN "ran" ELSE "refused"]
  /\ UNCHANGED <<client, arrived, source, reader, session>>

-----------------------------------------------------------------------------
(* The session.                                                            *)

\* contextClosingTransport.Connect: AfterFunc, which may start its goroutine at
\* once, then the stop function is stored and the SDK gets the connection.
Connect ==
  /\ sdk = "connecting" /\ after = "none"
  /\ after' = IF ctx THEN "running" ELSE "armed"
  /\ UNCHANGED <<client, arrived, source, reader, calls, ctx, closes, sdk>>

StoreStop ==
  /\ sdk = "connecting" /\ after # "none" /\ sdk' = "serving"
  /\ UNCHANGED <<client, arrived, source, reader, calls, ctx, after, closes>>

\* closeUnderlying: once, whoever calls it.
closeUnderlying == closes' = IF closes = 0 THEN 1 ELSE closes

EndContext ==
  /\ ~ctx /\ ctx' = TRUE /\ after' = IF after = "armed" THEN "running" ELSE after
  /\ UNCHANGED <<client, arrived, source, reader, calls, closes, sdk>>

\* A bug of AfterFunc: the end of the context is only noted.
AfterFuncNotes ==
  /\ after = "running" /\ after' = "ran"
  /\ UNCHANGED <<client, arrived, source, reader, calls, ctx, closes, sdk>>

\* The goroutine the end of the context starts.
AfterFunc ==
  /\ after = "running" /\ after' = "ran" /\ closeUnderlying
  /\ UNCHANGED <<client, arrived, source, reader, calls, ctx, sdk>>

\* The SDK finds its connection closed under it.
ReadClosed ==
  /\ sdk = "serving" /\ closes > 0 /\ sdk' = "closing"
  /\ UNCHANGED <<client, arrived, source, reader, calls, ctx, after, closes>>

\* contextClosingConnection.Close, called by the SDK: the AfterFunc is stopped
\* unless it runs already.  Run and Serve return.
Close ==
  /\ sdk = "closing" /\ sdk' = "returned" /\ closeUnderlying
  /\ after' = IF after = "armed" THEN "stopped" ELSE after
  /\ UNCHANGED <<client, arrived, source, reader, calls, ctx>>

\* The client.
Send(n) ==
  /\ source = "open" /\ arrived + n <= Len(wire) /\ arrived' = arrived + n
  /\ UNCHANGED <<client, source, reader, calls, session>>

Hangup(how) ==
  /\ source = "open" /\ source' = how
  /\ UNCHANGED <<client, arrived, reader, calls, session>>

StdioNext ==
  \/ \E n \in ReadSizes : Read(n)
  \/ \E i \in DOMAIN calls : HandleCall(i)
  \/ Connect
  \/ StoreStop
  \/ EndContext
  \/ AfterFunc
  \/ ReadClosed
  \/ Close
  \/ \E n \in 1 .. 3 : Send(n)
  \/ \E how \in {"eof", "broken"} : Hangup(how)

StdioSpec == StdioInit /\ [][StdioNext]_stdioVars

\* The SDK keeps reading and closes what failed; goroutines run.
Fairness ==
  /\ WF_stdioVars(\E n \in ReadSizes \ {0} : Read(n))
  /\ WF_stdioVars(Connect) /\ WF_stdioVars(StoreStop)
  /\ WF_stdioVars(AfterFunc) /\ WF_stdioVars(ReadClosed) /\ WF_stdioVars(Close)

StdioFairSpec == StdioSpec /\ Fairness

-----------------------------------------------------------------------------
(* Properties.                                                             *)

\* The frames before the first that is not whole, does not fit or is not one
\* plain object.
Sent(i) == Cardinality({k \in 1 .. arrived : wire[k][1] = i})

Good(i) == Body(i) <= Sent(i) /\ Sent(i) <= MaxFrameBytes /\ stream[i].doc \in Admissible

Leading == {i \in DOMAIN stream : \A j \in 1 .. i : Good(j)}

\* The SDK gets whole admitted frames, in order, and never a byte of a frame
\* that is too long or ambiguous, nor of anything after it, however reads,
\* arrivals and buffer boundaries fall (terminalErr is for good).
OnlyWholeFrames ==
  /\ delivered = [k \in DOMAIN delivered |-> wire[k]]
  /\ {b[1] : b \in Range(delivered)} \subseteq Leading

\* A tool that ran was asked unambiguously, by a line that got through the
\* frame reader, the SDK and decodeArguments: the two checks fold keys in
\* different places, and what the first leaves to the second it leaves also
\* under an array, where only the SDK refuses it.
RanUnambiguously ==
  \A i \in DOMAIN calls : calls[i].state = "ran" => stream[calls[i].frame].doc \notin Ambiguous

\* A session whose context ended, or whose input ended, broke or was refused,
\* returns with its transport closed, also when the two closers race.
SessionEnds ==
  (ctx \/ source # "open" \/ terminalErr # "none") ~> (sdk = "returned" /\ closes = 1)
=============================================================================
