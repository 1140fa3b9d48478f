----------------------------- MODULE Quarantine -----------------------------
(***************************************************************************)
(* structureQuarantine: the reader between a dedicated transport and       *)
(* go-imap.  It frames every response before it releases any byte of it:   *)
(* flat control lines and one structure FETCH are released, FETCH frames   *)
(* of FLAGS only are swallowed, everything else ends the reader for good.  *)
(*                                                                         *)
(* The scanner is a function of its state s and the next byte, fed under   *)
(* the mutex; Read drops the mutex while it waits for the transport, and   *)
(* that is where beginDispatch and abort come between.                     *)
(*                                                                         *)
(* A byte is one of Bytes.  A word (a name, a tag) counts as one byte of   *)
(* its own, so budgets are counted in words; digits are digits.            *)
(***************************************************************************)
EXTENDS Integers, Sequences, SequencesExt

CONSTANTS FrameBytes, Depth, FetchTokens, AtomBytes, ControlBytes,
          SessionBytes, Responses, WorkUnits, ReadBytes,
          LiteralDigits,  \* most digits of a literal size (10 in the code)
          MaxUint32,      \* largest number of the wire
          SelectedUID

ASSUME QuarantineAssumption ==
  /\ {FrameBytes, Depth, FetchTokens, AtomBytes, ControlBytes, SessionBytes,
      Responses, WorkUnits, ReadBytes, SelectedUID} \subseteq Nat \ {0}
  /\ ControlBytes <= FrameBytes /\ SelectedUID <= MaxUint32
  /\ FrameBytes <= SessionBytes

VARIABLES
  s,       \* scanner state, guarded by mu
  reader,  \* go-imap's reader: "idle", in "source" read, or "dead"
  room,    \* len(buffer) of the last Read
  count,   \* bytes asked of the source
  handed   \* history: bytes the decoder got

quarantineVars == <<s, reader, room, count, handed>>

Digits == {"0", "1", "2"}
Words == {"UID", "FLAGS", "BODYSTRUCTURE", "FETCH", "OK", "EXISTS", "EXPUNGE",
          "CAPABILITY", "SEARCH", "word"}
Specials == {" ", "(", ")", "LBRACE", "QUOTE", "BACKSLASH", "*", "]", "CR", "LF"}
Bytes == Digits \cup Words \cup Specials \cup {"RBRACE", "[", "+"}

Bounds == "bounds_exceeded"
Protocol == "imap_protocol_error"
Terminals == {"none", Bounds, Protocol, "operation_canceled",
              "command_timed_out", "bridge_unreachable"}

-----------------------------------------------------------------------------
(* Lexical helpers.                                                        *)

quarantineAtomChar(b) == b \notin Specials

quarantineAtom(a) == a # <<>> /\ \A i \in DOMAIN a : quarantineAtomChar(a[i])

TrimBackslash(a) == IF a # <<>> /\ a[1] = "BACKSLASH" THEN Tail(a) ELSE a

quarantineFlag(a) == quarantineAtom(TrimBackslash(a))

Digit == [d \in Digits |-> CASE d = "0" -> 0 [] d = "1" -> 1 [] d = "2" -> 2]

Value(a) == FoldLeft(LAMBDA n, d : 10 * n + Digit[d], 0, a)

\* A canonical uint32; zero only where zero is allowed.
quarantineNumber(a, zero) ==
  /\ a # <<>> /\ \A i \in DOMAIN a : a[i] \in Digits
  /\ a[1] = "0" => Len(a) = 1 /\ zero
  /\ Value(a) <= MaxUint32

\* strings.Cut at the first space.
SpaceAt(a) == SelectInSeq(a, LAMBDA b : b = " ")
Spaced(a) == SpaceAt(a) # 0
Before(a) == IF Spaced(a) THEN SubSeq(a, 1, SpaceAt(a) - 1) ELSE a
After(a) == IF Spaced(a) THEN SubSeq(a, SpaceAt(a) + 1, Len(a)) ELSE <<>>

quarantineText(t) == t # <<>> /\ t[1] = "[" => Contains(t, "]")

\* Printable text without a brace, its quoted strings complete.
quarantineFlat(t) ==
  LET step(q, b) ==
        CASE q = "bad" -> "bad"
          [] b \in {"CR", "LF"} -> "bad"
          [] q = "escaped" -> IF b \in {"QUOTE", "BACKSLASH"} THEN "quoted" ELSE "bad"
          [] q = "quoted" /\ b = "BACKSLASH" -> "escaped"
          [] b = "QUOTE" -> IF q = "quoted" THEN "plain" ELSE "quoted"
          [] b \in {"LBRACE", "RBRACE"} -> "bad"
          [] OTHER -> q
  IN FoldLeft(step, "plain", t) = "plain"

\* The arguments of a list control: atoms, or flags in parentheses.
AtomList(t) == LET cut == FoldLeft(LAMBDA a, b :
                     IF b = " " THEN Append(a, <<>>)
                     ELSE [a EXCEPT ![Len(a)] = Append(@, b)], <<<<>>>>, t)
               IN cut
Inner(t) == SubSeq(t, 2, Len(t) - 1)

\* One admitted flat control response; controls carry no literals.
quarantineControl(l) ==
  LET tagged == LET tag == Before(l)  status == After(l) IN
        /\ quarantineAtom(tag) /\ ~Contains(tag, "+")
        /\ Before(status) = <<"OK">> /\ quarantineText(After(status))
      name == Before(SubSeq(l, 3, Len(l)))
      args == After(SubSeq(l, 3, Len(l)))
      more == Spaced(SubSeq(l, 3, Len(l)))
      untagged ==
        IF name # <<>> /\ name[1] \in Digits
        THEN /\ quarantineNumber(name, TRUE) /\ more /\ ~Spaced(args)
             /\ \/ args = <<"EXISTS">>
                \/ args = <<"EXPUNGE">> /\ Value(name) > 0
        ELSE \/ name = <<"OK">> /\ quarantineText(args)
             \/ /\ name = <<"CAPABILITY">> /\ more
                /\ ~Contains(args, "LBRACE") /\ ~Contains(args, "RBRACE")
                /\ \A i \in DOMAIN AtomList(args) : quarantineAtom(AtomList(args)[i])
             \/ /\ name = <<"FLAGS">> /\ more /\ Len(args) >= 2
                /\ args[1] = "(" /\ Last(args) = ")"
                /\ ~Contains(args, "LBRACE") /\ ~Contains(args, "RBRACE")
                /\ \/ Inner(args) = <<>>
                   \/ LET flags == AtomList(Inner(args))
                      IN \A i \in DOMAIN flags : quarantineFlag(flags[i])
             \/ name = <<"SEARCH">> /\ quarantineFlat(args)
  IN CASE l = <<>> -> FALSE
       [] l # <<>> /\ l[1] = "+" -> Len(l) = 1 \/ (l[2] = " " /\ quarantineText(After(l)))
       [] Len(l) >= 2 /\ l[1] = "*" /\ l[2] = " " -> untagged
       [] OTHER -> tagged

\* fetchPrefix: "* " and two words, each followed by a space.
fetchPrefix(text) ==
  LET rest == SubSeq(text, 3, Len(text) - 1)
      number == Before(rest)
  IN CASE number = <<>> \/ number[1] \notin Digits \/ After(rest) # <<"FETCH">> -> "control"
       [] ~quarantineNumber(number, FALSE) -> "invalid"
       [] OTHER -> "fetch"

-----------------------------------------------------------------------------
(* The scanner.                                                            *)

InitScanner ==
  [dispatch |-> "idle", terminal |-> "none", pending |-> 0,
   sessionBytes |-> 0, responses |-> 0, work |-> 0,
   mode |-> "between",
   frame |-> 0,      \* len(frame)
   text |-> <<>>,    \* the bytes of the frame still needed: the line, the atom
   lineSpaces |-> 0, lineCR |-> FALSE,
   state |-> "open", depth |-> 0, tokens |-> 0, previous |-> "open",
   phase |-> "name", item |-> "UID", flagsList |-> FALSE,
   literal |-> 0, digits |-> 0,
   seen |-> {},      \* uidCount, flags and structure
   uid |-> 0,
   approved |-> 0,   \* history: bytes of the frames released
   structures |-> 0] \* history: structure frames released

\* The frame is dropped; the rest of the scanner is never read again.
refuseLocked(q, code) ==
  [InitScanner EXCEPT !.terminal = code, !.pending = q.pending,
                      !.dispatch = q.dispatch, !.approved = q.approved,
                      !.structures = q.structures]

Refused(q) == q.terminal # "none"

releaseLocked(q) ==
  [q EXCEPT !.pending = @ + q.frame, !.approved = @ + q.frame,
            !.mode = "between", !.text = <<>>]

tokenLocked(q) ==
  IF q.tokens = FetchTokens \/ q.work = WorkUnits THEN refuseLocked(q, Bounds)
  ELSE [q EXCEPT !.tokens = @ + 1, !.work = @ + 1]

openLocked(q) ==
  IF q.depth = Depth THEN refuseLocked(q, Bounds)
  ELSE LET t == tokenLocked(q)
       IN IF Refused(t) THEN t ELSE [t EXCEPT !.depth = @ + 1, !.previous = "open"]

closeLocked(q) ==
  LET t == tokenLocked(q)
      c == [t EXCEPT !.depth = @ - 1, !.previous = "close"]
  IN CASE Refused(t) -> t
       [] t.depth = 2 -> [c EXCEPT !.phase = "done", !.flagsList = FALSE]
       [] t.depth = 1 -> [c EXCEPT !.state = "endCR"]
       [] OTHER -> c

startResponseLocked(q) ==
  [q EXCEPT !.responses = @ + 1, !.mode = "line", !.frame = 0, !.text = <<>>,
            !.lineSpaces = 0, !.lineCR = FALSE]

startFetchLocked(q) ==
  [q EXCEPT !.mode = "fetch", !.state = "open", !.depth = 0, !.tokens = 0,
            !.phase = "name", !.flagsList = FALSE, !.seen = {}, !.uid = 0, !.text = <<>>]

\* Only UID, FLAGS and BODYSTRUCTURE, each at most once.
nameLocked(q) ==
  LET name == q.text IN
  IF Len(name) = 1 /\ name[1] \in {"UID", "FLAGS", "BODYSTRUCTURE"} \ q.seen
  THEN [q EXCEPT !.item = name[1], !.seen = @ \cup {name[1]}, !.phase = "named"]
  ELSE refuseLocked(q, Protocol)

endAtomLocked(q) ==
  LET ended == [q EXCEPT !.previous = "token"]
      judged == CASE q.depth = 1 /\ q.phase = "name" -> nameLocked(ended)
                  [] q.depth = 1 /\ q.phase # "name" ->
                       IF quarantineNumber(q.text, FALSE)
                       THEN [ended EXCEPT !.uid = Value(q.text), !.phase = "done"]
                       ELSE refuseLocked(ended, Protocol)
                  [] q.depth # 1 /\ q.flagsList /\ ~quarantineFlag(q.text) ->
                       refuseLocked(ended, Protocol)
                  [] OTHER -> ended
  IN [judged EXCEPT !.text = <<>>]

literalSizeByteLocked(q, b) ==
  LET grown == [q EXCEPT !.digits = @ + 1, !.literal = 10 * @ + Digit[b]] IN
  CASE b = "RBRACE" /\ q.digits > 0 -> [q EXCEPT !.state = "literalCR"]
    [] ~(b = "RBRACE" /\ q.digits > 0) /\ (b \notin Digits \/ q.digits = LiteralDigits) -> refuseLocked(q, Protocol)
    [] OTHER -> IF grown.literal > MaxUint32 THEN refuseLocked(q, Protocol) ELSE grown

\* One byte between the tokens of the FETCH list.
itemsByteLocked(q, b) ==
  LET bad == refuseLocked(q, Protocol)
      atom == quarantineAtomChar(b) \/ b = "BACKSLASH"
      nested == q.previous = "close" /\ q.depth >= 2 /\ ~q.flagsList
  IN CASE b = " " ->
            IF \/ q.previous \notin {"token", "close"}
               \/ q.depth = 1 /\ q.phase \notin {"named", "done"} THEN bad
            ELSE [q EXCEPT !.previous = "space",
                           !.phase = IF q.depth # 1 THEN @
                                     ELSE IF @ = "named" THEN "value" ELSE "name"]
       [] b = "(" ->
            IF \/ q.previous \notin {"open", "space"} /\ ~nested
               \/ q.depth = 1 /\ (q.phase # "value" \/ q.item = "UID")
               \/ q.depth # 1 /\ q.flagsList THEN bad
            ELSE openLocked([q EXCEPT !.flagsList =
                               IF q.depth = 1 THEN q.item = "FLAGS" ELSE @])
       [] b = ")" ->
            IF q.previous = "space" \/ (q.depth = 1 /\ q.phase # "done") THEN bad
            ELSE closeLocked(q)
       [] OTHER ->
            IF \/ q.previous \notin {"open", "space"}
               \/ q.depth = 1 /\ (~atom \/ (q.phase = "value" /\ q.item # "UID"))
               \/ q.flagsList /\ ~atom
               \/ ~atom /\ b \notin {"QUOTE", "LBRACE"} THEN bad
            ELSE tokenLocked(
                   CASE b = "QUOTE" -> [q EXCEPT !.state = "quoted"]
                     [] b = "LBRACE" -> [q EXCEPT !.state = "literalSize", !.literal = 0, !.digits = 0]
                     [] OTHER -> [q EXCEPT !.state = "atom", !.text = <<b>>])

\* A bug of completeFetchLocked: one dispatch lets a second structure pass.
completeFetchLockedTwice(q) ==
  CASE "BODYSTRUCTURE" \in q.seen ->
         IF "UID" \notin q.seen \/ q.uid # SelectedUID \/ q.dispatch = "idle"
         THEN refuseLocked(q, Protocol)
         ELSE [releaseLocked(q) EXCEPT !.dispatch = "delivered", !.structures = @ + 1]
    [] "BODYSTRUCTURE" \notin q.seen /\ "FLAGS" \in q.seen -> [q EXCEPT !.mode = "between"]
    [] OTHER -> refuseLocked(q, Protocol)

\* A structure needs the selected UID and the active dispatch.
completeFetchLocked(q) ==
  CASE "BODYSTRUCTURE" \in q.seen ->
         IF "UID" \notin q.seen \/ q.uid # SelectedUID \/ q.dispatch # "active"
         THEN refuseLocked(q, Protocol)
         ELSE [releaseLocked(q) EXCEPT !.dispatch = "delivered", !.structures = @ + 1]
    [] "BODYSTRUCTURE" \notin q.seen /\ "FLAGS" \in q.seen -> [q EXCEPT !.mode = "between"]
    [] OTHER -> refuseLocked(q, Protocol)

Expect(q, b, wanted, next) == IF b = wanted THEN next ELSE refuseLocked(q, Protocol)

TokenEnded(q) == [q EXCEPT !.state = "items", !.previous = "token"]

fetchByteLocked(q, b) ==
  CASE q.state = "open" -> Expect(q, b, "(", openLocked([q EXCEPT !.state = "items"]))
    [] q.state = "items" -> itemsByteLocked(q, b)
    [] q.state = "atom" /\ quarantineAtomChar(b) ->
         IF Len(q.text) + 1 > AtomBytes THEN refuseLocked(q, Bounds)
         ELSE [q EXCEPT !.text = Append(@, b)]
    [] q.state = "atom" /\ ~quarantineAtomChar(b) ->
         LET ended == endAtomLocked(q) IN
         IF Refused(ended) THEN ended
         ELSE itemsByteLocked([ended EXCEPT !.state = "items"], b)
    [] q.state = "quoted" ->
         CASE b = "QUOTE" -> TokenEnded(q)
           [] b = "BACKSLASH" -> [q EXCEPT !.state = "escape"]
           [] b \in {"CR", "LF"} -> refuseLocked(q, Protocol)
           [] OTHER -> q
    [] q.state = "escape" ->
         IF b \in {"QUOTE", "BACKSLASH"} THEN [q EXCEPT !.state = "quoted"]
         ELSE refuseLocked(q, Protocol)
    [] q.state = "literalSize" -> literalSizeByteLocked(q, b)
    [] q.state = "literalCR" -> Expect(q, b, "CR", [q EXCEPT !.state = "literalLF"])
    [] q.state = "literalLF" ->
         Expect(q, b, "LF", IF q.literal = 0 THEN TokenEnded(q)
                            ELSE [q EXCEPT !.state = "literal"])
    [] q.state = "literal" ->
         IF q.literal = 1 THEN [TokenEnded(q) EXCEPT !.literal = 0]
         ELSE [q EXCEPT !.literal = @ - 1]
    [] q.state = "endCR" -> Expect(q, b, "CR", [q EXCEPT !.state = "endLF"])
    [] q.state = "endLF" -> Expect(q, b, "LF", completeFetchLocked(q))

\* Bytes and tokens of the least completion of a FETCH: every open list
\* closed, and its CRLF.
BytesNeeded(q) ==
  CASE q.state = "open" -> 4
    [] q.state = "quoted" -> q.depth + 3
    [] q.state = "escape" -> q.depth + 4
    [] q.state = "literalSize" -> q.depth + 5 + q.literal + IF q.digits = 0 THEN 1 ELSE 0
    [] q.state = "literalCR" -> q.depth + 4 + q.literal
    [] q.state = "literalLF" -> q.depth + 3 + q.literal
    [] q.state = "literal" -> q.depth + 2 + q.literal
    [] q.state = "endLF" -> 1
    [] OTHER -> q.depth + 2

\* A bug of fetchFeasibleLocked: the declared octets of a literal are forgotten.
fetchFeasibleLockedNoLiteral(q) ==
  LET closing == IF q.state = "open" THEN 2 ELSE q.depth
      needed == BytesNeeded([q EXCEPT !.literal = 0])
  IN IF \/ q.frame + needed > FrameBytes
        \/ q.sessionBytes + needed > SessionBytes
        \/ q.tokens + closing > FetchTokens
        \/ q.work + closing > WorkUnits THEN refuseLocked(q, Bounds) ELSE q

fetchFeasibleLocked(q) ==
  LET closing == IF q.state = "open" THEN 2 ELSE q.depth
  IN IF \/ q.frame + BytesNeeded(q) > FrameBytes
        \/ q.sessionBytes + BytesNeeded(q) > SessionBytes
        \/ q.tokens + closing > FetchTokens
        \/ q.work + closing > WorkUnits THEN refuseLocked(q, Bounds) ELSE q

completeLineLocked(q) ==
  IF quarantineControl(SubSeq(q.text, 1, Len(q.text) - 2))
  THEN releaseLocked([q EXCEPT !.work = @ + 1])
  ELSE refuseLocked(q, Protocol)

\* A line must still be able to end within the control and session budgets.
LineFeasible(q) ==
  LET need == IF q.lineCR THEN 1 ELSE 2
  IN IF q.frame + need > ControlBytes \/ q.sessionBytes + need > SessionBytes
     THEN refuseLocked(q, Bounds) ELSE q

lineByteLocked(q, b) ==
  LET spaced == [q EXCEPT !.lineSpaces = @ + 1]
      third == b = " " /\ q.text[1] = "*" /\ q.lineSpaces = 2
  IN CASE q.lineCR -> IF b = "LF" THEN completeLineLocked(q) ELSE refuseLocked(q, Protocol)
       [] ~q.lineCR /\ b = "CR" -> LineFeasible([q EXCEPT !.lineCR = TRUE])
       [] ~q.lineCR /\ b = "LF" -> refuseLocked(q, Protocol)
       [] ~q.lineCR /\ third ->
            CASE fetchPrefix(q.text) = "invalid" -> refuseLocked(spaced, Protocol)
              [] fetchPrefix(q.text) = "fetch" -> fetchFeasibleLocked(startFetchLocked(spaced))
              [] OTHER -> LineFeasible(spaced)
       [] OTHER -> LineFeasible(IF b = " " /\ q.text[1] = "*" THEN spaced ELSE q)

\* F applied to the value of e, which TLC then computes once.
Applied(F(_), e) == CHOOSE r \in {F(v) : v \in {e}} : TRUE

\* feedLocked; an error it returns is a refusal at once.
feedLocked(q, b) ==
  LET begun == IF q.mode = "between" THEN startResponseLocked(q) ELSE q
      grown == [begun EXCEPT !.sessionBytes = @ + 1, !.frame = @ + 1]
      feasible(f) == IF ~Refused(f) /\ f.mode = "fetch" THEN fetchFeasibleLocked(f) ELSE f
  IN CASE \/ q.sessionBytes = SessionBytes
          \/ q.mode = "between" /\ (q.responses = Responses \/ q.work = WorkUnits) ->
            refuseLocked(q, Bounds)
       [] q.sessionBytes # SessionBytes /\ q.mode = "fetch" ->
            Applied(feasible, Applied(LAMBDA g : fetchByteLocked(g, b), grown))
       [] OTHER ->
            Applied(LAMBDA g : lineByteLocked(g, b), [grown EXCEPT !.text = Append(@, b)])

\* sourceFailedLocked: truncated input is a protocol error.
sourceFailedLocked(q, e) ==
  CASE e = "canceled" -> refuseLocked(q, "operation_canceled")
    [] e = "deadline" -> refuseLocked(q, "command_timed_out")
    [] OTHER -> refuseLocked(q, IF q.mode # "between" THEN Protocol ELSE "bridge_unreachable")

-----------------------------------------------------------------------------
(* Read, one call at a time (readMu).  The mutex is held from the return   *)
(* of a source read to the return of Read or to the next source read.      *)

QuarantineInit ==
  /\ s = InitScanner
  /\ reader = "idle" /\ room = 0 /\ count = 0 /\ handed = 0

Min2(a, b) == IF a <= b THEN a ELSE b

\* A bug of ReadLoop: the terminal error hides what was approved before it.
ReadLoopErrorFirst(q) ==
  CASE Refused(q) ->
         s' = [q EXCEPT !.pending = 0] /\ reader' = "dead" /\ count' = 0 /\ UNCHANGED handed
    [] ~Refused(q) /\ q.pending > 0 ->
         LET n == Min2(room', q.pending) IN
         /\ s' = [q EXCEPT !.pending = @ - n] /\ handed' = handed + n
         /\ reader' = "idle" /\ count' = 0
    [] OTHER ->
         /\ s' = q /\ reader' = "source" /\ UNCHANGED handed
         /\ count' = Min2(ReadBytes, SessionBytes - q.sessionBytes + 1)

\* The loop of Read: approved bytes first, then the terminal error, which
\* ends go-imap's reader, then the transport.  One byte past the session
\* budget is asked for, to learn of an overage.
ReadLoop(q) ==
  CASE q.pending > 0 ->
         LET n == Min2(room', q.pending) IN
         /\ s' = [q EXCEPT !.pending = @ - n] /\ handed' = handed + n
         /\ reader' = "idle" /\ count' = 0
    [] q.pending = 0 /\ Refused(q) ->
         s' = q /\ reader' = "dead" /\ count' = 0 /\ UNCHANGED handed
    [] q.pending = 0 /\ ~Refused(q) /\ room' = 0 ->
         s' = q /\ reader' = "idle" /\ count' = 0 /\ UNCHANGED handed
    [] OTHER ->
         /\ s' = q /\ reader' = "source" /\ UNCHANGED handed
         /\ count' = Min2(ReadBytes, SessionBytes - q.sessionBytes + 1)

\* go-imap asks for up to n bytes.
Read(n) == reader = "idle" /\ room' = n /\ ReadLoop(s)

\* The bytes of a chunk, one by one until a refusal.
FeedAll(q, chunk) ==
  FoldLeft(LAMBDA p, b : Applied(LAMBDA r : IF Refused(r) THEN r ELSE feedLocked(r, b), p),
           q, chunk)

\* A bug of SourceReturns: what an abort overtook is fed all the same.
SourceReturnsLate(chunk, e) ==
  /\ reader = "source" /\ Len(chunk) <= count
  /\ room' = room
  /\ \E fed \in {FeedAll([s EXCEPT !.terminal = "none"], chunk)} :
       ReadLoop(CASE Refused(fed) -> fed
                  [] ~Refused(fed) /\ Refused(s) -> [fed EXCEPT !.terminal = s.terminal]
                  [] OTHER -> IF e # "none" THEN sourceFailedLocked(fed, e) ELSE fed)

\* The transport answers with bytes and possibly an error; what comes in
\* after the reader has ended is dropped.
SourceReturns(chunk, e) ==
  /\ reader = "source" /\ Len(chunk) <= count
  /\ room' = room
  /\ \E fed \in {FeedAll(s, chunk)} :
       ReadLoop(IF ~Refused(fed) /\ e # "none" THEN sourceFailedLocked(fed, e) ELSE fed)

-----------------------------------------------------------------------------
(* The owner of the session.                                               *)

beginDispatch(q) ==
  CASE Refused(q) -> q
    [] ~Refused(q) /\ q.dispatch # "idle" -> refuseLocked(q, Protocol)
    [] OTHER -> [q EXCEPT !.dispatch = "active"]

abort(q, cause) ==
  IF Refused(q) THEN q
  ELSE refuseLocked(q, IF cause = "operation_canceled" THEN cause ELSE "command_timed_out")
=============================================================================
