----------------------------- MODULE DialProofs -----------------------------
(***************************************************************************)
(* What bridge.Dial hands out, for every budget of the plaintext dialogue  *)
(* and every peer.                                                         *)
(***************************************************************************)
EXTENDS Dial, TLAPS

\* Before the transport is handed out the watcher has been joined; until it
\* is, it runs whenever the dialogue does.  Only a watcher that saw the context
\* end closes the socket early.
WatcherInv ==
  /\ pc \in {"config", "connect"} => watcher = "off" /\ socket = "none"
  /\ mode = "implicit" => watcher = "off"
  /\ mode = "starttls" /\ pc \in {"recheck", "connected"} => watcher = "exited"
  /\ pc \in Returned => watcher # "watching"
  /\ pc \in {"greeting", "CAPABILITY", "STARTTLS", "handshake", "stop", "recheck"} =>
       socket = "open" \/ (ctx = "ended" /\ watcher = "exited" /\ mode = "starttls")
  /\ pc = "connected" => socket = "open"
  /\ pc \in {"unwind", "failed"} => socket # "open"
  /\ pc = "unwind" => stop /\ mode = "starttls"
  /\ pc \notin Returned \cup {"unwind", "stop", "recheck"} => ~stop

\* What the peer must have answered by the time each step is reached.
TrailInv ==
  /\ pc \in {"CAPABILITY", "STARTTLS", "greeting"} => mode = "starttls"
  /\ pc = "stop" => mode = "starttls"
  /\ pc \in {"config", "connect", "greeting"} => ~has
  /\ mode = "starttls" /\ pc \in {"CAPABILITY", "STARTTLS", "handshake", "stop", "recheck", "connected"} =>
       "greeted" \in trail
  /\ pc = "CAPABILITY" /\ has => "offered" \in trail
  /\ mode = "starttls" /\ pc \in {"STARTTLS", "handshake", "stop", "recheck", "connected"} =>
       "offered" \in trail
  /\ mode = "starttls" /\ pc \in {"handshake", "stop", "recheck", "connected"} =>
       "accepted" \in trail
  /\ pc \in {"stop", "recheck", "connected"} => "verified" \in trail /\ ~deadline
  /\ mode = "implicit" => ~deadline

\* Every line is charged, so the budget counts the lines.
BudgetInv ==
  /\ lines = count
  /\ pc \in {"config", "connect", "greeting", "CAPABILITY", "STARTTLS", "handshake",
             "stop", "recheck", "connected"} => count <= MaxCount

Inv == TypeOK /\ WatcherInv /\ TrailInv /\ BudgetInv

-----------------------------------------------------------------------------
(* What one response line of imapCommand does.                             *)

\* What a line does to the budget and to the history, however it goes on.
LineRead ==
  /\ pc \in {"CAPABILITY", "STARTTLS"} /\ Readable
  /\ UNCHANGED <<mode, watcher, peer, deadline>>
  /\ count' = count + 1 /\ lines' = lines + 1 /\ bytes' \in Nat
  /\ has' \in BOOLEAN /\ trail \subseteq trail'
  /\ trail' \subseteq trail \cup {"offered", "accepted"}
  /\ pc = "CAPABILITY" => (has' = TRUE => has = TRUE \/ "offered" \in trail')

\* The dialogue goes on within its budget: with the same command, or with the
\* next step after a tagged OK.
LineGoesOn ==
  /\ LineRead /\ count' <= MaxCount
  /\ UNCHANGED <<code, ctx, stop, socket>>
  /\ \/ pc' = pc
     \/ pc = "CAPABILITY" /\ has' = TRUE /\ pc' = "STARTTLS"
     \/ pc = "STARTTLS" /\ "accepted" \in trail' /\ pc' = "handshake"

LineEnds == LineRead /\ \E c \in Codes : Close(c)

\* The codes an ended or failed dialogue closes with are codes of Dial.
LEMMA ConnectionCodes ==
  ASSUME NEW causes \in SUBSET Codes
  PROVE  connectionError(causes) \subseteq Codes
BY DEF connectionError, Codes

\* Every line either keeps the dialogue within its budget or ends it.
LEMMA LineCases ==
  ASSUME TypeOK, imapCommand
  PROVE  LineGoesOn \/ LineEnds
<1> USE DialAssumption DEF DialAssumption
<1>1. PICK n \in Lengths,
           line \in {"other", "capability_with_STARTTLS", "tagged_OK", "tagged_NO"} : Line(n, line)
  BY DEF imapCommand
<1>2. pc \in {"CAPABILITY", "STARTTLS"} /\ Readable
  BY DEF imapCommand
<1>3. count' = count + 1 /\ bytes' = bytes + n /\ lines' = lines + 1
  BY <1>1 DEF Line, add
<1>4. bytes' \in Nat /\ count' \in Nat
  BY <1>3 DEF TypeOK
<1>5. has' = (has \/ line = "capability_with_STARTTLS")
  BY <1>1 DEF Line
<1>6. has' \in BOOLEAN /\ (has' = TRUE => has = TRUE \/ line = "capability_with_STARTTLS")
  BY <1>5 DEF TypeOK
<1>7. trail' = trail \cup
        (CASE line = "capability_with_STARTTLS" /\ pc = "CAPABILITY" -> {"offered"}
           [] line = "tagged_OK" /\ pc = "STARTTLS" -> {"accepted"}
           [] OTHER -> {})
  BY <1>1 DEF Line
<1>8. trail \subseteq trail' /\ trail' \subseteq trail \cup {"offered", "accepted"}
  BY <1>7
<1>9. pc = "CAPABILITY" => (has' = TRUE => has = TRUE \/ "offered" \in trail')
  BY <1>6, <1>7
<1>10. pc = "STARTTLS" /\ line = "tagged_OK" => "accepted" \in trail'
  BY <1>7
<1>11. UNCHANGED <<mode, watcher, peer, deadline>>
  BY <1>1 DEF Line
<1>12. LineRead
  BY <1>2, <1>3, <1>4, <1>6, <1>8, <1>9, <1>11 DEF LineRead
<1>13. CASE Exhausted \/ line = "tagged_NO"
  <2>1. \E c \in connectionError({"tls_negotiation_failed"}) : Close(c)
    BY <1>1, <1>13 DEF Line
  <2>2. connectionError({"tls_negotiation_failed"}) \subseteq Codes
    BY ConnectionCodes DEF Codes
  <2>3. QED
    BY <1>12, <2>1, <2>2 DEF LineEnds
<1>14. CASE ~Exhausted /\ line = "tagged_OK"
  <2>1. Completed
    BY <1>1, <1>14 DEF Line
  <2>2. count' <= MaxCount
    BY <1>4, <1>14 DEF Exhausted
  <2>3. CASE pc = "CAPABILITY" /\ ~has
    <3>1. Close("tls_negotiation_failed")
      BY <2>1, <2>3 DEF Completed
    <3>2. QED
      BY <1>12, <3>1 DEF LineEnds, Codes
  <2>4. CASE pc = "CAPABILITY" /\ has
    <3>1. has' = TRUE
      BY <1>5, <2>4 DEF TypeOK
    <3>2. pc' = "STARTTLS" /\ UNCHANGED <<code, ctx, stop, socket>>
      BY <2>1, <2>4 DEF Completed
    <3>3. QED
      BY <1>12, <2>2, <2>4, <3>1, <3>2 DEF LineGoesOn
  <2>5. CASE pc = "STARTTLS"
    <3>1. pc' = "handshake" /\ UNCHANGED <<code, ctx, stop, socket>>
      BY <2>1, <2>5 DEF Completed
    <3>2. QED
      BY <1>10, <1>12, <1>14, <2>2, <2>5, <3>1 DEF LineGoesOn
  <2>6. QED
    BY <1>2, <2>3, <2>4, <2>5
<1>15. CASE ~Exhausted /\ line \notin {"tagged_NO", "tagged_OK"}
  <2>1. UNCHANGED <<pc, code, ctx, stop, socket>>
    BY <1>1, <1>15 DEF Line
  <2>2. count' <= MaxCount
    BY <1>4, <1>15 DEF Exhausted
  <2>3. QED
    BY <1>12, <2>1, <2>2 DEF LineGoesOn
<1>16. QED
  BY <1>13, <1>14, <1>15

\* Every failure closes the socket with a code of Dial.
LEMMA FailureCloses ==
  ASSUME GreetingFails \/ imapCommandFails \/ HandshakeFails
  PROVE  /\ pc \in {"greeting", "CAPABILITY", "STARTTLS", "handshake"}
         /\ \E c \in Codes : Close(c)
         /\ UNCHANGED <<mode, watcher, peer, deadline, dialogue>>
<1>1. /\ connectionError({"bridge_unreachable"}) \subseteq Codes
      /\ connectionError({"tls_negotiation_failed"}) \subseteq Codes
      /\ connectionError({"tls_mismatch", "bridge_unreachable"}) \subseteq Codes
      /\ "tls_negotiation_failed" \in Codes
  BY ConnectionCodes DEF Codes
<1>2. CASE GreetingFails
  BY <1>1, <1>2 DEF GreetingFails
<1>3. CASE imapCommandFails
  BY <1>1, <1>3 DEF imapCommandFails
<1>4. CASE HandshakeFails
  BY <1>1, <1>4 DEF HandshakeFails
<1>5. QED
  BY <1>2, <1>3, <1>4

-----------------------------------------------------------------------------
\* Every step keeps the variables in their types.
LEMMA TypeStep == Inv /\ [Next]_vars => TypeOK'
<1> SUFFICES ASSUME Inv, [Next]_vars PROVE TypeOK'
  OBVIOUS
<1> USE DialAssumption DEF DialAssumption, Inv, TypeOK, BudgetInv, Blocked, Returned, vars, dialogue
<1>1. CASE RefuseConfig
  BY <1>1 DEF RefuseConfig, Return, Codes
<1>2. CASE AcceptConfig
  BY <1>2 DEF AcceptConfig
<1>3. CASE Connect
  BY <1>3 DEF Connect
<1>4. CASE ConnectFails
  BY <1>4 DEF ConnectFails, Return, Codes
<1>5. CASE Greeting
  BY <1>5 DEF Greeting, Readable
<1>6. CASE imapCommand
  <2>1. CASE LineGoesOn
    BY <2>1 DEF LineGoesOn, LineRead, Readable
  <2>2. CASE LineEnds
    <3>1. /\ count' \in 0 .. MaxCount + 1 /\ lines' \in 0 .. MaxCount + 1 /\ bytes' \in Nat
          /\ has' \in BOOLEAN
      BY <2>2 DEF LineEnds, LineRead
    <3>2. trail' \subseteq {"greeted", "offered", "accepted", "verified"}
      BY <2>2 DEF LineEnds, LineRead
    <3>3. /\ pc' \in {"unwind", "failed"} /\ code' \in Codes /\ socket' = "closed"
          /\ ctx' \in {ctx, "ended"} /\ stop' \in BOOLEAN
      BY <2>2 DEF LineEnds, Close, Return
    <3>4. QED
      BY <2>2, <3>1, <3>2, <3>3 DEF LineEnds, LineRead
  <2>3. QED
    BY <1>6, <2>1, <2>2, LineCases
<1>7. CASE Handshake
  BY <1>7 DEF Handshake, Readable
<1>8. CASE GreetingFails \/ imapCommandFails \/ HandshakeFails
  <2>1. /\ pc \in {"greeting", "CAPABILITY", "STARTTLS", "handshake"}
        /\ \E c \in Codes : Close(c)
        /\ UNCHANGED <<mode, watcher, peer, deadline, dialogue>>
    BY <1>8, FailureCloses
  <2>2. QED
    BY <2>1 DEF Close, Return
<1>9. CASE stopCancelWatcher
  BY <1>9 DEF stopCancelWatcher, Return
<1>10. CASE HandOut
  BY <1>10 DEF HandOut, Close, Return, Codes
<1>11. CASE Watch
  BY <1>11 DEF Watch
<1>12. CASE EndContext
  BY <1>12 DEF EndContext
<1>13. CASE PeerLeaves
  BY <1>13 DEF PeerLeaves
<1>14. CASE UNCHANGED vars
  BY <1>14
<1>15. QED
  BY <1>1, <1>2, <1>3, <1>4, <1>5, <1>6, <1>7, <1>8, <1>9, <1>10, <1>11,
     <1>12, <1>13, <1>14
  DEF Next, Local, Answered, Failed, Done

\* Every step keeps the watcher and the socket in line with the control point.
LEMMA WatcherStep == Inv /\ [Next]_vars => WatcherInv'
<1> SUFFICES ASSUME Inv, [Next]_vars PROVE WatcherInv'
  OBVIOUS
<1> USE DialAssumption DEF DialAssumption, Inv, TypeOK, WatcherInv, TrailInv, Blocked, Returned,
        vars, dialogue
<1>1. CASE RefuseConfig
  BY <1>1 DEF RefuseConfig, Return
<1>2. CASE AcceptConfig
  BY <1>2 DEF AcceptConfig
<1>3. CASE Connect
  BY <1>3 DEF Connect
<1>4. CASE ConnectFails
  BY <1>4 DEF ConnectFails, Return
<1>5. CASE Greeting
  BY <1>5 DEF Greeting, Readable
<1>6. CASE imapCommand
  <2>1. CASE LineGoesOn
    BY <2>1 DEF LineGoesOn, LineRead, Readable
  <2>2. CASE LineEnds
    BY <2>2 DEF LineEnds, LineRead, Readable, Close, Return
  <2>3. QED
    BY <1>6, <2>1, <2>2, LineCases
<1>7. CASE Handshake
  BY <1>7 DEF Handshake, Readable
<1>8. CASE GreetingFails \/ imapCommandFails \/ HandshakeFails
  <2>1. /\ pc \in {"greeting", "CAPABILITY", "STARTTLS", "handshake"}
        /\ \E c \in Codes : Close(c)
        /\ UNCHANGED <<mode, watcher, peer, deadline, dialogue>>
    BY <1>8, FailureCloses
  <2>2. QED
    BY <2>1 DEF Close, Return
<1>9. CASE stopCancelWatcher
  BY <1>9 DEF stopCancelWatcher, Return
<1>10. CASE HandOut
  BY <1>10 DEF HandOut, Close, Return
<1>11. CASE Watch
  BY <1>11 DEF Watch
<1>12. CASE EndContext
  BY <1>12 DEF EndContext
<1>13. CASE PeerLeaves
  BY <1>13 DEF PeerLeaves
<1>14. CASE UNCHANGED vars
  BY <1>14
<1>15. QED
  BY <1>1, <1>2, <1>3, <1>4, <1>5, <1>6, <1>7, <1>8, <1>9, <1>10, <1>11,
     <1>12, <1>13, <1>14
  DEF Next, Local, Answered, Failed, Done

\* Every step keeps what the peer must have answered.
LEMMA TrailStep == Inv /\ [Next]_vars => TrailInv'
<1> SUFFICES ASSUME Inv, [Next]_vars PROVE TrailInv'
  OBVIOUS
<1> USE DialAssumption DEF DialAssumption, Inv, TypeOK, TrailInv, Blocked, Returned, vars, dialogue
<1>1. CASE RefuseConfig
  BY <1>1 DEF RefuseConfig, Return
<1>2. CASE AcceptConfig
  BY <1>2 DEF AcceptConfig
<1>3. CASE Connect
  BY <1>3 DEF Connect
<1>4. CASE ConnectFails
  BY <1>4 DEF ConnectFails, Return
<1>5. CASE Greeting
  BY <1>5 DEF Greeting, Readable
<1>6. CASE imapCommand
  <2>1. CASE LineGoesOn
    BY <2>1 DEF LineGoesOn, LineRead, Readable
  <2>2. CASE LineEnds
    BY <2>2 DEF LineEnds, LineRead, Readable, Close, Return
  <2>3. QED
    BY <1>6, <2>1, <2>2, LineCases
<1>7. CASE Handshake
  BY <1>7 DEF Handshake, Readable
<1>8. CASE GreetingFails \/ imapCommandFails \/ HandshakeFails
  <2>1. /\ pc \in {"greeting", "CAPABILITY", "STARTTLS", "handshake"}
        /\ \E c \in Codes : Close(c)
        /\ UNCHANGED <<mode, watcher, peer, deadline, dialogue>>
    BY <1>8, FailureCloses
  <2>2. QED
    BY <2>1 DEF Close, Return
<1>9. CASE stopCancelWatcher
  BY <1>9 DEF stopCancelWatcher, Return
<1>10. CASE HandOut
  BY <1>10 DEF HandOut, Close, Return
<1>11. CASE Watch
  BY <1>11 DEF Watch
<1>12. CASE EndContext
  BY <1>12 DEF EndContext
<1>13. CASE PeerLeaves
  BY <1>13 DEF PeerLeaves
<1>14. CASE UNCHANGED vars
  BY <1>14
<1>15. QED
  BY <1>1, <1>2, <1>3, <1>4, <1>5, <1>6, <1>7, <1>8, <1>9, <1>10, <1>11,
     <1>12, <1>13, <1>14
  DEF Next, Local, Answered, Failed, Done

\* Every step keeps the budget of the dialogue.
LEMMA BudgetStep == Inv /\ [Next]_vars => BudgetInv'
<1> SUFFICES ASSUME Inv, [Next]_vars PROVE BudgetInv'
  OBVIOUS
<1> USE DialAssumption DEF DialAssumption, Inv, TypeOK, BudgetInv, Blocked, Returned, vars, dialogue
<1>1. CASE RefuseConfig
  BY <1>1 DEF RefuseConfig, Return
<1>2. CASE AcceptConfig
  BY <1>2 DEF AcceptConfig
<1>3. CASE Connect
  BY <1>3 DEF Connect
<1>4. CASE ConnectFails
  BY <1>4 DEF ConnectFails, Return
<1>5. CASE Greeting
  BY <1>5 DEF Greeting, Readable
<1>6. CASE imapCommand
  <2>1. CASE LineGoesOn
    BY <2>1 DEF LineGoesOn, LineRead, Readable
  <2>2. CASE LineEnds
    BY <2>2 DEF LineEnds, LineRead, Readable, Close, Return
  <2>3. QED
    BY <1>6, <2>1, <2>2, LineCases
<1>7. CASE Handshake
  BY <1>7 DEF Handshake, Readable
<1>8. CASE GreetingFails \/ imapCommandFails \/ HandshakeFails
  <2>1. /\ pc \in {"greeting", "CAPABILITY", "STARTTLS", "handshake"}
        /\ \E c \in Codes : Close(c)
        /\ UNCHANGED <<mode, watcher, peer, deadline, dialogue>>
    BY <1>8, FailureCloses
  <2>2. QED
    BY <2>1 DEF Close, Return
<1>9. CASE stopCancelWatcher
  BY <1>9 DEF stopCancelWatcher, Return
<1>10. CASE HandOut
  BY <1>10 DEF HandOut, Close, Return
<1>11. CASE Watch
  BY <1>11 DEF Watch
<1>12. CASE EndContext
  BY <1>12 DEF EndContext
<1>13. CASE PeerLeaves
  BY <1>13 DEF PeerLeaves
<1>14. CASE UNCHANGED vars
  BY <1>14
<1>15. QED
  BY <1>1, <1>2, <1>3, <1>4, <1>5, <1>6, <1>7, <1>8, <1>9, <1>10, <1>11,
     <1>12, <1>13, <1>14
  DEF Next, Local, Answered, Failed, Done

\* The invariant holds before Dial looks at its configuration.
LEMMA InitInv == Init => Inv
<1> SUFFICES ASSUME Init PROVE Inv
  OBVIOUS
<1> USE DialAssumption DEF DialAssumption, Returned
<1>0. count = 0 /\ bytes = 0 /\ lines = 0
  BY DEF Init
<1>1. TypeOK
  <2>1. count \in 0 .. MaxCount + 1 /\ bytes \in Nat /\ lines \in 0 .. MaxCount + 1
    BY <1>0
  <2>2. stop \in BOOLEAN /\ peer \in BOOLEAN /\ deadline \in BOOLEAN /\ has \in BOOLEAN
    BY DEF Init
  <2>3. QED
    BY <2>1, <2>2 DEF Init, TypeOK, Codes, Blocked
<1>2. WatcherInv
  BY DEF Init, WatcherInv
<1>3. TrailInv
  BY DEF Init, TrailInv
<1>4. BudgetInv
  BY <1>0 DEF BudgetInv
<1>5. QED
  BY <1>1, <1>2, <1>3, <1>4 DEF Inv

\* The invariant of Dial.
THEOREM DialInvariant == Spec => []Inv
<1>1. Inv /\ [Next]_vars => Inv'
  BY TypeStep, WatcherStep, TrailStep, BudgetStep DEF Inv
<1>2. QED
  BY <1>1, InitInv, PTL DEF Spec

\* Every variable of Dial keeps its type; the counters of the dialogue pass
\* the budget by one line at most.
THEOREM DialTypes == Spec => []TypeOK
<1>1. Inv => TypeOK
  BY DEF Inv
<1>2. QED
  BY <1>1, DialInvariant, PTL

\* DialEndsClean: a transport handed out is open, verified, without deadline
\* and without a watcher that could still close it; a failed Dial holds no
\* socket.
THEOREM HandsOutVerified == Spec => []DialEndsClean
<1>1. Inv => DialEndsClean
  BY DEF Inv, WatcherInv, TrailInv, DialEndsClean, Returned
<1>2. QED
  BY <1>1, DialInvariant, PTL

\* DialogueIsBounded: the lines of both commands share one budget, whatever
\* the peer sends.
THEOREM BudgetIsShared == Spec => []DialogueIsBounded
<1>1. Inv => DialogueIsBounded
  BY DialAssumption DEF DialAssumption, Inv, TypeOK, BudgetInv, DialogueIsBounded
<1>2. QED
  BY <1>1, DialInvariant, PTL
=============================================================================
