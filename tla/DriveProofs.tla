----------------------------- MODULE DriveProofs -----------------------------
(***************************************************************************)
(* The Drive side.  The handshake gate and the audit of DriveServer, for   *)
(* any number of concurrent tool calls; and the safety of a transactional  *)
(* copy, for every limit, source length, buffer and depth of the parent,   *)
(* with failing calls, other processes in the directory and a crash        *)
(* between any two calls.                                                  *)
(***************************************************************************)
EXTENDS DriveServer, DriveTransaction, SequenceTheorems, TLAPS

-----------------------------------------------------------------------------
(* The server.                                                             *)

\* A child belongs to a call that negotiates or runs a data command, and was
\* started by it.
ChildInv ==
  \A r \in Requests :
    child[r] # "none" => pc[r] \in {"version", "data"} /\ ran[r]

\* Whoever is past the handshake has seen a child of the pinned version.
HandshakeInv ==
  /\ verified => handshaken
  /\ \A r \in Requests : pc[r] \in {"latch", "data"} => handshaken

\* Once latched nobody is inside the handshake any more.
LatchInv ==
  verified => \A r \in Requests : pc[r] \notin {"version", "latch"}

\* Nothing is audited before the outcome is known, and then it is known.
AuditInv ==
  \A r \in Requests :
    /\ pc[r] = "reply" => result[r] # ""
    /\ audit[r] = IF pc[r] = "done" THEN <<result[r]>> ELSE <<>>

\* The inductive invariant.
Inv ==
  /\ TypeOK /\ SlotMatchesHolder /\ ChildInv /\ HandshakeInv /\ LatchInv
  /\ FailuresAreOwn /\ AuditInv

\* A server that has answered nothing satisfies the invariant.
LEMMA InitInv == Init => Inv
<1> SUFFICES ASSUME Init PROVE Inv
    OBVIOUS
<1> USE DriveServerAssumption DEF Init
<1>1. TypeOK
  <2>1. verified \in BOOLEAN /\ handshaken \in BOOLEAN /\ configured \in BOOLEAN
        OBVIOUS
  <2>2. <<>> \in Seq(Errors \cup {"ok"})
        BY EmptySeq
  <2> QED BY <2>1, <2>2 DEF TypeOK, Ended, Errors, VersionExits, DataExits
<1>2. SlotMatchesHolder  BY DEF SlotMatchesHolder
<1>3. ChildInv  BY DEF ChildInv
<1>4. HandshakeInv  BY DEF HandshakeInv
<1>5. LatchInv  BY DEF LatchInv
<1>6. FailuresAreOwn  BY DEF FailuresAreOwn
<1>7. AuditInv  BY DEF AuditInv
<1> QED BY <1>1, <1>2, <1>3, <1>4, <1>5, <1>6, <1>7 DEF Inv

\* The first record makes a log of length one.
LEMMA FirstRecord == ASSUME NEW code PROVE Append(<<>>, code) = <<code>>
  OBVIOUS

\* What invoke and mapDriveError return is a code of the server, never "".
LEMMA InvokeCodes ==
  ASSUME NEW r \in Requests
  PROVE  invoke(r) \in {"ok", "unavailable", "canceled", "timed_out", "bounds_exceeded"}
  BY DEF invoke

\* Every step keeps the variables in their types.
LEMMA TypeStep == Inv /\ [Next]_vars => TypeOK'
<1> SUFFICES ASSUME Inv, [Next]_vars PROVE TypeOK'
    OBVIOUS
<1> USE DriveServerAssumption DEF Inv, TypeOK
<1>1. CASE UNCHANGED vars  BY <1>1 DEF vars, callVars
<1>2. ASSUME NEW r \in Requests,
             \/ Begin(r) \/ Local(r) \/ TakeSlot(r)
             \/ ChildExits(r) \/ Kill(r) \/ Timeout(r)
             \/ \E e \in Ended : EndContext(r, e)
      PROVE  TypeOK'
  <2>1. CASE Begin(r)  BY <2>1 DEF Begin
  <2>2. CASE RefuseCall(r)
    <3>1. PICK code \in Errors : Finish(r, code)
          BY <2>2 DEF RefuseCall, Errors
    <3>2. UNCHANGED <<configured, verified, ctx, timer, child, audit, handshaken, ran>>
          BY <2>2 DEF RefuseCall
    <3> QED BY <3>1, <3>2 DEF Finish
  <2>3. CASE AcceptCall(r)  BY <2>3 DEF AcceptCall
  <2>4. CASE ensure(r)  BY <2>4 DEF ensure
  <2>5. CASE TakeSlot(r)  BY <2>5 DEF TakeSlot
  <2>6. CASE SlotEnded(r)
    <3>1. ctx[r] \in Errors
          BY <2>6 DEF SlotEnded, Ended, Errors
    <3> QED BY <2>6, <3>1 DEF SlotEnded, Finish
  <2>7. CASE Recheck(r)  BY <2>7 DEF Recheck, Look
  <2>8. CASE Latch(r)  BY <2>8 DEF Latch
  <2>9. CASE StartChild(r)
    <3>1. "failed" \in VersionExits
          BY DEF VersionExits
    <3> QED BY <2>9, <3>1 DEF StartChild
  <2>10. CASE ChildExits(r)
    <3>1. PICK e \in VersionExits \cup DataExits : child' = [child EXCEPT ![r] = e]
          BY <2>10 DEF ChildExits
    <3> QED BY <2>10, <3>1 DEF ChildExits
  <2>11. CASE Kill(r)
    <3>1. "killed" \in VersionExits
          BY DEF VersionExits
    <3> QED BY <2>11, <3>1 DEF Kill
  <2>12. CASE Handshake(r)
    <3>1. invoke(r) \in Errors \cup {"", "ok"}
          BY InvokeCodes DEF Errors
    <3>2. handshaken' \in BOOLEAN
          BY <2>12 DEF Handshake, Negotiated
    <3>3. \/ pc' = [pc EXCEPT ![r] = "latch"] /\ UNCHANGED <<slot, result>>
          \/ Finish(r, invoke(r))
          BY <2>12 DEF Handshake, Negotiated
    <3>4. /\ child' = [child EXCEPT ![r] = "none"]
          /\ UNCHANGED <<configured, verified, ctx, timer, audit, ran>>
          BY <2>12 DEF Handshake, Negotiated
    <3>5. pc' \in [Requests -> {"idle", "run", "ensure", "slot", "recheck",
                                "version", "latch", "data", "reply", "done"}]
          BY <3>3 DEF Finish
    <3>6. slot' \in Requests \cup {None}
          BY <3>3 DEF Finish
    <3>7. result' \in [Requests -> Errors \cup {"", "ok"}]
          BY <3>1, <3>3 DEF Finish
    <3> QED BY <3>2, <3>4, <3>5, <3>6, <3>7
  <2>13. CASE DataCommand(r)
    <3>1. invoke(r) \in Errors \cup {"", "ok"}
          BY InvokeCodes DEF Errors
    <3> QED BY <2>13, <3>1 DEF DataCommand, Finish
  <2>14. CASE Panic(r)
    <3>1. "internal" \in Errors
          BY DEF Errors
    <3> QED BY <2>14, <3>1 DEF Panic, Finish
  <2>15. CASE Reply(r)
    <3>1. PICK code \in {result[r]} \cup (IF result[r] = "ok" THEN {"internal"} ELSE {}) :
                 /\ audit' = [audit EXCEPT ![r] = Append(audit[r], code)]
                 /\ result' = [result EXCEPT ![r] = code]
          BY <2>15 DEF Reply
    <3>2. code \in Errors \cup {"ok"}
          BY <2>15, <3>1 DEF Reply, AuditInv, Errors
    <3>3. Append(audit[r], code) \in Seq(Errors \cup {"ok"})
          BY <3>2, AppendProperties
    <3> QED BY <2>15, <3>1, <3>2, <3>3 DEF Reply
  <2>16. CASE Forget(r)
    <3>1. <<>> \in Seq(Errors \cup {"ok"})
          BY EmptySeq
    <3> QED BY <2>16, <3>1 DEF Forget
  <2>17. CASE \E e \in Ended : EndContext(r, e)
    <3>1. PICK e \in Ended : EndContext(r, e)
          BY <2>17
    <3> QED BY <3>1 DEF EndContext
  <2>18. CASE Timeout(r)  BY <2>18 DEF Timeout
  <2> QED BY <1>2, <2>1, <2>2, <2>3, <2>4, <2>5, <2>6, <2>7, <2>8, <2>9,
             <2>10, <2>11, <2>12, <2>13, <2>14, <2>15, <2>16, <2>17, <2>18
          DEF Local
<1> QED BY <1>1, <1>2 DEF Next

\* The slot of the gate is taken and given back together with the steps of the
\* call that negotiates, on every path out of ensure.
LEMMA SlotStep == Inv /\ [Next]_vars => SlotMatchesHolder'
<1> SUFFICES ASSUME Inv, [Next]_vars PROVE SlotMatchesHolder'
    OBVIOUS
<1> USE DriveServerAssumption DEF Inv, SlotMatchesHolder
<1> pc \in [Requests -> {"idle", "run", "ensure", "slot", "recheck", "version",
                         "latch", "data", "reply", "done"}]
    BY DEF TypeOK
<1>1. CASE UNCHANGED vars  BY <1>1 DEF vars, callVars
<1>2. ASSUME NEW r \in Requests,
             \/ Begin(r) \/ Local(r) \/ TakeSlot(r)
             \/ ChildExits(r) \/ Kill(r) \/ Timeout(r)
             \/ \E e \in Ended : EndContext(r, e)
      PROVE  SlotMatchesHolder'
  <2>1. CASE Begin(r)  BY <2>1 DEF Begin
  <2>2. CASE RefuseCall(r)  BY <2>2 DEF RefuseCall, Finish
  <2>3. CASE AcceptCall(r)  BY <2>3 DEF AcceptCall
  <2>4. CASE ensure(r)  BY <2>4 DEF ensure
  <2>5. CASE TakeSlot(r)  BY <2>5 DEF TakeSlot
  <2>6. CASE SlotEnded(r)  BY <2>6 DEF SlotEnded, Finish
  <2>7. CASE Recheck(r)  BY <2>7 DEF Recheck, Look
  <2>8. CASE Latch(r)  BY <2>8 DEF Latch
  <2>9. CASE StartChild(r)  BY <2>9 DEF StartChild
  <2>10. CASE ChildExits(r)  BY <2>10 DEF ChildExits
  <2>11. CASE Kill(r)  BY <2>11 DEF Kill
  <2>12. CASE Handshake(r)  BY <2>12 DEF Handshake, Negotiated, Finish
  <2>13. CASE DataCommand(r)  BY <2>13 DEF DataCommand, Finish
  <2>14. CASE Panic(r)  BY <2>14 DEF Panic, Finish
  <2>15. CASE Reply(r)  BY <2>15 DEF Reply
  <2>16. CASE Forget(r)  BY <2>16 DEF Forget
  <2>17. CASE \E e \in Ended : EndContext(r, e)  BY <2>17 DEF EndContext
  <2>18. CASE Timeout(r)  BY <2>18 DEF Timeout
  <2> QED BY <1>2, <2>1, <2>2, <2>3, <2>4, <2>5, <2>6, <2>7, <2>8, <2>9,
             <2>10, <2>11, <2>12, <2>13, <2>14, <2>15, <2>16, <2>17, <2>18
          DEF Local
<1> QED BY <1>1, <1>2 DEF Next

\* Children are started by, and reaped before, the calls they belong to.
LEMMA ChildStep == Inv /\ [Next]_vars => ChildInv'
<1> SUFFICES ASSUME Inv, [Next]_vars PROVE ChildInv'
    OBVIOUS
<1> USE DriveServerAssumption DEF Inv, ChildInv
<1> pc \in [Requests -> {"idle", "run", "ensure", "slot", "recheck", "version",
                         "latch", "data", "reply", "done"}]
    BY DEF TypeOK
<1> child \in [Requests -> {"none", "running"} \cup VersionExits \cup DataExits]
    /\ ran \in [Requests -> BOOLEAN]
    BY DEF TypeOK
<1>1. CASE UNCHANGED vars  BY <1>1 DEF vars, callVars
<1>2. ASSUME NEW r \in Requests,
             \/ Begin(r) \/ Local(r) \/ TakeSlot(r)
             \/ ChildExits(r) \/ Kill(r) \/ Timeout(r)
             \/ \E e \in Ended : EndContext(r, e)
      PROVE  ChildInv'
  <2>1. CASE Begin(r)  BY <2>1 DEF Begin
  <2>2. CASE RefuseCall(r)  BY <2>2 DEF RefuseCall, Finish
  <2>3. CASE AcceptCall(r)  BY <2>3 DEF AcceptCall
  <2>4. CASE ensure(r)  BY <2>4 DEF ensure
  <2>5. CASE TakeSlot(r)  BY <2>5 DEF TakeSlot
  <2>6. CASE SlotEnded(r)  BY <2>6 DEF SlotEnded, Finish
  <2>7. CASE Recheck(r)  BY <2>7 DEF Recheck, Look
  <2>8. CASE Latch(r)  BY <2>8 DEF Latch
  <2>9. CASE StartChild(r)  BY <2>9 DEF StartChild
  <2>10. CASE ChildExits(r)  BY <2>10 DEF ChildExits
  <2>11. CASE Kill(r)  BY <2>11 DEF Kill
  <2>12. CASE Handshake(r)  BY <2>12 DEF Handshake, Negotiated, Finish
  <2>13. CASE DataCommand(r)  BY <2>13 DEF DataCommand, Finish
  <2>14. CASE Panic(r)  BY <2>14 DEF Panic, Finish
  <2>15. CASE Reply(r)  BY <2>15 DEF Reply
  <2>16. CASE Forget(r)  BY <2>16 DEF Forget
  <2>17. CASE \E e \in Ended : EndContext(r, e)  BY <2>17 DEF EndContext
  <2>18. CASE Timeout(r)  BY <2>18 DEF Timeout
  <2> QED BY <1>2, <2>1, <2>2, <2>3, <2>4, <2>5, <2>6, <2>7, <2>8, <2>9,
             <2>10, <2>11, <2>12, <2>13, <2>14, <2>15, <2>16, <2>17, <2>18
          DEF Local
<1> QED BY <1>1, <1>2 DEF Next

\* Only a handshake that succeeded lets a call pass to the data command.
LEMMA HandshakeStep == Inv /\ [Next]_vars => HandshakeInv'
<1> SUFFICES ASSUME Inv, [Next]_vars PROVE HandshakeInv'
    OBVIOUS
<1> USE DriveServerAssumption DEF Inv, HandshakeInv
<1> pc \in [Requests -> {"idle", "run", "ensure", "slot", "recheck", "version",
                         "latch", "data", "reply", "done"}]
    BY DEF TypeOK
<1>1. CASE UNCHANGED vars  BY <1>1 DEF vars, callVars
<1>2. ASSUME NEW r \in Requests,
             \/ Begin(r) \/ Local(r) \/ TakeSlot(r)
             \/ ChildExits(r) \/ Kill(r) \/ Timeout(r)
             \/ \E e \in Ended : EndContext(r, e)
      PROVE  HandshakeInv'
  <2>1. CASE Begin(r)  BY <2>1 DEF Begin
  <2>2. CASE RefuseCall(r)  BY <2>2 DEF RefuseCall, Finish
  <2>3. CASE AcceptCall(r)  BY <2>3 DEF AcceptCall
  <2>4. CASE ensure(r)  BY <2>4 DEF ensure
  <2>5. CASE TakeSlot(r)  BY <2>5 DEF TakeSlot
  <2>6. CASE SlotEnded(r)  BY <2>6 DEF SlotEnded, Finish
  <2>7. CASE Recheck(r)  BY <2>7 DEF Recheck, Look
  <2>8. CASE Latch(r)  BY <2>8 DEF Latch
  <2>9. CASE StartChild(r)  BY <2>9 DEF StartChild
  <2>10. CASE ChildExits(r)  BY <2>10 DEF ChildExits
  <2>11. CASE Kill(r)  BY <2>11 DEF Kill
  <2>12. CASE Handshake(r)  BY <2>12 DEF Handshake, Negotiated, Finish
  <2>13. CASE DataCommand(r)  BY <2>13 DEF DataCommand, Finish
  <2>14. CASE Panic(r)  BY <2>14 DEF Panic, Finish
  <2>15. CASE Reply(r)  BY <2>15 DEF Reply
  <2>16. CASE Forget(r)  BY <2>16 DEF Forget
  <2>17. CASE \E e \in Ended : EndContext(r, e)  BY <2>17 DEF EndContext
  <2>18. CASE Timeout(r)  BY <2>18 DEF Timeout
  <2> QED BY <1>2, <2>1, <2>2, <2>3, <2>4, <2>5, <2>6, <2>7, <2>8, <2>9,
             <2>10, <2>11, <2>12, <2>13, <2>14, <2>15, <2>16, <2>17, <2>18
          DEF Local
<1> QED BY <1>1, <1>2 DEF Next

\* A call that latches is the only one in the handshake, because it holds the
\* slot; a call that takes the slot afterwards looks at the latch again.
LEMMA LatchStep == Inv /\ [Next]_vars => LatchInv'
<1> SUFFICES ASSUME Inv, [Next]_vars PROVE LatchInv'
    OBVIOUS
<1> USE DriveServerAssumption DEF Inv, LatchInv
<1> pc \in [Requests -> {"idle", "run", "ensure", "slot", "recheck", "version",
                         "latch", "data", "reply", "done"}]
    BY DEF TypeOK
<1>1. CASE UNCHANGED vars  BY <1>1 DEF vars, callVars
<1>2. ASSUME NEW r \in Requests,
             \/ Begin(r) \/ Local(r) \/ TakeSlot(r)
             \/ ChildExits(r) \/ Kill(r) \/ Timeout(r)
             \/ \E e \in Ended : EndContext(r, e)
      PROVE  LatchInv'
  <2>1. CASE Begin(r)  BY <2>1 DEF Begin
  <2>2. CASE RefuseCall(r)  BY <2>2 DEF RefuseCall, Finish
  <2>3. CASE AcceptCall(r)  BY <2>3 DEF AcceptCall
  <2>4. CASE ensure(r)  BY <2>4 DEF ensure
  <2>5. CASE TakeSlot(r)  BY <2>5 DEF TakeSlot
  <2>6. CASE SlotEnded(r)  BY <2>6 DEF SlotEnded, Finish
  <2>7. CASE Recheck(r)  BY <2>7 DEF Recheck, Look
  <2>8. CASE Latch(r)
    <3>1. \A q \in Requests : q # r => pc[q] \notin {"version", "latch"}
          BY <2>8 DEF Latch, SlotMatchesHolder
    <3> QED BY <2>8, <3>1 DEF Latch
  <2>9. CASE StartChild(r)  BY <2>9 DEF StartChild
  <2>10. CASE ChildExits(r)  BY <2>10 DEF ChildExits
  <2>11. CASE Kill(r)  BY <2>11 DEF Kill
  <2>12. CASE Handshake(r)  BY <2>12 DEF Handshake, Negotiated, Finish
  <2>13. CASE DataCommand(r)  BY <2>13 DEF DataCommand, Finish
  <2>14. CASE Panic(r)  BY <2>14 DEF Panic, Finish
  <2>15. CASE Reply(r)  BY <2>15 DEF Reply
  <2>16. CASE Forget(r)  BY <2>16 DEF Forget
  <2>17. CASE \E e \in Ended : EndContext(r, e)  BY <2>17 DEF EndContext
  <2>18. CASE Timeout(r)  BY <2>18 DEF Timeout
  <2> QED BY <1>2, <2>1, <2>2, <2>3, <2>4, <2>5, <2>6, <2>7, <2>8, <2>9,
             <2>10, <2>11, <2>12, <2>13, <2>14, <2>15, <2>16, <2>17, <2>18
          DEF Local
<1> QED BY <1>1, <1>2 DEF Next

\* Only what a call's own child did makes it fail as unavailable.
LEMMA FailureStep == Inv /\ [Next]_vars => FailuresAreOwn'
<1> SUFFICES ASSUME Inv, [Next]_vars PROVE FailuresAreOwn'
    OBVIOUS
<1> USE DriveServerAssumption DEF Inv, FailuresAreOwn
<1> pc \in [Requests -> {"idle", "run", "ensure", "slot", "recheck", "version",
                         "latch", "data", "reply", "done"}]
    BY DEF TypeOK
<1> /\ result \in [Requests -> Errors \cup {"", "ok"}]
    /\ ran \in [Requests -> BOOLEAN]
    /\ ctx \in [Requests -> {"live"} \cup Ended]
    BY DEF TypeOK
<1>1. CASE UNCHANGED vars  BY <1>1 DEF vars, callVars
<1>2. ASSUME NEW r \in Requests,
             \/ Begin(r) \/ Local(r) \/ TakeSlot(r)
             \/ ChildExits(r) \/ Kill(r) \/ Timeout(r)
             \/ \E e \in Ended : EndContext(r, e)
      PROVE  FailuresAreOwn'
  <2>1. CASE Begin(r)  BY <2>1 DEF Begin
  <2>2. CASE RefuseCall(r)  BY <2>2 DEF RefuseCall, Finish
  <2>3. CASE AcceptCall(r)  BY <2>3 DEF AcceptCall
  <2>4. CASE ensure(r)  BY <2>4 DEF ensure
  <2>5. CASE TakeSlot(r)  BY <2>5 DEF TakeSlot
  <2>6. CASE SlotEnded(r)
    <3>1. ctx[r] \in Ended
          BY <2>6 DEF SlotEnded
    <3> QED BY <2>6, <3>1 DEF SlotEnded, Finish, Ended
  <2>7. CASE Recheck(r)  BY <2>7 DEF Recheck, Look
  <2>8. CASE Latch(r)  BY <2>8 DEF Latch
  <2>9. CASE StartChild(r)  BY <2>9 DEF StartChild
  <2>10. CASE ChildExits(r)  BY <2>10 DEF ChildExits
  <2>11. CASE Kill(r)  BY <2>11 DEF Kill
  <2>12. CASE Handshake(r)
    <3>1. ran[r]
          BY <2>12 DEF Handshake, Negotiated, ChildInv
    <3> QED BY <2>12, <3>1 DEF Handshake, Negotiated, Finish
  <2>13. CASE DataCommand(r)
    <3>1. ran[r]
          BY <2>13 DEF DataCommand, ChildInv
    <3> QED BY <2>13, <3>1 DEF DataCommand, Finish
  <2>14. CASE Panic(r)  BY <2>14 DEF Panic, Finish
  <2>15. CASE Reply(r)
    <3>1. result' = [result EXCEPT ![r] = result'[r]] /\ pc'[r] = "done"
          BY <2>15 DEF Reply
    <3> QED BY <2>15, <3>1 DEF Reply
  <2>16. CASE Forget(r)  BY <2>16 DEF Forget
  <2>17. CASE \E e \in Ended : EndContext(r, e)
    <3>1. PICK e \in Ended : EndContext(r, e)
          BY <2>17
    <3> QED BY <3>1 DEF EndContext
  <2>18. CASE Timeout(r)  BY <2>18 DEF Timeout
  <2> QED BY <1>2, <2>1, <2>2, <2>3, <2>4, <2>5, <2>6, <2>7, <2>8, <2>9,
             <2>10, <2>11, <2>12, <2>13, <2>14, <2>15, <2>16, <2>17, <2>18
          DEF Local
<1> QED BY <1>1, <1>2 DEF Next

\* The one audit record of a call is written with the answer.
LEMMA AuditStep == Inv /\ [Next]_vars => AuditInv'
<1> SUFFICES ASSUME Inv, [Next]_vars PROVE AuditInv'
    OBVIOUS
<1> USE DriveServerAssumption DEF Inv, AuditInv
<1> pc \in [Requests -> {"idle", "run", "ensure", "slot", "recheck", "version",
                         "latch", "data", "reply", "done"}]
    BY DEF TypeOK
<1> /\ result \in [Requests -> Errors \cup {"", "ok"}]
    /\ audit \in [Requests -> Seq(Errors \cup {"ok"})]
    /\ ctx \in [Requests -> {"live"} \cup Ended]
    BY DEF TypeOK
<1>1. CASE UNCHANGED vars  BY <1>1 DEF vars, callVars
<1>2. ASSUME NEW r \in Requests,
             \/ Begin(r) \/ Local(r) \/ TakeSlot(r)
             \/ ChildExits(r) \/ Kill(r) \/ Timeout(r)
             \/ \E e \in Ended : EndContext(r, e)
      PROVE  AuditInv'
  <2>1. CASE Begin(r)  BY <2>1 DEF Begin
  <2>2. CASE RefuseCall(r)  BY <2>2 DEF RefuseCall, Finish
  <2>3. CASE AcceptCall(r)  BY <2>3 DEF AcceptCall
  <2>4. CASE ensure(r)  BY <2>4 DEF ensure
  <2>5. CASE TakeSlot(r)  BY <2>5 DEF TakeSlot
  <2>6. CASE SlotEnded(r)
    <3>1. ctx[r] # ""
          BY <2>6 DEF SlotEnded, Ended
    <3> QED BY <2>6, <3>1 DEF SlotEnded, Finish
  <2>7. CASE Recheck(r)  BY <2>7 DEF Recheck, Look
  <2>8. CASE Latch(r)  BY <2>8 DEF Latch
  <2>9. CASE StartChild(r)  BY <2>9 DEF StartChild
  <2>10. CASE ChildExits(r)  BY <2>10 DEF ChildExits
  <2>11. CASE Kill(r)  BY <2>11 DEF Kill
  <2>12. CASE Handshake(r)
    <3>1. invoke(r) # ""
          BY InvokeCodes
    <3> QED BY <2>12, <3>1 DEF Handshake, Negotiated, Finish
  <2>13. CASE DataCommand(r)
    <3>1. invoke(r) # ""
          BY InvokeCodes
    <3> QED BY <2>13, <3>1 DEF DataCommand, Finish
  <2>14. CASE Panic(r)  BY <2>14 DEF Panic, Finish
  <2>15. CASE Reply(r)
    <3>1. PICK code \in {result[r]} \cup (IF result[r] = "ok" THEN {"internal"} ELSE {}) :
                 /\ audit' = [audit EXCEPT ![r] = Append(audit[r], code)]
                 /\ result' = [result EXCEPT ![r] = code]
          BY <2>15 DEF Reply
    <3>2. audit[r] = <<>>
          BY <2>15 DEF Reply
    <3>3. Append(<<>>, code) = <<code>>
          BY FirstRecord
    <3> QED BY <2>15, <3>1, <3>2, <3>3 DEF Reply
  <2>16. CASE Forget(r)  BY <2>16 DEF Forget
  <2>17. CASE \E e \in Ended : EndContext(r, e)  BY <2>17 DEF EndContext
  <2>18. CASE Timeout(r)  BY <2>18 DEF Timeout
  <2> QED BY <1>2, <2>1, <2>2, <2>3, <2>4, <2>5, <2>6, <2>7, <2>8, <2>9,
             <2>10, <2>11, <2>12, <2>13, <2>14, <2>15, <2>16, <2>17, <2>18
          DEF Local
<1> QED BY <1>1, <1>2 DEF Next

\* Every reachable state satisfies the inductive invariant.
THEOREM ServerInv == Spec => []Inv
<1>1. Inv /\ [Next]_vars => Inv'
  <2> SUFFICES ASSUME Inv, [Next]_vars PROVE Inv'
      OBVIOUS
  <2> QED BY TypeStep, SlotStep, ChildStep, HandshakeStep, LatchStep, FailureStep,
             AuditStep DEF Inv
<1> QED BY InitInv, <1>1, PTL DEF Spec

\* The variables of the server keep their types.
THEOREM ServerTypes == Spec => []TypeOK
<1>1. Inv => TypeOK  BY DEF Inv
<1> QED BY ServerInv, <1>1, PTL

\* The handshake slot is never left behind, whatever ends a handshake.
THEOREM SlotIsReturned == Spec => []SlotMatchesHolder
<1>1. Inv => SlotMatchesHolder  BY DEF Inv
<1> QED BY ServerInv, <1>1, PTL

\* No data command runs against a CLI that was never verified.
THEOREM DataIsGated == Spec => []DataAfterHandshake
<1>1. Inv => DataAfterHandshake  BY DEF Inv, HandshakeInv, DataAfterHandshake
<1> QED BY ServerInv, <1>1, PTL

\* Waiters never inherit the failure of somebody else's handshake.
THEOREM NoSharedFailures == Spec => []FailuresAreOwn
<1>1. Inv => FailuresAreOwn  BY DEF Inv
<1> QED BY ServerInv, <1>1, PTL

\* An answered call has exactly one audit record, and it tells the outcome.
THEOREM AuditIsExact == Spec => []AuditedOnce
<1>1. Inv => AuditedOnce  BY DEF Inv, AuditInv, AuditedOnce
<1> QED BY ServerInv, <1>1, PTL

\* After the latch no call starts a version child.
THEOREM LatchIsFinal == Spec => HandshakeLatches
<1>1. Inv /\ [Next]_vars
        => [verified => \A r \in Requests :
              pc[r] = "version" => child'[r] # "running"]_vars
      BY DEF Inv, LatchInv
<1> QED BY ServerInv, <1>1, PTL DEF Spec, HandshakeLatches

\* The handshake gate keeps its promises: gated data commands, a slot that
\* comes back, one successful handshake.
THEOREM GateHolds == Spec => GateIsSound
BY SlotIsReturned, DataIsGated, LatchIsFinal, PTL DEF GateIsSound

\* Every answer and its audit record are the call's own.
THEOREM AnswersHold == Spec => []AnswersAreOwn
<1>1. FailuresAreOwn /\ AuditedOnce => AnswersAreOwn  BY DEF AnswersAreOwn
<1> QED BY NoSharedFailures, AuditIsExact, <1>1, PTL

-----------------------------------------------------------------------------
(* The copy.                                                               *)

\* The arithmetic of copyBounded: while it runs, the bytes written and the
\* bytes still allowed make up the limit, and everything read was written; it
\* ends without an error only at the end of the source.
CopyInv ==
  /\ written <= Limit /\ read <= Limit + 1 /\ read <= source
  /\ at \in {"enter", "open_chain", "stat_destination", "mkdir_stage",
             "stat_stage", "open_stage", "check_stage", "create_output"} =>
       read = 0 /\ written = 0 /\ remaining = Limit /\ empty = 0
  /\ at = "read" => /\ read = written /\ written + remaining = Limit
                    /\ empty < MaxEmpty
  /\ at \in {"close_output", "publish"} => written = source
  /\ dest = "ours" => published = source /\ published <= Limit

\* Which descriptors are open follows from the call that comes next.
DescriptorInv ==
  /\ at = "open_chain" => held < Depth
  /\ at \in {"enter", "returned", "dead"} => held = 0
  /\ at \notin {"check_stage", "create_output", "read", "close_output", "publish",
                "abort_output", "unlink_output", "close_stage"} => dirFd = FALSE
  /\ at \notin {"read", "close_output", "abort_output"} => fileFd = FALSE

\* Without an error the deferred calls run only after publication, and each
\* has done its part when the next one runs.
CleanupInv ==
  ~err =>
    /\ at \in {"unlink_output", "close_stage", "recheck_stage", "rmdir_stage",
               "close_chain", "returned"} => dest = "ours"
    /\ at \in {"close_stage", "recheck_stage", "rmdir_stage", "close_chain", "returned"} =>
         output = "absent"
    /\ at \in {"close_chain", "returned"} => stage # "ours"

TransactionInv == CopyTypeOK /\ CopyInv /\ DescriptorInv /\ CleanupInv

-----------------------------------------------------------------------------
(* One turn of the loop of copyBounded, without its bound variables: it    *)
(* writes all it has read, or it gives up.                                 *)

CopyWrites ==
  /\ at = "read" /\ UNCHANGED <<canceled, fdVars, fsVars, source>>
  /\ read' \in Nat /\ read' <= source /\ read' <= Limit
  /\ written' = read' /\ remaining' \in 0 .. Limit /\ written' + remaining' = Limit
  /\ empty' \in 0 .. MaxEmpty
  /\ \/ at' = "close_output" /\ read' = source /\ err' = err
     \/ at' = "read" /\ err' = err /\ empty' < MaxEmpty
     \/ at' = "abort_output" /\ err' = TRUE

CopyGivesUp ==
  /\ at = "read" /\ UNCHANGED <<canceled, fdVars, fsVars, source, remaining, empty>>
  /\ read' \in Nat /\ read' <= source /\ read' <= Limit + 1
  /\ written' \in Nat /\ written' <= Limit
  /\ at' = "abort_output" /\ err' = TRUE

\* readSize asks for at most one byte more than may still be written.
LEMMA ReadSizes ==
  ASSUME CopyTypeOK
  PROVE  readSize \in Nat /\ readSize <= remaining + 1
BY TransactionAssumption DEF TransactionAssumption, CopyTypeOK, readSize

\* Those are the outcomes of a turn: the end of the source is seen only where
\* it is, a read of nothing is counted, and the limit is passed by one byte at
\* most, which is not written.
LEMMA CopyCases ==
  ASSUME TransactionInv, copyBounded
  PROVE  CopyWrites \/ CopyGivesUp
<1> USE TransactionAssumption DEF TransactionAssumption
<1>1. /\ at = "read" /\ read = written /\ written + remaining = Limit /\ empty < MaxEmpty
      /\ remaining \in Nat /\ read \in Nat /\ source \in Nat /\ empty \in Nat
      /\ written \in Nat /\ read <= source /\ err \in BOOLEAN
  BY DEF TransactionInv, CopyInv, CopyTypeOK, copyBounded, Turn
<1>2. readSize \in Nat /\ readSize <= remaining + 1
  BY ReadSizes DEF TransactionInv
<1>3. \A n \in Chunks : n \in Nat /\ n <= readSize /\ read + n <= source
  BY <1>1, <1>2 DEF Chunks
<1>4. UNCHANGED <<canceled, fdVars, fsVars, source>>
  BY DEF copyBounded, Turn
<1>5. CASE copyFails
  <2> PICK n \in Chunks :
         read' = read + n /\ \E w \in 0 .. n : w <= remaining /\ written' = written + w
    BY <1>5 DEF copyFails
  <2>1. PICK w \in 0 .. n : read' = read + n /\ w <= remaining /\ written' = written + w
    OBVIOUS
  <2>2. n \in Nat /\ n <= remaining + 1 /\ read + n <= source /\ w \in Nat
    BY <1>1, <1>2, <1>3, <2>1
  <2>3. read' \in Nat /\ read' <= source /\ read' <= Limit + 1
    BY <1>1, <2>1, <2>2
  <2>4. written' \in Nat /\ written' <= Limit
    BY <1>1, <2>1, <2>2
  <2>5. at' = "abort_output" /\ err' = TRUE /\ UNCHANGED <<remaining, empty>>
    BY <1>5 DEF copyFails, Leave
  <2>6. QED
    BY <1>1, <1>4, <2>3, <2>4, <2>5 DEF CopyGivesUp
<1>6. CASE \E n \in Chunks : n <= remaining /\ \E end \in Ends[n] : copyChunk(n, end, empty + 1)
  <2>1. PICK n \in Chunks : n <= remaining /\ \E end \in Ends[n] : copyChunk(n, end, empty + 1)
    BY <1>6
  <2>2. PICK end \in Ends[n] : copyChunk(n, end, empty + 1)
    BY <2>1
  <2>3. n \in Nat /\ n <= remaining /\ read + n <= source
    BY <1>3, <2>1
  <2>4. end \in BOOLEAN /\ (end => read + n = source)
    <3>1. n \in 0 .. Limit + Buffer
      BY <1>1, <2>3
    <3>2. QED
      BY <2>2, <3>1 DEF Ends
  <2>5. read' = read + n /\ written' = written + n /\ remaining' = remaining - n
    BY <2>2 DEF copyChunk
  <2>6. empty' \in 0 .. MaxEmpty
    <3>1. empty' = 0 \/ empty' = empty + 1
      BY <2>2 DEF copyChunk
    <3>2. QED
      BY <1>1, <3>1
  <2>7. \/ at' = "close_output" /\ end /\ err' = err
        \/ at' = "abort_output" /\ err' = TRUE
        \/ at' = "read" /\ err' = err /\ ~(empty' >= MaxEmpty)
    BY <1>1, <2>2, <2>4 DEF copyChunk, Go, Leave
  <2>8. at' = "close_output" => read' = source
    BY <2>4, <2>5, <2>7
  <2>9. at' = "read" => empty' < MaxEmpty
    BY <2>6, <2>7
  <2>10. /\ read' \in Nat /\ read' <= source /\ read' <= Limit
         /\ written' = read' /\ remaining' \in 0 .. Limit /\ written' + remaining' = Limit
    BY <1>1, <2>3, <2>5
  <2>11. QED
    BY <1>1, <1>4, <2>6, <2>7, <2>8, <2>9, <2>10 DEF CopyWrites
<1>7. QED
  BY <1>5, <1>6 DEF copyBounded, Turn

-----------------------------------------------------------------------------
\* Every call, crash and step of another process keeps the variables in their
\* types.
LEMMA CopyTypeStep == TransactionInv /\ [CopyNext]_copyState => CopyTypeOK'
<1> SUFFICES ASSUME TransactionInv, [CopyNext]_copyState PROVE CopyTypeOK'
  OBVIOUS
<1> USE TransactionAssumption DEF TransactionAssumption, TransactionInv, CopyTypeOK, CopyInv, DescriptorInv,
        Calls, copyState, fdVars, fsVars, copyVars
<1>1. CASE enter
  BY <1>1 DEF enter, Go, Leave
<1>2. CASE openChain
  <2>1. held' = held \/ (held' = held + 1 /\ held < Depth) \/ (held' = held - 1 /\ held > 0)
    BY <1>2 DEF openChain
  <2>2. held' \in 0 .. Depth
    BY <2>1
  <2>3. err' \in BOOLEAN /\ at' \in Calls
    BY <1>2 DEF openChain, Go, Leave
  <2>4. QED
    BY <1>2, <2>2, <2>3 DEF openChain
<1>3. CASE closeChain
  <2>1. held' = held \/ (held' = held + 1 /\ held < Depth) \/ (held' = held - 1 /\ held > 0)
    BY <1>3 DEF closeChain
  <2>2. held' \in 0 .. Depth
    BY <2>1
  <2>3. err' \in BOOLEAN /\ at' \in Calls
    BY <1>3 DEF closeChain, Go, Leave
  <2>4. QED
    BY <1>3, <2>2, <2>3 DEF closeChain
<1>4. CASE statDestination
  BY <1>4 DEF statDestination, Go, Leave
<1>5. CASE mkdirStage
  BY <1>5 DEF mkdirStage, Go, Leave
<1>6. CASE statStage
  BY <1>6 DEF statStage, Go, Leave
<1>7. CASE openStage
  BY <1>7 DEF openStage, Go, Leave
<1>8. CASE refuseSubstitute
  BY <1>8 DEF refuseSubstitute, Leave
<1>9. CASE createOutput
  BY <1>9 DEF createOutput, Go, Leave
<1>10. CASE copyBounded
  <2>1. CASE CopyWrites
    <3>1. read' \in 0 .. MaxSource /\ written' \in 0 .. Limit /\ remaining' \in 0 .. Limit
      BY <2>1 DEF CopyWrites
    <3>2. empty' \in 0 .. MaxEmpty
      BY <2>1 DEF CopyWrites
    <3>3. err' \in BOOLEAN /\ at' \in Calls
      BY <2>1 DEF CopyWrites
    <3>4. QED
      BY <2>1, <3>1, <3>2, <3>3 DEF CopyWrites
  <2>2. CASE CopyGivesUp
    <3>1. read' \in 0 .. MaxSource /\ written' \in 0 .. Limit
      BY <2>2 DEF CopyGivesUp
    <3>2. err' \in BOOLEAN /\ at' \in Calls
      BY <2>2 DEF CopyGivesUp
    <3>3. QED
      BY <2>2, <3>1, <3>2 DEF CopyGivesUp
  <2>3. QED
    BY <1>10, <2>1, <2>2, CopyCases
<1>11. CASE closeOutput
  BY <1>11 DEF closeOutput, Go, Leave
<1>12. CASE publish
  BY <1>12 DEF publish, Link, Go, Leave
<1>13. CASE abortOutput
  BY <1>13 DEF abortOutput, Leave
<1>14. CASE unlinkOutput
  BY <1>14 DEF unlinkOutput, Go, Leave
<1>15. CASE closeStage
  BY <1>15 DEF closeStage, CloseStage, Leave
<1>16. CASE checkStage
  BY <1>16 DEF checkStage, Go, Leave
<1>17. CASE rmdirStage
  BY <1>17 DEF rmdirStage, Go, Leave
<1>18. CASE Cancel
  BY <1>18 DEF Cancel
<1>19. CASE UseDestination
  BY <1>19 DEF UseDestination
<1>20. CASE SubstituteStage
  BY <1>20 DEF SubstituteStage
<1>21. CASE Crash
  <2>1. at' \in Calls /\ held' \in 0 .. Depth
    BY <1>21 DEF Crash
  <2>2. dirFd' \in BOOLEAN /\ fileFd' \in BOOLEAN
    BY <1>21 DEF Crash
  <2>3. QED
    BY <1>21, <2>1, <2>2 DEF Crash
<1>22. CASE UNCHANGED copyState
  BY <1>22
<1>23. QED
  BY <1>1, <1>2, <1>3, <1>4, <1>5, <1>6, <1>7, <1>8, <1>9, <1>10, <1>11,
     <1>12, <1>13, <1>14, <1>15, <1>16, <1>17, <1>18, <1>19, <1>20, <1>21,
     <1>22
  DEF CopyNext, Step, Done

\* Every step keeps the arithmetic of the copy.
LEMMA CopyStep == TransactionInv /\ [CopyNext]_copyState => CopyInv'
<1> SUFFICES ASSUME TransactionInv, [CopyNext]_copyState PROVE CopyInv'
  OBVIOUS
<1> USE TransactionAssumption DEF TransactionAssumption, TransactionInv, CopyTypeOK, CopyInv, Calls, copyState,
        fdVars, fsVars, copyVars
<1>1. CASE enter
  BY <1>1 DEF enter, Go, Leave
<1>2. CASE openChain
  BY <1>2 DEF openChain, Go, Leave
<1>3. CASE closeChain
  BY <1>3 DEF closeChain, Go, Leave
<1>4. CASE statDestination
  BY <1>4 DEF statDestination, Go, Leave
<1>5. CASE mkdirStage
  BY <1>5 DEF mkdirStage, Go, Leave
<1>6. CASE statStage
  BY <1>6 DEF statStage, Go, Leave
<1>7. CASE openStage
  BY <1>7 DEF openStage, Go, Leave
<1>8. CASE refuseSubstitute
  BY <1>8 DEF refuseSubstitute, Leave
<1>9. CASE createOutput
  BY <1>9 DEF createOutput, Go, Leave
<1>10. CASE copyBounded
  <2>1. CASE CopyWrites
    <3>1. written' <= Limit /\ read' <= Limit + 1 /\ read' <= source'
      BY <2>1 DEF CopyWrites
    <3>2. at' = "read" => /\ read' = written' /\ written' + remaining' = Limit
                         /\ empty' < MaxEmpty
      BY <2>1 DEF CopyWrites
    <3>3. at' \in {"read", "close_output", "abort_output"} /\ (at' = "close_output" => written' = source')
      BY <2>1 DEF CopyWrites
    <3>4. dest' = "ours" => published' = source' /\ published' <= Limit
      BY <2>1 DEF CopyWrites
    <3>5. QED
      BY <3>1, <3>2, <3>3, <3>4
  <2>2. CASE CopyGivesUp
    BY <2>2 DEF CopyGivesUp
  <2>3. QED
    BY <1>10, <2>1, <2>2, CopyCases
<1>11. CASE closeOutput
  BY <1>11 DEF closeOutput, Go, Leave
<1>12. CASE publish
  BY <1>12 DEF publish, Link, Go, Leave
<1>13. CASE abortOutput
  BY <1>13 DEF abortOutput, Leave
<1>14. CASE unlinkOutput
  BY <1>14 DEF unlinkOutput, Go, Leave
<1>15. CASE closeStage
  BY <1>15 DEF closeStage, CloseStage, Leave
<1>16. CASE checkStage
  BY <1>16 DEF checkStage, Go, Leave
<1>17. CASE rmdirStage
  BY <1>17 DEF rmdirStage, Go, Leave
<1>18. CASE Cancel
  BY <1>18 DEF Cancel
<1>19. CASE UseDestination
  BY <1>19 DEF UseDestination
<1>20. CASE SubstituteStage
  BY <1>20 DEF SubstituteStage
<1>21. CASE Crash
  BY <1>21 DEF Crash
<1>22. CASE UNCHANGED copyState
  BY <1>22
<1>23. QED
  BY <1>1, <1>2, <1>3, <1>4, <1>5, <1>6, <1>7, <1>8, <1>9, <1>10, <1>11,
     <1>12, <1>13, <1>14, <1>15, <1>16, <1>17, <1>18, <1>19, <1>20, <1>21,
     <1>22
  DEF CopyNext, Step, Done

\* Every step keeps the descriptors with the calls that use them.
LEMMA DescriptorStep == TransactionInv /\ [CopyNext]_copyState => DescriptorInv'
<1> SUFFICES ASSUME TransactionInv, [CopyNext]_copyState PROVE DescriptorInv'
  OBVIOUS
<1> USE TransactionAssumption DEF TransactionAssumption, TransactionInv, CopyTypeOK, DescriptorInv, Calls, copyState,
        fdVars, fsVars, copyVars
<1>1. CASE enter
  BY <1>1 DEF enter, Go, Leave
<1>2. CASE openChain
  BY <1>2 DEF openChain, Go, Leave
<1>3. CASE closeChain
  BY <1>3 DEF closeChain, Go, Leave
<1>4. CASE statDestination
  BY <1>4 DEF statDestination, Go, Leave
<1>5. CASE mkdirStage
  BY <1>5 DEF mkdirStage, Go, Leave
<1>6. CASE statStage
  BY <1>6 DEF statStage, Go, Leave
<1>7. CASE openStage
  BY <1>7 DEF openStage, Go, Leave
<1>8. CASE refuseSubstitute
  BY <1>8 DEF refuseSubstitute, Leave
<1>9. CASE createOutput
  BY <1>9 DEF createOutput, Go, Leave
<1>10. CASE copyBounded
  <2>1. CASE CopyWrites
    BY <2>1 DEF CopyWrites
  <2>2. CASE CopyGivesUp
    BY <2>2 DEF CopyGivesUp
  <2>3. QED
    BY <1>10, <2>1, <2>2, CopyCases
<1>11. CASE closeOutput
  BY <1>11 DEF closeOutput, Go, Leave
<1>12. CASE publish
  BY <1>12 DEF publish, Link, Go, Leave
<1>13. CASE abortOutput
  BY <1>13 DEF abortOutput, Leave
<1>14. CASE unlinkOutput
  BY <1>14 DEF unlinkOutput, Go, Leave
<1>15. CASE closeStage
  BY <1>15 DEF closeStage, CloseStage, Leave
<1>16. CASE checkStage
  BY <1>16 DEF checkStage, Go, Leave
<1>17. CASE rmdirStage
  BY <1>17 DEF rmdirStage, Go, Leave
<1>18. CASE Cancel
  BY <1>18 DEF Cancel
<1>19. CASE UseDestination
  BY <1>19 DEF UseDestination
<1>20. CASE SubstituteStage
  BY <1>20 DEF SubstituteStage
<1>21. CASE Crash
  BY <1>21 DEF Crash
<1>22. CASE UNCHANGED copyState
  BY <1>22
<1>23. QED
  BY <1>1, <1>2, <1>3, <1>4, <1>5, <1>6, <1>7, <1>8, <1>9, <1>10, <1>11,
     <1>12, <1>13, <1>14, <1>15, <1>16, <1>17, <1>18, <1>19, <1>20, <1>21,
     <1>22
  DEF CopyNext, Step, Done

\* Every step keeps the promise of a return without an error.
LEMMA CleanupStep == TransactionInv /\ [CopyNext]_copyState => CleanupInv'
<1> SUFFICES ASSUME TransactionInv, [CopyNext]_copyState PROVE CleanupInv'
  OBVIOUS
<1> USE TransactionAssumption DEF TransactionAssumption, TransactionInv, CopyTypeOK, CleanupInv, Calls, copyState,
        fdVars, fsVars, copyVars
<1>1. CASE enter
  BY <1>1 DEF enter, Go, Leave
<1>2. CASE openChain
  BY <1>2 DEF openChain, Go, Leave
<1>3. CASE closeChain
  BY <1>3 DEF closeChain, Go, Leave
<1>4. CASE statDestination
  BY <1>4 DEF statDestination, Go, Leave
<1>5. CASE mkdirStage
  BY <1>5 DEF mkdirStage, Go, Leave
<1>6. CASE statStage
  BY <1>6 DEF statStage, Go, Leave
<1>7. CASE openStage
  BY <1>7 DEF openStage, Go, Leave
<1>8. CASE refuseSubstitute
  BY <1>8 DEF refuseSubstitute, Leave
<1>9. CASE createOutput
  BY <1>9 DEF createOutput, Go, Leave
<1>10. CASE copyBounded
  <2>1. CASE CopyWrites
    BY <2>1 DEF CopyWrites
  <2>2. CASE CopyGivesUp
    BY <2>2 DEF CopyGivesUp
  <2>3. QED
    BY <1>10, <2>1, <2>2, CopyCases
<1>11. CASE closeOutput
  BY <1>11 DEF closeOutput, Go, Leave
<1>12. CASE publish
  BY <1>12 DEF publish, Link, Go, Leave
<1>13. CASE abortOutput
  BY <1>13 DEF abortOutput, Leave
<1>14. CASE unlinkOutput
  BY <1>14 DEF unlinkOutput, Go, Leave
<1>15. CASE closeStage
  BY <1>15 DEF closeStage, CloseStage, Leave
<1>16. CASE checkStage
  BY <1>16 DEF checkStage, Go, Leave
<1>17. CASE rmdirStage
  BY <1>17 DEF rmdirStage, Go, Leave
<1>18. CASE Cancel
  BY <1>18 DEF Cancel
<1>19. CASE UseDestination
  BY <1>19 DEF UseDestination
<1>20. CASE SubstituteStage
  BY <1>20 DEF SubstituteStage
<1>21. CASE Crash
  BY <1>21 DEF Crash
<1>22. CASE UNCHANGED copyState
  BY <1>22
<1>23. QED
  BY <1>1, <1>2, <1>3, <1>4, <1>5, <1>6, <1>7, <1>8, <1>9, <1>10, <1>11,
     <1>12, <1>13, <1>14, <1>15, <1>16, <1>17, <1>18, <1>19, <1>20, <1>21,
     <1>22
  DEF CopyNext, Step, Done

\* The invariant holds before the first call.
LEMMA CopyInitInv == CopyInit => TransactionInv
<1> SUFFICES ASSUME CopyInit PROVE TransactionInv
  OBVIOUS
<1> USE TransactionAssumption DEF TransactionAssumption, CopyInit
<1>1. CopyTypeOK
  <2>1. at \in Calls /\ err \in BOOLEAN /\ canceled \in BOOLEAN
    BY DEF Calls
  <2>2. held \in 0 .. Depth /\ remaining \in 0 .. Limit /\ read \in 0 .. MaxSource
    OBVIOUS
  <2>3. empty \in 0 .. MaxEmpty /\ written \in 0 .. Limit /\ published \in 0 .. Limit
    OBVIOUS
  <2>4. dirFd \in BOOLEAN /\ fileFd \in BOOLEAN
    OBVIOUS
  <2>5. QED
    BY <2>1, <2>2, <2>3, <2>4 DEF CopyTypeOK
<1>2. CopyInv
  BY DEF CopyInv
<1>3. DescriptorInv /\ CleanupInv
  BY DEF DescriptorInv, CleanupInv
<1>4. QED
  BY <1>1, <1>2, <1>3 DEF TransactionInv

\* The invariant of the transaction.
THEOREM TransactionInvariant == CopySpec => []TransactionInv
<1>1. TransactionInv /\ [CopyNext]_copyState => TransactionInv'
  BY CopyTypeStep, CopyStep, DescriptorStep, CleanupStep DEF TransactionInv
<1>2. QED
  BY <1>1, CopyInitInv, PTL DEF CopySpec

\* Every variable keeps its type, in particular every counter its bound.
THEOREM TransactionTypes == CopySpec => []CopyTypeOK
<1>1. TransactionInv => CopyTypeOK
  BY DEF TransactionInv
<1>2. QED
  BY <1>1, TransactionInvariant, PTL

\* NeverPartial: what is visible at the destination is the whole source within
\* the limit, at every moment and after a crash; copyBounded never writes past
\* the limit and reads one byte past it at most.
THEOREM PublishedIsWhole == CopySpec => []NeverPartial
<1>1. TransactionInv => NeverPartial
  BY DEF TransactionInv, CopyInv, NeverPartial
<1>2. QED
  BY <1>1, TransactionInvariant, PTL

\* ReturnIsClean: nil means published with nothing left behind, and no
\* descriptor survives the return or the process.
THEOREM ReturnsAreClean == CopySpec => []ReturnIsClean
<1>1. TransactionInv => ReturnIsClean
  BY DEF TransactionInv, CopyTypeOK, DescriptorInv, CleanupInv, ReturnIsClean, Running
<1>2. QED
  BY <1>1, TransactionInvariant, PTL

\* NeverReplaces: no step turns a file of another process at the destination
\* into the published one; linkat refuses a name in use.
THEOREM NothingIsReplaced == CopySpec => NeverReplaces
<1>1. [CopyNext]_copyState => [dest = "theirs" => dest' # "ours"]_copyState
  <2> SUFFICES ASSUME [CopyNext]_copyState, dest = "theirs", dest' # dest PROVE dest' # "ours"
    BY DEF copyState, fsVars
  <2>1. CASE publish
    BY <2>1 DEF publish, Link
  <2>2. CASE UseDestination
    BY <2>2 DEF UseDestination
  <2>3. CASE ~publish /\ ~UseDestination
    BY <2>3
    DEF CopyNext, Step, Done, copyState, fsVars, fdVars, enter, openChain, closeChain, statDestination,
        mkdirStage, statStage, openStage, refuseSubstitute, createOutput, copyBounded,
        Turn, closeOutput, abortOutput, unlinkOutput, closeStage, CloseStage, checkStage,
        rmdirStage, Cancel, SubstituteStage, Crash
  <2>4. QED
    BY <2>1, <2>2, <2>3
<1>2. QED
  BY <1>1, PTL DEF CopySpec, NeverReplaces
=============================================================================
