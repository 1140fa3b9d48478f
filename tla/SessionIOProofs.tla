--------------------------- MODULE SessionIOProofs ---------------------------
(***************************************************************************)
(* The budget, the deadline and the watcher of SessionIO, for every set of *)
(* input limits and every size of a Read, larger than a limit or not.      *)
(***************************************************************************)
EXTENDS SessionIO, TLAPS

\* The budget in force is what its limit leaves after the bytes delivered.  It
\* covers the Read in flight, unless that one was in flight when the limit
\* changed: then nothing was delivered since, and it is the only one that can
\* take the bytes read past the limit.
BudgetInv ==
  /\ used + remaining = limit
  /\ asked = 0 \/ asked <= remaining \/ (asked = carried /\ used = 0)
  /\ used <= limit \/ used <= carried
  /\ reader = "panicked" => remaining < 0

\* The watcher is only ever alive between closeOnContext and stopWatcher.
WatcherInv == pc \in {"idle", "watch", "clear"} => watcher # "watching"

\* The inductive invariant.
Inv == TypeOK /\ BudgetInv /\ WatcherInv /\ DeadlineIsTheOperations

\* A session just wrapped around its transport (newReadBudgetConn) satisfies
\* the invariant.
LEMMA InitInv == Init => Inv
<1> SUFFICES ASSUME Init PROVE Inv
    OBVIOUS
<1> USE SessionIOAssumption DEF Init
<1>1. TypeOK
  <2>1. stop \in BOOLEAN /\ clamp \in BOOLEAN /\ exceeded \in BOOLEAN
        OBVIOUS
  <2> QED BY <2>1 DEF TypeOK, Codes
<1>2. BudgetInv  BY DEF BudgetInv
<1>3. WatcherInv  BY DEF WatcherInv
<1>4. DeadlineIsTheOperations  BY DEF DeadlineIsTheOperations
<1> QED BY <1>1, <1>2, <1>3, <1>4 DEF Inv

\* What the constants say of a limit in force.
LEMMA LimitsCover ==
  ASSUME NEW l \in Limits \cup {Idle}
  PROVE  l \in Nat
  BY SessionIOAssumption

\* A Read asks for at least a byte and for no more than remains.
LEMMA CutRange ==
  ASSUME NEW n \in Requests, remaining \in Int, remaining > 0
  PROVE  Cut(n) \in Nat /\ Cut(n) <= remaining
  BY SessionIOAssumption DEF Cut

\* Whoever reads, asking for the next bytes keeps the variables in their types.
LEMMA ReadOfTypes ==
  ASSUME TypeOK, NEW n \in Requests, NEW who \in {"waiting", "literal"},
         ReadOf(Cut(n), who)
  PROVE  TypeOK'
<1>1. asked' \in Nat
  <2>1. CASE remaining > 0
    <3>1. asked' = Cut(n)
          BY <2>1 DEF ReadOf, TypeOK
    <3> QED BY <2>1, <3>1, CutRange DEF TypeOK
  <2>2. CASE ~(remaining > 0)
    <3> QED BY <2>2 DEF ReadOf, TypeOK
  <2> QED BY <2>1, <2>2
<1>2. exceeded' \in BOOLEAN
      BY DEF ReadOf, TypeOK
<1>3. reader' \in {"ready", "waiting", "literal", "dead", "panicked"}
      BY DEF ReadOf
<1> QED BY <1>1, <1>2, <1>3 DEF ReadOf, TypeOK, callVars, watchVars, deadlineVars, Codes

\* Every step of the caller, the reader, go-imap and the watcher keeps the
\* variables in their types.
LEMMA TypeStep == Inv /\ [Next]_vars => TypeOK'
<1> SUFFICES ASSUME Inv, [Next]_vars PROVE TypeOK'
    OBVIOUS
<1> USE DEF Inv, TypeOK, Codes, callVars, watchVars, deadlineVars, budgetVars, readVars
<1>1. CASE setLimit  BY <1>1 DEF setLimit
<1>2. CASE closeOnContext  BY <1>2 DEF closeOnContext
<1>3. CASE begin
  <2>1. PICK l \in Limits : Rebudget(l)
        BY <1>3 DEF begin
  <2>2. l \in Nat
        BY LimitsCover
  <2>3. remaining' \in Int /\ limit' \in Limits \cup {Idle} /\ used' \in Nat
        BY <2>1, <2>2 DEF Rebudget
  <2>4. exceeded' \in BOOLEAN /\ carried' \in Nat
        BY <2>1 DEF Rebudget
  <2> QED BY <1>3, <2>3, <2>4 DEF begin
<1>4. CASE OperationOk
  <2>1. Idle \in Nat
        BY LimitsCover
  <2>2. remaining' \in Int /\ limit' \in Limits \cup {Idle} /\ used' \in Nat
        BY <1>4, <2>1 DEF OperationOk, end, Rebudget
  <2>3. exceeded' \in BOOLEAN /\ carried' \in Nat
        BY <1>4 DEF OperationOk, end, Rebudget
  <2> QED BY <1>4, <2>2, <2>3 DEF OperationOk, end
<1>5. CASE OperationFails
  <2>1. Idle \in Nat
        BY LimitsCover
  <2>2. remaining' \in Int /\ limit' \in Limits \cup {Idle} /\ used' \in Nat
        BY <1>5, <2>1 DEF OperationFails, end, Rebudget
  <2>3. exceeded' \in BOOLEAN /\ carried' \in Nat
        BY <1>5 DEF OperationFails, end, Rebudget
  <2> QED BY <1>5, <2>2, <2>3 DEF OperationFails, end
<1>6. CASE stopWatcher
  <2>1. stop' \in BOOLEAN
        BY <1>6 DEF stopWatcher
  <2>2. pc' \in {"stop", "clear"}
        BY <1>6 DEF stopWatcher
  <2> QED BY <1>6, <2>1, <2>2 DEF stopWatcher
<1>7. CASE clearLimit  BY <1>7 DEF clearLimit
<1>8. CASE Watch  BY <1>8 DEF Watch
<1>9. CASE setDeadline  BY <1>9 DEF setDeadline, SetDeadline
<1>10. CASE ReadAsks
  <2>1. PICK n \in Requests : ReadOf(Cut(n), "waiting")
        BY <1>10 DEF ReadAsks
  <2> QED BY <2>1, ReadOfTypes
<1>11. CASE LiteralAsks
  <2>1. PICK n \in Requests : ReadOf(Cut(n), "literal")
        BY <1>11 DEF LiteralAsks
  <2> QED BY <2>1, ReadOfTypes
<1>12. CASE ReadDelivers
  <2>1. PICK n \in 1 .. asked : remaining' = remaining - n /\ used' = used + n
        BY <1>12 DEF ReadDelivers
  <2>2. n \in Nat
        OBVIOUS
  <2>3. remaining' \in Int /\ used' \in Nat /\ asked' \in Nat
        BY <1>12, <2>1, <2>2 DEF ReadDelivers
  <2> QED BY <1>12, <2>1, <2>3 DEF ReadDelivers
<1>13. CASE ReadFails  BY <1>13 DEF ReadFails
<1>14. CASE EndContext  BY <1>14 DEF EndContext
<1>15. CASE Lose  BY <1>15 DEF Lose
<1>16. CASE UNCHANGED vars  BY <1>16 DEF vars
<1> QED BY <1>1, <1>2, <1>3, <1>4, <1>5, <1>6, <1>7, <1>8,
           <1>9, <1>10, <1>11, <1>12, <1>13, <1>14, <1>15, <1>16
        DEF Next, Retired

\* Whoever reads, what a Read asks for under the limit in force stays within it,
\* and one that panics found a negative rest.
LEMMA ReadOfBudget ==
  ASSUME TypeOK, BudgetInv, NEW n \in Requests, NEW who \in {"waiting", "literal"},
         ReadOf(Cut(n), who)
  PROVE  BudgetInv'
<1>1. /\ UNCHANGED <<remaining, limit, used, carried>>
      /\ reader = "ready" /\ remaining \in Int
      BY DEF ReadOf, TypeOK
<1>2. CASE remaining > 0
  <2>1. asked' = Cut(n) /\ reader' # "panicked"
        BY <1>2 DEF ReadOf, TypeOK
  <2>2. asked' <= remaining
        BY <1>1, <1>2, <2>1, CutRange
  <2> QED BY <1>1, <2>1, <2>2 DEF BudgetInv
<1>3. CASE ~(remaining > 0)
  <2>1. asked' = asked /\ (reader' = "panicked" => remaining < 0)
        BY <1>3 DEF ReadOf, TypeOK
  <2> QED BY <1>1, <2>1 DEF BudgetInv
<1> QED BY <1>2, <1>3

\* Changing the limit starts the count again and marks the Read in flight.
LEMMA RebudgetBudget ==
  ASSUME TypeOK, NEW l \in Limits \cup {Idle}, Rebudget(l), UNCHANGED readVars
  PROVE  BudgetInv'
<1>1. l \in Nat
      BY LimitsCover
<1>2. remaining' = l /\ limit' = l /\ used' = 0 /\ carried' = asked
      BY DEF Rebudget
<1>3. reader' # "panicked" /\ asked' = asked
      BY DEF Rebudget, readVars
<1>4. used' + remaining' = limit' /\ used' <= limit'
      BY <1>1, <1>2
<1> QED BY <1>2, <1>3, <1>4 DEF BudgetInv

\* The bytes delivered and the bytes left always make up the limit in force.
\* A Read outlives the operation it was asked in: begin and end may change the
\* limit under it, to less than it asked for.
LEMMA BudgetStep == Inv /\ [Next]_vars => BudgetInv'
<1> SUFFICES ASSUME Inv, [Next]_vars PROVE BudgetInv'
    OBVIOUS
<1> TypeOK /\ BudgetInv
    BY DEF Inv
<1> USE DEF callVars, watchVars, deadlineVars, budgetVars, readVars
<1>1. CASE setLimit  BY <1>1 DEF setLimit, BudgetInv
<1>2. CASE closeOnContext  BY <1>2 DEF closeOnContext, BudgetInv
<1>3. CASE begin
  <2>1. PICK l \in Limits : Rebudget(l)
        BY <1>3 DEF begin
  <2>2. UNCHANGED readVars
        BY <1>3 DEF begin
  <2> QED BY <2>1, <2>2, RebudgetBudget
<1>4. CASE OperationOk
  <2>1. Rebudget(Idle) /\ UNCHANGED readVars
        BY <1>4 DEF OperationOk, end
  <2> QED BY <2>1, RebudgetBudget
<1>5. CASE OperationFails
  <2>1. Rebudget(Idle) /\ UNCHANGED readVars
        BY <1>5 DEF OperationFails, end
  <2> QED BY <2>1, RebudgetBudget
<1>6. CASE stopWatcher  BY <1>6 DEF stopWatcher, BudgetInv
<1>7. CASE clearLimit  BY <1>7 DEF clearLimit, BudgetInv
<1>8. CASE Watch  BY <1>8 DEF Watch, BudgetInv
<1>9. CASE setDeadline  BY <1>9 DEF setDeadline, SetDeadline, BudgetInv
<1>10. CASE ReadAsks
  <2>1. PICK n \in Requests : ReadOf(Cut(n), "waiting")
        BY <1>10 DEF ReadAsks
  <2> QED BY <2>1, ReadOfBudget
<1>11. CASE LiteralAsks
  <2>1. PICK n \in Requests : ReadOf(Cut(n), "literal")
        BY <1>11 DEF LiteralAsks
  <2> QED BY <2>1, ReadOfBudget
<1>12. CASE ReadDelivers
  <2>1. PICK n \in 1 .. asked : remaining' = remaining - n /\ used' = used + n
        BY <1>12 DEF ReadDelivers
  <2>2. n \in Nat /\ n <= asked /\ asked > 0
        BY DEF TypeOK
  <2>3. remaining \in Int /\ used \in Nat /\ asked \in Nat /\ carried \in Nat
        BY DEF TypeOK
  <2>4. limit \in Nat
        BY LimitsCover DEF TypeOK
  <2>5. asked' = 0 /\ reader' = "ready" /\ UNCHANGED <<limit, carried>>
        BY <1>12 DEF ReadDelivers
  <2>6. used' + remaining' = limit'
        BY <2>1, <2>2, <2>3, <2>4, <2>5 DEF BudgetInv
  <2>7. used' <= limit' \/ used' <= carried'
        BY <2>1, <2>2, <2>3, <2>4, <2>5 DEF BudgetInv
  <2> QED BY <2>5, <2>6, <2>7 DEF BudgetInv
<1>13. CASE ReadFails  BY <1>13 DEF ReadFails, BudgetInv
<1>14. CASE EndContext  BY <1>14 DEF EndContext, BudgetInv
<1>15. CASE Lose  BY <1>15 DEF Lose, BudgetInv
<1>16. CASE UNCHANGED vars  BY <1>16 DEF vars, BudgetInv
<1> QED BY <1>1, <1>2, <1>3, <1>4, <1>5, <1>6, <1>7, <1>8,
           <1>9, <1>10, <1>11, <1>12, <1>13, <1>14, <1>15, <1>16
        DEF Next, Retired

\* No watcher is left behind: stopWatcher waits for it before the deadline is
\* cleared and the operation returns.
LEMMA WatcherStep == Inv /\ [Next]_vars => WatcherInv'
<1> SUFFICES ASSUME Inv, [Next]_vars PROVE WatcherInv'
    OBVIOUS
<1> USE DEF Inv, WatcherInv, callVars, watchVars
<1>1. CASE setLimit  BY <1>1 DEF setLimit
<1>2. CASE closeOnContext  BY <1>2 DEF closeOnContext
<1>3. CASE begin  BY <1>3 DEF begin
<1>4. CASE OperationOk  BY <1>4 DEF OperationOk, end
<1>5. CASE OperationFails  BY <1>5 DEF OperationFails, end
<1>6. CASE stopWatcher  BY <1>6 DEF stopWatcher
<1>7. CASE clearLimit  BY <1>7 DEF clearLimit
<1>8. CASE Watch  BY <1>8 DEF Watch
<1>9. CASE setDeadline  BY <1>9 DEF setDeadline, SetDeadline
<1>10. CASE ReadAsks  BY <1>10 DEF ReadAsks, ReadOf
<1>11. CASE LiteralAsks  BY <1>11 DEF LiteralAsks, ReadOf
<1>12. CASE ReadDelivers  BY <1>12 DEF ReadDelivers
<1>13. CASE ReadFails  BY <1>13 DEF ReadFails
<1>14. CASE EndContext  BY <1>14 DEF EndContext
<1>15. CASE Lose  BY <1>15 DEF Lose
<1>16. CASE UNCHANGED vars  BY <1>16 DEF vars
<1> QED BY <1>1, <1>2, <1>3, <1>4, <1>5, <1>6, <1>7, <1>8,
           <1>9, <1>10, <1>11, <1>12, <1>13, <1>14, <1>15, <1>16
        DEF Next, Retired

\* go-imap's own deadlines are clamped exactly while an operation runs.
LEMMA DeadlineStep == Inv /\ [Next]_vars => DeadlineIsTheOperations'
<1> SUFFICES ASSUME Inv, [Next]_vars PROVE DeadlineIsTheOperations'
    OBVIOUS
<1> USE DEF Inv, TypeOK, DeadlineIsTheOperations, deadlineVars
<1>1. CASE setLimit  BY <1>1 DEF setLimit
<1>2. CASE closeOnContext  BY <1>2 DEF closeOnContext
<1>3. CASE begin  BY <1>3 DEF begin
<1>4. CASE OperationOk  BY <1>4 DEF OperationOk, end
<1>5. CASE OperationFails  BY <1>5 DEF OperationFails, end
<1>6. CASE stopWatcher  BY <1>6 DEF stopWatcher
<1>7. CASE clearLimit  BY <1>7 DEF clearLimit
<1>8. CASE Watch  BY <1>8 DEF Watch
<1>9. CASE setDeadline  BY <1>9 DEF setDeadline, SetDeadline
<1>10. CASE ReadAsks  BY <1>10 DEF ReadAsks, ReadOf
<1>11. CASE LiteralAsks  BY <1>11 DEF LiteralAsks, ReadOf
<1>12. CASE ReadDelivers  BY <1>12 DEF ReadDelivers
<1>13. CASE ReadFails  BY <1>13 DEF ReadFails
<1>14. CASE EndContext  BY <1>14 DEF EndContext
<1>15. CASE Lose  BY <1>15 DEF Lose
<1>16. CASE UNCHANGED vars  BY <1>16 DEF vars
<1> QED BY <1>1, <1>2, <1>3, <1>4, <1>5, <1>6, <1>7, <1>8,
           <1>9, <1>10, <1>11, <1>12, <1>13, <1>14, <1>15, <1>16
        DEF Next, Retired

\* Every reachable state satisfies the inductive invariant.
THEOREM SessionInv == Spec => []Inv
<1>1. Inv /\ [Next]_vars => Inv'
  <2> SUFFICES ASSUME Inv, [Next]_vars PROVE Inv'
      OBVIOUS
  <2> QED BY TypeStep, BudgetStep, WatcherStep, DeadlineStep DEF Inv
<1> QED BY InitInv, <1>1, PTL DEF Spec

\* The variables keep their types.
THEOREM SessionTypes == Spec => []TypeOK
<1>1. Inv => TypeOK  BY DEF Inv
<1> QED BY SessionInv, <1>1, PTL

\* Whatever begins and ends while a Read waits, an operation takes more bytes
\* than its limit, and a Read panics on a negative rest, only if a Read asked
\* for before the operation was larger than its limit.
THEOREM InputIsBounded == Spec => []WithinBudget
<1>1. Inv => WithinBudget
  <2> SUFFICES ASSUME Inv PROVE WithinBudget
      OBVIOUS
  <2>1. limit \in Nat /\ used \in Nat /\ carried \in Nat /\ remaining \in Int
        BY LimitsCover DEF Inv, TypeOK
  <2>2. ASSUME remaining < 0 PROVE carried > limit
        BY <2>1, <2>2 DEF Inv, BudgetInv
  <2> QED BY <2>2 DEF Inv, BudgetInv, WithinBudget
<1> QED BY SessionInv, <1>1, PTL

\* The socket's deadline is the operation's while one runs, and not after it.
THEOREM DeadlinesAreClamped == Spec => []DeadlineIsTheOperations
<1>1. Inv => DeadlineIsTheOperations  BY DEF Inv
<1> QED BY SessionInv, <1>1, PTL

\* The watcher of an operation is gone when the operation returns.
THEOREM WatchersAreJoined == Spec => []WatcherIsGone
<1>1. Inv => WatcherIsGone  BY DEF Inv, WatcherInv, WatcherIsGone
<1> QED BY SessionInv, <1>1, PTL
=============================================================================
