------------------------ MODULE StructureSessionProofs ------------------------
(***************************************************************************)
(* What the decoder behind the structure quarantine gets, for all budgets, *)
(* all lines and FETCH bytes a peer may send, cut anywhere.                *)
(*                                                                         *)
(* The scanner is a chain of functions on its record.  Its lemmas follow   *)
(* the chain from refuseLocked up to feedLocked: each says what a function *)
(* does to the books (bytes approved and pending, dispatch, structures).   *)
(* A second chain, for the budgets, says that the frame in progress can    *)
(* still be ended within them.                                             *)
(***************************************************************************)
EXTENDS StructureSession, WellFoundedInduction, SequenceTheorems, TLAPS

ScanStates == {"open", "items", "atom", "quoted", "escape", "literalSize",
               "literalCR", "literalLF", "literal", "endCR", "endLF"}

\* A scanner record, in the fields the books depend on.
IsScanner(q) ==
  /\ DOMAIN q = DOMAIN InitScanner
  /\ q.pending \in Nat /\ q.approved \in Nat /\ q.frame \in Nat /\ q.structures \in Nat
  /\ q.state \in ScanStates /\ q.terminal \in Terminals
  /\ q.dispatch \in {"idle", "active", "delivered"}

\* r differs from q only in its place in the frame, or is refused.
Keeps(q, r) ==
  /\ IsScanner(r)
  /\ r.pending = q.pending /\ r.approved = q.approved
  /\ r.dispatch = q.dispatch /\ r.structures = q.structures

\* What r approved beyond q it also left pending, and a structure it released
\* used up the active dispatch.
Books(q, r) ==
  /\ IsScanner(r)
  /\ r.pending + q.approved = r.approved + q.pending
  /\ \/ r.dispatch = q.dispatch /\ r.structures = q.structures
     \/ q.dispatch = "active" /\ r.dispatch = "delivered" /\ r.structures = q.structures + 1

\* Keeps composes.
LEMMA KeepsKeeps ==
  ASSUME NEW q, NEW r, NEW t, Keeps(q, r), Keeps(r, t)
  PROVE  Keeps(q, t)
BY DEF Keeps

\* Keeping the books is a way of keeping them true.
LEMMA KeepsBooks ==
  ASSUME NEW q, NEW r, IsScanner(q), Keeps(q, r)
  PROVE  Books(q, r)
BY DEF Keeps, Books, IsScanner

\* Books compose: a dispatch is used up once.
LEMMA BooksBooks ==
  ASSUME NEW q, NEW r, NEW t, IsScanner(q), Books(q, r), Books(r, t)
  PROVE  Books(q, t)
<1>1. /\ q.pending \in Nat /\ q.approved \in Nat /\ r.pending \in Nat /\ r.approved \in Nat
      /\ t.pending \in Nat /\ t.approved \in Nat
  BY DEF Books, IsScanner
<1>2. t.pending + q.approved = t.approved + q.pending
  BY <1>1 DEF Books
<1>3. QED
  BY <1>2 DEF Books

\* refuseLocked drops the frame and nothing else.
LEMMA RefuseKeeps ==
  ASSUME NEW q, IsScanner(q), NEW code \in Terminals
  PROVE  Keeps(q, refuseLocked(q, code))
BY DEF Keeps, IsScanner, refuseLocked, InitScanner, ScanStates

\* The categories of the scanner are terminal categories.
LEMMA Categories == Bounds \in Terminals /\ Protocol \in Terminals /\ "none" \in Terminals
BY DEF Terminals

-----------------------------------------------------------------------------
(* The functions that only move within the frame.                          *)

\* A token is charged or refused.
LEMMA TokenKeeps ==
  ASSUME NEW q, IsScanner(q)
  PROVE  Keeps(q, tokenLocked(q))
<1>1. CASE q.tokens = FetchTokens \/ q.work = WorkUnits
  BY <1>1, RefuseKeeps, Categories DEF tokenLocked
<1>2. CASE ~(q.tokens = FetchTokens \/ q.work = WorkUnits)
  BY <1>2 DEF tokenLocked, Keeps, IsScanner, InitScanner
<1>3. QED
  BY <1>1, <1>2

\* A list is opened within the depth, or refused.
LEMMA OpenKeeps ==
  ASSUME NEW q, IsScanner(q)
  PROVE  Keeps(q, openLocked(q))
<1> DEFINE t == tokenLocked(q)
<1>1. Keeps(q, t) /\ IsScanner(t)
  BY TokenKeeps DEF Keeps
<1> HIDE DEF t
<1>2. Keeps(t, [t EXCEPT !.depth = @ + 1, !.previous = "open"])
  BY <1>1 DEF Keeps, IsScanner, InitScanner
<1>3. CASE q.depth = Depth
  BY <1>3, RefuseKeeps, Categories DEF openLocked
<1>4. CASE q.depth # Depth
  BY <1>1, <1>2, <1>4, KeepsKeeps DEF openLocked, t
<1>5. QED
  BY <1>3, <1>4

\* A list is closed; the last one ends the FETCH list.
LEMMA CloseKeeps ==
  ASSUME NEW q, IsScanner(q)
  PROVE  Keeps(q, closeLocked(q))
<1> DEFINE t == tokenLocked(q)
           c == [t EXCEPT !.depth = @ - 1, !.previous = "close"]
<1>1. Keeps(q, t) /\ IsScanner(t)
  BY TokenKeeps DEF Keeps
<1> HIDE DEF t
<1>2. /\ Keeps(t, c)
      /\ Keeps(t, [c EXCEPT !.phase = "done", !.flagsList = FALSE])
      /\ Keeps(t, [c EXCEPT !.state = "endCR"])
  BY <1>1 DEF Keeps, IsScanner, InitScanner, ScanStates
<1>3. closeLocked(q) \in {t, c, [c EXCEPT !.phase = "done", !.flagsList = FALSE],
                          [c EXCEPT !.state = "endCR"]}
  BY DEF closeLocked, t
<1>4. QED
  BY <1>1, <1>2, <1>3, KeepsKeeps

\* An item name is admitted once, or refused.
LEMMA NameKeeps ==
  ASSUME NEW q, IsScanner(q)
  PROVE  Keeps(q, nameLocked(q))
<1>1. \A n, x : Keeps(q, [q EXCEPT !.item = n, !.seen = x, !.phase = "named"])
  BY DEF Keeps, IsScanner, InitScanner
<1>2. QED
  BY <1>1, RefuseKeeps, Categories DEF nameLocked

\* An atom ends: a name, a number, a flag or nothing of interest.
LEMMA EndAtomKeeps ==
  ASSUME NEW q, IsScanner(q)
  PROVE  Keeps(q, endAtomLocked(q))
<1> DEFINE ended == [q EXCEPT !.previous = "token"]
           judged == CASE q.depth = 1 /\ q.phase = "name" -> nameLocked(ended)
                       [] q.depth = 1 /\ q.phase # "name" ->
                            IF quarantineNumber(q.text, FALSE)
                            THEN [ended EXCEPT !.uid = Value(q.text), !.phase = "done"]
                            ELSE refuseLocked(ended, Protocol)
                       [] q.depth # 1 /\ q.flagsList /\ ~quarantineFlag(q.text) ->
                            refuseLocked(ended, Protocol)
                       [] OTHER -> ended
<1>1. Keeps(q, ended) /\ IsScanner(ended)
  BY DEF Keeps, IsScanner, InitScanner
<1>2. \A v : Keeps(ended, [ended EXCEPT !.uid = v, !.phase = "done"])
  BY <1>1 DEF Keeps, IsScanner, InitScanner
<1>3. endAtomLocked(q) = [judged EXCEPT !.text = <<>>]
  BY DEF endAtomLocked
<1> HIDE DEF ended
<1>4. judged \in {nameLocked(ended), [ended EXCEPT !.uid = Value(q.text), !.phase = "done"],
                  refuseLocked(ended, Protocol), ended}
  OBVIOUS
<1> HIDE DEF judged
<1>5. Keeps(ended, ended)
  BY <1>1 DEF Keeps
<1>6. Keeps(ended, judged)
  BY <1>1, <1>2, <1>4, <1>5, NameKeeps, RefuseKeeps, Categories
<1>7. Keeps(judged, [judged EXCEPT !.text = <<>>])
  BY <1>6 DEF Keeps, IsScanner, InitScanner
<1>8. QED
  BY <1>1, <1>3, <1>6, <1>7, KeepsKeeps

\* A digit of a literal size, its end, or a refusal.
LEMMA LiteralSizeKeeps ==
  ASSUME NEW q, IsScanner(q), NEW b
  PROVE  Keeps(q, literalSizeByteLocked(q, b))
<1>1. Keeps(q, [q EXCEPT !.state = "literalCR"])
  BY DEF Keeps, IsScanner, InitScanner, ScanStates
<1>2. \A n : Keeps(q, [q EXCEPT !.digits = @ + 1, !.literal = n])
  BY DEF Keeps, IsScanner, InitScanner
<1>3. literalSizeByteLocked(q, b) \in
        {[q EXCEPT !.state = "literalCR"], refuseLocked(q, Protocol),
         [q EXCEPT !.digits = @ + 1, !.literal = 10 * @ + Digit[b]]}
  BY DEF literalSizeByteLocked
<1>4. [q EXCEPT !.digits = @ + 1, !.literal = 10 * @ + Digit[b]]
        = [q EXCEPT !.digits = @ + 1, !.literal = 10 * q.literal + Digit[b]]
  BY DEF IsScanner, InitScanner
<1>5. QED
  BY <1>1, <1>2, <1>3, <1>4, RefuseKeeps, Categories

\* One byte between the tokens.
LEMMA ItemsKeeps ==
  ASSUME NEW q, IsScanner(q), NEW b
  PROVE  Keeps(q, itemsByteLocked(q, b))
<1>1. Keeps(q, refuseLocked(q, Protocol))
  BY RefuseKeeps, Categories
<1>2. ASSUME NEW p PROVE Keeps(q, [q EXCEPT !.previous = "space", !.phase = p])
  BY DEF Keeps, IsScanner, InitScanner
<1>3. ASSUME NEW f PROVE Keeps(q, openLocked([q EXCEPT !.flagsList = f]))
  <2>1. Keeps(q, [q EXCEPT !.flagsList = f])
    BY DEF Keeps, IsScanner, InitScanner
  <2>2. QED
    BY <2>1, OpenKeeps, KeepsKeeps DEF Keeps
<1>4. Keeps(q, closeLocked(q))
  BY CloseKeeps
<1>5. ASSUME NEW r, Keeps(q, r) PROVE Keeps(q, tokenLocked(r))
  BY <1>5, TokenKeeps, KeepsKeeps DEF Keeps
<1>6. /\ Keeps(q, [q EXCEPT !.state = "quoted"])
      /\ Keeps(q, [q EXCEPT !.state = "literalSize", !.literal = 0, !.digits = 0])
      /\ Keeps(q, [q EXCEPT !.state = "atom", !.text = <<b>>])
  BY DEF Keeps, IsScanner, InitScanner, ScanStates
<1>7. CASE b = " "
  BY <1>1, <1>2, <1>7 DEF itemsByteLocked
<1>8. CASE b = "("
  BY <1>1, <1>3, <1>8 DEF itemsByteLocked
<1>9. CASE b = ")"
  BY <1>1, <1>4, <1>9 DEF itemsByteLocked
<1>10. CASE b \notin {" ", "(", ")"}
  BY <1>1, <1>5, <1>6, <1>10 DEF itemsByteLocked
<1>11. QED
  BY <1>7, <1>8, <1>9, <1>10

\* Whether the frame can still end within the budgets.
LEMMA FeasibleKeeps ==
  ASSUME NEW q, IsScanner(q)
  PROVE  Keeps(q, fetchFeasibleLocked(q)) /\ Keeps(q, LineFeasible(q))
<1>1. Keeps(q, q)
  BY DEF Keeps
<1>2. QED
  BY <1>1, RefuseKeeps, Categories DEF fetchFeasibleLocked, LineFeasible

\* A new response, and a FETCH within it.
LEMMA StartKeeps ==
  ASSUME NEW q, IsScanner(q)
  PROVE  Keeps(q, startResponseLocked(q)) /\ Keeps(q, startFetchLocked(q))
BY DEF Keeps, IsScanner, InitScanner, ScanStates, startResponseLocked, startFetchLocked

\* A frame is released whole.
LEMMA ReleaseBooks ==
  ASSUME NEW q, IsScanner(q)
  PROVE  /\ Books(q, releaseLocked(q))
         /\ releaseLocked(q).dispatch = q.dispatch /\ releaseLocked(q).structures = q.structures
<1> DEFINE r == [q EXCEPT !.pending = q.pending + q.frame, !.approved = q.approved + q.frame,
                          !.mode = "between", !.text = <<>>]
<1>1. releaseLocked(q) = r
  BY DEF releaseLocked, IsScanner, InitScanner
<1>2. /\ DOMAIN r = DOMAIN q /\ r.pending = q.pending + q.frame /\ r.approved = q.approved + q.frame
      /\ r.frame = q.frame /\ r.structures = q.structures /\ r.state = q.state
      /\ r.terminal = q.terminal /\ r.dispatch = q.dispatch
  BY DEF IsScanner, InitScanner
<1> HIDE DEF r
<1>3. Books(q, r)
  BY <1>2 DEF Books, IsScanner
<1>4. QED
  BY <1>1, <1>2, <1>3

\* A structure is released against the active dispatch; FLAGS are swallowed.
LEMMA CompleteFetchBooks ==
  ASSUME NEW q, IsScanner(q)
  PROVE  Books(q, completeFetchLocked(q))
<1> DEFINE r == releaseLocked(q)
           d == [r EXCEPT !.dispatch = "delivered", !.structures = @ + 1]
<1>1. Books(q, refuseLocked(q, Protocol))
  BY RefuseKeeps, Categories, KeepsBooks
<1>2. Books(q, [q EXCEPT !.mode = "between"])
  <2>1. Keeps(q, [q EXCEPT !.mode = "between"])
    BY DEF Keeps, IsScanner, InitScanner
  <2>2. QED
    BY <2>1, KeepsBooks
<1>3. ASSUME q.dispatch = "active" PROVE Books(q, d)
  <2>1. Books(q, r) /\ r.dispatch = q.dispatch /\ r.structures = q.structures
    BY ReleaseBooks
  <2> HIDE DEF r
  <2>2. IsScanner(d) /\ d.pending = r.pending /\ d.approved = r.approved /\ d.dispatch = "delivered"
        /\ d.structures = r.structures + 1
    BY <2>1 DEF Books, IsScanner, InitScanner
  <2> HIDE DEF d
  <2>3. QED
    BY <1>3, <2>1, <2>2 DEF Books
<1>4. QED
  BY <1>1, <1>2, <1>3 DEF completeFetchLocked

\* A control line is released whole, or refused.
LEMMA CompleteLineBooks ==
  ASSUME NEW q, IsScanner(q)
  PROVE  Books(q, completeLineLocked(q))
<1> DEFINE w == [q EXCEPT !.work = @ + 1]
<1>1. Keeps(q, w) /\ IsScanner(w)
  BY DEF Keeps, IsScanner, InitScanner
<1> HIDE DEF w
<1>2. Books(q, releaseLocked(w))
  BY <1>1, KeepsBooks, ReleaseBooks, BooksBooks
<1>3. QED
  BY <1>2, RefuseKeeps, Categories, KeepsBooks DEF completeLineLocked, w

\* One byte of a FETCH.
LEMMA FetchByteBooks ==
  ASSUME NEW q, IsScanner(q), NEW b
  PROVE  Books(q, fetchByteLocked(q, b))
<1>1. Books(q, refuseLocked(q, Protocol)) /\ Books(q, refuseLocked(q, Bounds))
  BY RefuseKeeps, Categories, KeepsBooks
<1>2. Books(q, q)
  BY DEF Books, IsScanner
<1>3. ASSUME NEW x \in ScanStates PROVE Keeps(q, [q EXCEPT !.state = x])
  BY DEF Keeps, IsScanner, InitScanner
<1>4. ASSUME NEW x \in ScanStates PROVE Books(q, [q EXCEPT !.state = x])
  BY <1>3, KeepsBooks
<1>5. Keeps(q, TokenEnded(q)) /\ Books(q, TokenEnded(q))
  <2>1. Keeps(q, TokenEnded(q))
    BY DEF Keeps, IsScanner, InitScanner, TokenEnded, ScanStates
  <2>2. QED
    BY <2>1, KeepsBooks
<1>6. CASE q.state = "open"
  <2>1. Keeps(q, openLocked([q EXCEPT !.state = "items"]))
    BY <1>3, OpenKeeps, KeepsKeeps DEF ScanStates, Keeps
  <2>2. QED
    BY <1>1, <1>6, <2>1, KeepsBooks DEF fetchByteLocked, Expect
<1>7. CASE q.state = "items"
  BY <1>7, ItemsKeeps, KeepsBooks DEF fetchByteLocked
<1>8. CASE q.state = "atom"
  <2>1. Books(q, [q EXCEPT !.text = Append(@, b)])
    <3>1. Keeps(q, [q EXCEPT !.text = Append(@, b)])
      BY DEF Keeps, IsScanner, InitScanner
    <3>2. QED
      BY <3>1, KeepsBooks
  <2> DEFINE ended == endAtomLocked(q)
             between == [ended EXCEPT !.state = "items"]
  <2>2. Keeps(q, ended) /\ IsScanner(ended)
    BY EndAtomKeeps DEF Keeps
  <2> HIDE DEF ended
  <2>3. Keeps(ended, between) /\ IsScanner(between)
    BY <2>2 DEF Keeps, IsScanner, InitScanner, ScanStates
  <2> HIDE DEF between
  <2>4. Keeps(q, itemsByteLocked(between, b))
    BY <2>2, <2>3, ItemsKeeps, KeepsKeeps
  <2>5. Books(q, ended) /\ Books(q, itemsByteLocked(between, b))
    BY <2>2, <2>4, KeepsBooks
  <2>6. QED
    BY <1>1, <1>8, <2>1, <2>5 DEF fetchByteLocked, ended, between
<1>9. CASE q.state = "quoted"
  <2>1. Books(q, [q EXCEPT !.state = "escape"])
    BY <1>4 DEF ScanStates
  <2>2. QED
    BY <1>1, <1>2, <1>5, <1>9, <2>1 DEF fetchByteLocked
<1>10. CASE q.state = "escape"
  <2>1. Books(q, [q EXCEPT !.state = "quoted"])
    BY <1>4 DEF ScanStates
  <2>2. QED
    BY <1>1, <1>10, <2>1 DEF fetchByteLocked
<1>11. CASE q.state = "literalSize"
  BY <1>11, LiteralSizeKeeps, KeepsBooks DEF fetchByteLocked
<1>12. CASE q.state \in {"literalCR", "literalLF", "endCR"}
  <2>1. /\ Books(q, [q EXCEPT !.state = "literalLF"]) /\ Books(q, [q EXCEPT !.state = "literal"])
        /\ Books(q, [q EXCEPT !.state = "endLF"])
    BY <1>4 DEF ScanStates
  <2>2. QED
    BY <1>1, <1>5, <1>12, <2>1 DEF fetchByteLocked, Expect
<1>13. CASE q.state = "literal"
  <2>1. Keeps(q, [q EXCEPT !.literal = @ - 1]) /\ Keeps(TokenEnded(q), [TokenEnded(q) EXCEPT !.literal = 0])
    BY <1>5 DEF Keeps, IsScanner, InitScanner
  <2>2. Books(q, [q EXCEPT !.literal = @ - 1]) /\ Books(q, [TokenEnded(q) EXCEPT !.literal = 0])
    BY <1>5, <2>1, KeepsKeeps, KeepsBooks
  <2>3. QED
    BY <1>13, <2>2 DEF fetchByteLocked
<1>14. CASE q.state = "endLF"
  BY <1>1, <1>14, CompleteFetchBooks DEF fetchByteLocked, Expect
<1>15. QED
  BY <1>6, <1>7, <1>8, <1>9, <1>10, <1>11, <1>12, <1>13, <1>14 DEF IsScanner, ScanStates

\* One byte of a line.
LEMMA LineByteBooks ==
  ASSUME NEW q, IsScanner(q), NEW b
  PROVE  Books(q, lineByteLocked(q, b))
<1> DEFINE spaced == [q EXCEPT !.lineSpaces = @ + 1]
           ended == [q EXCEPT !.lineCR = TRUE]
<1>1. Keeps(q, spaced) /\ IsScanner(spaced) /\ Keeps(q, ended) /\ IsScanner(ended)
  BY DEF Keeps, IsScanner, InitScanner
<1>2. lineByteLocked(q, b) \in
        {completeLineLocked(q), refuseLocked(q, Protocol), LineFeasible(ended),
         refuseLocked(spaced, Protocol), fetchFeasibleLocked(startFetchLocked(spaced)),
         LineFeasible(spaced), LineFeasible(q)}
  BY DEF lineByteLocked
<1> HIDE DEF spaced, ended
<1>3. Keeps(spaced, startFetchLocked(spaced)) /\ IsScanner(startFetchLocked(spaced))
  BY <1>1, StartKeeps DEF Keeps
<1>4. Keeps(q, fetchFeasibleLocked(startFetchLocked(spaced)))
  BY <1>1, <1>3, FeasibleKeeps, KeepsKeeps
<1>5. Keeps(q, LineFeasible(ended)) /\ Keeps(q, LineFeasible(spaced)) /\ Keeps(q, LineFeasible(q))
  BY <1>1, FeasibleKeeps, KeepsKeeps
<1>6. Keeps(q, refuseLocked(q, Protocol)) /\ Keeps(q, refuseLocked(spaced, Protocol))
  BY <1>1, RefuseKeeps, Categories, KeepsKeeps
<1>7. QED
  BY <1>2, <1>4, <1>5, <1>6, KeepsBooks, CompleteLineBooks

\* One byte, with the budgets checked before it and the completion after it.
LEMMA FeedBooks ==
  ASSUME NEW q, IsScanner(q), NEW b
  PROVE  Books(q, feedLocked(q, b))
<1> DEFINE begun == IF q.mode = "between" THEN startResponseLocked(q) ELSE q
           grown == [begun EXCEPT !.sessionBytes = @ + 1, !.frame = @ + 1]
           written == [grown EXCEPT !.text = Append(@, b)]
           fetched == fetchByteLocked(grown, b)
<1>1. Keeps(q, begun) /\ IsScanner(begun)
  <2>1. Keeps(q, q)
    BY DEF Keeps
  <2>2. QED
    BY <2>1, StartKeeps DEF Keeps
<1>2. feedLocked(q, b) \in {refuseLocked(q, Bounds), fetchFeasibleLocked(fetched), fetched,
                            lineByteLocked(written, b)}
  BY DEF feedLocked, Applied
<1> HIDE DEF begun
<1>3. Keeps(begun, grown) /\ IsScanner(grown)
  BY <1>1 DEF Keeps, IsScanner, InitScanner
<1> HIDE DEF grown
<1>4. Keeps(grown, written) /\ IsScanner(written)
  BY <1>3 DEF Keeps, IsScanner, InitScanner
<1> HIDE DEF written
<1>5. Keeps(q, grown) /\ Keeps(q, written)
  BY <1>1, <1>3, <1>4, KeepsKeeps
<1>6. Books(q, grown) /\ Books(q, written)
  BY <1>5, KeepsBooks
<1>7. Books(grown, fetched) /\ IsScanner(fetched)
  BY <1>3, FetchByteBooks DEF Books
<1> HIDE DEF fetched
<1>8. Books(q, fetched)
  BY <1>6, <1>7, BooksBooks
<1>9. Books(fetched, fetchFeasibleLocked(fetched))
  BY <1>7, FeasibleKeeps, KeepsBooks
<1>10. Books(q, fetchFeasibleLocked(fetched))
  BY <1>8, <1>9, BooksBooks
<1>11. Books(q, lineByteLocked(written, b))
  BY <1>4, <1>6, LineByteBooks, BooksBooks
<1>12. Books(q, refuseLocked(q, Bounds))
  BY RefuseKeeps, Categories, KeepsBooks
<1>13. QED
  BY <1>2, <1>8, <1>10, <1>11, <1>12
-----------------------------------------------------------------------------
(* The bytes of a chunk: FoldLeft, one byte after the other.               *)

\* One byte of a chunk: nothing is fed once the scanner has refused.
Fed(p, b) == IF Refused(p) THEN p ELSE feedLocked(p, b)

\* The same, as FeedAll writes it.
FedApplied(p, b) == Applied(LAMBDA r : IF Refused(r) THEN r ELSE feedLocked(r, b), p)

\* Applied only applies.
LEMMA AppliedFed ==
  ASSUME NEW p, NEW b
  PROVE  FedApplied(p, b) = Fed(p, b)
BY DEF Applied, Fed, FedApplied

\* f is the function FoldLeft chooses for FeedAll(q, c): f[t] is q fed with
\* the bytes of c at the places t.
Folds(f, q, c) ==
  f = [t \in SUBSET DOMAIN c |-> IF t = {} THEN q ELSE FedApplied(f[t \ {Max(t)}], c[Max(t)])]

\* Where such a function exists, FeedAll is its value.
LEMMA FeedUnfolds ==
  ASSUME NEW q, NEW c, NEW g, Folds(g, q, c)
  PROVE  \E f : Folds(f, q, c) /\ FeedAll(q, c) = f[DOMAIN c]
<1>1. FeedAll(q, c) = (CHOOSE f : Folds(f, q, c))[DOMAIN c]
  BY DEF FeedAll, FoldLeft, MapThenFoldSet, Folds, FedApplied
<1>2. Folds(CHOOSE f : Folds(f, q, c), q, c)
  OBVIOUS
<1>3. QED
  BY <1>1, <1>2

\* Folds, without Applied.
LEMMA FoldsFed ==
  ASSUME NEW q, NEW c, NEW f
  PROVE  Folds(f, q, c) <=>
           f = [t \in SUBSET DOMAIN c |->
                  IF t = {} THEN q ELSE Fed(f[t \ {Max(t)}], c[Max(t)])]
BY AppliedFed DEF Folds

\* What it says of one set of places ...
LEMMA FoldsAt ==
  ASSUME NEW q, NEW c, NEW f, Folds(f, q, c), NEW t \in SUBSET DOMAIN c
  PROVE  f[t] = IF t = {} THEN q ELSE Fed(f[t \ {Max(t)}], c[Max(t)])
BY FoldsFed

\* ... and how to show it.
LEMMA FoldsIf ==
  ASSUME NEW q, NEW c, NEW f, f = [t \in SUBSET DOMAIN c |-> f[t]],
         \A t \in SUBSET DOMAIN c : f[t] = IF t = {} THEN q ELSE Fed(f[t \ {Max(t)}], c[Max(t)])
  PROVE  Folds(f, q, c)
BY FoldsFed

\* FeedAll of no byte.
LEMMA FeedNone ==
  ASSUME NEW q PROVE FeedAll(q, <<>>) = q
<1> DEFINE g == [t \in SUBSET {} |-> q]
<1>1. DOMAIN <<>> = {}
  OBVIOUS
<1>2. g = [t \in SUBSET DOMAIN <<>> |-> g[t]] /\ \A t \in SUBSET DOMAIN <<>> : t = {} /\ g[t] = q
  BY <1>1
<1> HIDE DEF g
<1>3. Folds(g, q, <<>>)
  BY <1>2, FoldsIf
<1>4. PICK f : Folds(f, q, <<>>) /\ FeedAll(q, <<>>) = f[{}]
  BY <1>1, <1>3, FeedUnfolds
<1>5. f[{}] = q
  BY <1>1, <1>4, FoldsAt
<1>6. QED
  BY <1>4, <1>5

\* Induction over the natural numbers, for membership in a set: the set of
\* counterexamples has no least element.
LEMMA NatInSet ==
  ASSUME NEW T, 0 \in T, \A n \in Nat : n \in T => n + 1 \in T
  PROVE  Nat \subseteq T
<1> DEFINE U == {n \in Nat : n \notin T}
<1> SUFFICES ASSUME U # {} PROVE FALSE
  OBVIOUS
<1>1. PICK m \in U : \A y \in U : ~(<<y, m>> \in OpToRel(<, Nat))
  BY NatLessThanWellFounded, WFMin
<1>2. m \in Nat /\ m # 0
  OBVIOUS
<1>3. ASSUME NEW y \in Nat, y < m PROVE <<y, m>> \in OpToRel(<, Nat)
  BY <1>2, <1>3 DEF OpToRel
<1>4. m - 1 \in Nat /\ m - 1 < m /\ (m - 1) + 1 = m
  BY <1>2
<1>5. m - 1 \notin U
  BY <1>1, <1>3, <1>4
<1>6. QED
  BY <1>2, <1>4, <1>5

\* The last of the first n + 1 places.
LEMMA MaxUpTo ==
  ASSUME NEW n \in Nat
  PROVE  /\ Max(1 .. n + 1) = n + 1
         /\ (1 .. n + 1) \ {n + 1} = 1 .. n /\ 1 .. n + 1 # {}
         /\ 1 .. n \in SUBSET (1 .. n + 1)
<1>1. n + 1 \in 1 .. n + 1 /\ \A y \in 1 .. n + 1 : y <= n + 1
  OBVIOUS
<1>2. ASSUME NEW x \in 1 .. n + 1, \A y \in 1 .. n + 1 : y <= x PROVE x = n + 1
  BY <1>1, <1>2
<1>3. Max(1 .. n + 1) = n + 1
  BY <1>1, <1>2 DEF Max
<1>4. QED
  BY <1>1, <1>3

\* Folds at a set of places that is not empty.
LEMMA FoldsAtSome ==
  ASSUME NEW q, NEW c, NEW f, Folds(f, q, c), NEW t \in SUBSET DOMAIN c, t # {}
  PROVE  f[t] = Fed(f[t \ {Max(t)}], c[Max(t)])
BY FoldsFed

\* Folds, for the first n places.
UpTo(f, q, c, n) ==
  f = [t \in SUBSET (1 .. n) |-> IF t = {} THEN q ELSE Fed(f[t \ {Max(t)}], c[Max(t)])]

\* Such a function exists for every length.
LEMMA FoldsUpTo ==
  ASSUME NEW q, NEW c, NEW n \in Nat
  PROVE  \E f : UpTo(f, q, c, n)
<1> DEFINE T == {k \in Nat : \E f : UpTo(f, q, c, k)}
<1>1. 0 \in T
  <2>1. UpTo([t \in SUBSET (1 .. 0) |-> q], q, c, 0)
    <3>1. 1 .. 0 = {} /\ \A t \in SUBSET (1 .. 0) : t = {}
      OBVIOUS
    <3>2. QED
      BY <3>1 DEF UpTo
  <2>2. QED
    BY <2>1
<1>2. ASSUME NEW k \in Nat, k \in T PROVE k + 1 \in T
  <2>1. PICK f : UpTo(f, q, c, k)
    BY <1>2
  <2> DEFINE g == [t \in SUBSET (1 .. k + 1) |->
                     IF k + 1 \in t THEN Fed(f[t \ {k + 1}], c[k + 1]) ELSE f[t]]
  <2>2. ASSUME NEW t \in SUBSET (1 .. k + 1)
        PROVE  g[t] = IF t = {} THEN q ELSE Fed(g[t \ {Max(t)}], c[Max(t)])
    <3>1. CASE k + 1 \in t
      <4>1. Max(t) = k + 1
        <5>1. ASSUME NEW x \in t, \A y \in t : y <= x PROVE x = k + 1
          BY <3>1, <5>1
        <5>2. \A y \in t : y <= k + 1
          OBVIOUS
        <5>3. QED
          BY <3>1, <5>1, <5>2 DEF Max
      <4>2. t \ {k + 1} \in SUBSET (1 .. k + 1) /\ k + 1 \notin t \ {k + 1}
        OBVIOUS
      <4>3. g[t \ {k + 1}] = f[t \ {k + 1}] /\ g[t] = Fed(f[t \ {k + 1}], c[k + 1])
        BY <3>1, <4>2
      <4> HIDE DEF g
      <4>4. QED
        BY <3>1, <4>1, <4>3
    <3>2. CASE k + 1 \notin t
      <4> DEFINE u == t \ {Max(t)}
      <4>1. t \in SUBSET (1 .. k) /\ u \in SUBSET (1 .. k + 1) /\ k + 1 \notin u
        <5>1. \A x \in t : x \in 1 .. k + 1 /\ x # k + 1
          BY <3>2
        <5>2. t \subseteq 1 .. k /\ u \subseteq t
          BY <5>1
        <5>3. QED
          BY <3>2, <5>2
      <4> HIDE DEF u
      <4>2. g[t] = f[t] /\ g[u] = f[u]
        BY <3>2, <4>1
      <4>3. f[t] = IF t = {} THEN q ELSE Fed(f[t \ {Max(t)}], c[Max(t)])
        BY <2>1, <4>1 DEF UpTo
      <4> HIDE DEF g
      <4>4. QED
        BY <4>2, <4>3 DEF u
    <3>3. QED
      BY <3>1, <3>2
  <2>3. g = [t \in SUBSET (1 .. k + 1) |-> g[t]]
    OBVIOUS
  <2> HIDE DEF g
  <2>4. UpTo(g, q, c, k + 1)
    BY <2>2, <2>3 DEF UpTo
  <2>5. QED
    BY <2>4
<1>3. Nat \subseteq T
  <2> HIDE DEF T
  <2>1. QED
    BY <1>1, <1>2, NatInSet
<1>4. QED
  BY <1>3

\* f has q fed with the prefixes of c, which is n bytes long.
Fills(f, q, c, n) ==
  /\ f[1 .. 0] = q /\ FeedAll(q, c) = f[1 .. n]
  /\ \A k \in Nat : k < n => f[1 .. k + 1] = Fed(f[1 .. k], c[k + 1])

\* The value of FeedAll by the prefixes of the chunk.
LEMMA FeedPrefixes ==
  ASSUME NEW q, NEW n \in Nat, NEW c, DOMAIN c = 1 .. n
  PROVE  \E f : Fills(f, q, c, n)
<1>1. PICK g : UpTo(g, q, c, n)
  BY FoldsUpTo
<1>2. Folds(g, q, c)
  BY <1>1, FoldsFed DEF UpTo
<1>3. PICK f : Folds(f, q, c) /\ FeedAll(q, c) = f[1 .. n]
  BY <1>2, FeedUnfolds
<1>4. f[1 .. 0] = q
  <2>1. 1 .. 0 = {} /\ 1 .. 0 \in SUBSET DOMAIN c
    OBVIOUS
  <2>2. QED
    BY <1>3, <2>1, FoldsAt
<1>5. ASSUME NEW k \in Nat, k < n PROVE f[1 .. k + 1] = Fed(f[1 .. k], c[k + 1])
  <2>1. k \in Nat /\ 1 .. k + 1 \in SUBSET DOMAIN c
    BY <1>5
  <2>2. f[1 .. k + 1] = Fed(f[(1 .. k + 1) \ {Max(1 .. k + 1)}], c[Max(1 .. k + 1)])
    <3>1. ASSUME NEW t \in SUBSET DOMAIN c, t # {}
          PROVE  f[t] = Fed(f[t \ {Max(t)}], c[Max(t)])
      BY <1>3, <3>1, FoldsAtSome
    <3>2. 1 .. k + 1 # {}
      BY <2>1, MaxUpTo
    <3>3. QED
      BY <2>1, <3>1, <3>2
  <2>3. QED
    BY <2>1, <2>2, MaxUpTo
<1>6. QED
  BY <1>3, <1>4, <1>5 DEF Fills

\* The first byte comes first.
LEMMA FeedFirst ==
  ASSUME NEW q, NEW b, NEW S, NEW c \in Seq(S)
  PROVE  FeedAll(q, <<b>> \o c) = FeedAll(Fed(q, b), c)
<1> DEFINE n == Len(c)  d == <<b>> \o c  p == Fed(q, b)
<1>1. n \in Nat /\ DOMAIN c = 1 .. n
  OBVIOUS
<1>2. DOMAIN d = 1 .. n + 1 /\ d[1] = b /\ \A i \in 1 .. n : d[i + 1] = c[i]
  <2>1. c \in Seq(S \cup {b}) /\ <<b>> \in Seq(S \cup {b})
    OBVIOUS
  <2>2. QED
    BY <2>1
<1> HIDE DEF n, d, p
<1>3. PICK f : Fills(f, q, d, n + 1)
  <2>1. n + 1 \in Nat
    BY <1>1
  <2>2. QED
    BY <1>2, <2>1, FeedPrefixes
<1>4. PICK h : Fills(h, p, c, n)
  BY <1>1, FeedPrefixes
<1> DEFINE T == {k \in Nat : k <= n => f[1 .. k + 1] = h[1 .. k]}
<1>5. 0 \in T
  <2>1. f[1 .. 0 + 1] = Fed(f[1 .. 0], d[0 + 1])
    <3>1. 0 \in Nat /\ 0 < n + 1
      BY <1>1
    <3>2. QED
      BY <1>3, <3>1 DEF Fills
  <2>2. QED
    BY <1>2, <1>3, <1>4, <2>1 DEF p, Fills
<1>6. ASSUME NEW k \in Nat, k \in T PROVE k + 1 \in T
  <2> SUFFICES ASSUME k + 1 <= n PROVE f[1 .. (k + 1) + 1] = h[1 .. k + 1]
    OBVIOUS
  <2>1. k <= n /\ k < n /\ k + 1 \in Nat /\ k + 1 < n + 1 /\ k + 1 \in 1 .. n
    BY <1>1
  <2>2. f[1 .. k + 1] = h[1 .. k]
    BY <1>6, <2>1
  <2>3. f[1 .. (k + 1) + 1] = Fed(f[1 .. k + 1], d[(k + 1) + 1])
    BY <1>3, <2>1 DEF Fills
  <2>4. h[1 .. k + 1] = Fed(h[1 .. k], c[k + 1])
    BY <1>4, <2>1 DEF Fills
  <2>5. d[(k + 1) + 1] = c[k + 1]
    BY <1>2, <2>1
  <2>6. QED
    BY <2>2, <2>3, <2>4, <2>5
<1>7. n \in T
  <2> HIDE DEF T
  <2>1. QED
    BY <1>1, <1>5, <1>6, NatInSet
<1>8. QED
  BY <1>1, <1>3, <1>4, <1>7 DEF Fills, d, p

\* A tuple is its first element and the rest.
LEMMA PairConcat ==
  ASSUME NEW x, NEW y PROVE <<x, y>> = <<x>> \o <<y>>
<1> DEFINE U == {x, y}
<1>1. <<x>> \in Seq(U) /\ <<y>> \in Seq(U) /\ <<x, y>> \in Seq(U)
  OBVIOUS
<1>2. Len(<<x>>) = 1 /\ Len(<<y>>) = 1 /\ Len(<<x, y>>) = 2
  OBVIOUS
<1>3. /\ <<x>> \o <<y>> \in Seq(U) /\ Len(<<x>> \o <<y>>) = 2
      /\ (<<x>> \o <<y>>)[1] = x /\ (<<x>> \o <<y>>)[2] = y
  BY <1>1, <1>2, ConcatProperties
<1>4. \A i \in 1 .. 2 : (<<x>> \o <<y>>)[i] = <<x, y>>[i]
  BY <1>3
<1>5. QED
  BY <1>1, <1>2, <1>3, <1>4, SeqEqual

\* FeedAll of one byte.
LEMMA FeedOne ==
  ASSUME NEW q, NEW b PROVE FeedAll(q, <<b>>) = Fed(q, b)
<1>1. <<>> \in Seq({b})
  OBVIOUS
<1>2. <<b>> \o <<>> = <<b>>
  OBVIOUS
<1>3. FeedAll(q, <<b>> \o <<>>) = FeedAll(Fed(q, b), <<>>)
  BY <1>1, FeedFirst
<1>4. QED
  BY <1>2, <1>3, FeedNone

\* FeedAll of two bytes.
LEMMA FeedTwo ==
  ASSUME NEW q, NEW b, NEW c PROVE FeedAll(q, <<b, c>>) = Fed(Fed(q, b), c)
<1>1. <<c>> \in Seq({c})
  OBVIOUS
<1>2. FeedAll(q, <<b>> \o <<c>>) = FeedAll(Fed(q, b), <<c>>)
  BY <1>1, FeedFirst
<1>3. QED
  BY <1>2, PairConcat, FeedOne

\* Feeding is keeping the books, and a refused scanner takes nothing.
LEMMA FedBooks ==
  ASSUME NEW q, IsScanner(q), NEW b
  PROVE  Books(q, Fed(q, b)) /\ (Refused(q) => Fed(q, b) = q)
<1>1. Books(q, q)
  BY DEF Books, IsScanner
<1>2. QED
  BY <1>1, FeedBooks DEF Fed

\* The chunks of the model: none, one or two bytes.
LEMMA FeedAllBooks ==
  ASSUME NEW q, IsScanner(q), NEW c, c = <<>> \/ \E b, d : c = <<b>> \/ c = <<b, d>>
  PROVE  Books(q, FeedAll(q, c)) /\ (Refused(q) => FeedAll(q, c) = q)
<1>1. CASE c = <<>>
  BY <1>1, FeedNone DEF Books, IsScanner
<1>2. ASSUME NEW b, c = <<b>>
      PROVE  Books(q, FeedAll(q, c)) /\ (Refused(q) => FeedAll(q, c) = q)
  BY <1>2, FeedOne, FedBooks
<1>3. ASSUME NEW b, NEW d, c = <<b, d>>
      PROVE  Books(q, FeedAll(q, c)) /\ (Refused(q) => FeedAll(q, c) = q)
  <2> DEFINE r == Fed(q, b)
  <2>1. Books(q, r) /\ IsScanner(r) /\ (Refused(q) => r = q)
    BY FedBooks DEF Books
  <2> HIDE DEF r
  <2>2. Books(r, Fed(r, d)) /\ (Refused(r) => Fed(r, d) = r)
    BY <2>1, FedBooks
  <2>3. FeedAll(q, c) = Fed(r, d)
    BY <1>3, FeedTwo DEF r
  <2>4. QED
    BY <2>1, <2>2, <2>3, BooksBooks
<1>4. QED
  BY <1>1, <1>2, <1>3

\* A failed source ends the scanner and keeps the books.
LEMMA SourceFailedKeeps ==
  ASSUME NEW q, IsScanner(q), NEW e
  PROVE  Keeps(q, sourceFailedLocked(q, e))
<1>1. {"operation_canceled", "command_timed_out", Protocol, "bridge_unreachable"} \subseteq Terminals
  BY DEF Terminals
<1>2. sourceFailedLocked(q, e) \in
        {refuseLocked(q, "operation_canceled"), refuseLocked(q, "command_timed_out"),
         refuseLocked(q, Protocol), refuseLocked(q, "bridge_unreachable")}
  BY DEF sourceFailedLocked
<1>3. QED
  BY <1>1, <1>2, RefuseKeeps

\* abort keeps the first category.
LEMMA AbortKeeps ==
  ASSUME NEW q, IsScanner(q), NEW cause
  PROVE  Keeps(q, abort(q, cause)) /\ (Refused(q) => abort(q, cause) = q)
<1>1. {"operation_canceled", "command_timed_out"} \subseteq Terminals
  BY DEF Terminals
<1>2. Keeps(q, q)
  BY DEF Keeps
<1>3. QED
  BY <1>1, <1>2, RefuseKeeps DEF abort

-----------------------------------------------------------------------------
(* The inductive invariant.                                                *)

ScanInv == IsScanner(s) /\ handed \in Nat /\ room \in Nat

\* What was approved is handed over or pending, and a dead reader left nothing.
ReleaseInv == /\ handed + s.pending = s.approved
              /\ reader = "dead" => s.pending = 0

\* The step of run fixes the state of the session.
StepInv ==
  /\ pc = "start" => state = "connected"
  /\ pc = "login" => state = "authenticated"
  /\ pc = "examine" => state = "selected"
  /\ pc = "fetch" => state = "dispatched"
  /\ pc \in {"aborted", "closing", "logout"} => state = "closed"
  /\ pc = "done" => state \in {"closed", "connected"}

\* The quarantine knows of the dispatch when the session is past it, and its
\* one structure is what LOGOUT and success follow.
EarnedInv ==
  /\ s.structures <= 1 /\ (s.structures = 1 <=> s.dispatch = "delivered")
  /\ state \in {"connected", "authenticated", "selected"} => s.dispatch = "idle"
  /\ pc = "logout" => s.structures = 1
  /\ err # "ok"
  /\ result = "ok" => pc = "done" /\ conn = "closed" /\ s.pending = 0 /\ s.structures = 1

Inv == TypeOK /\ ScanInv /\ ReleaseInv /\ StepInv /\ EarnedInv

\* The initial states satisfy the invariant.
LEMMA InitInv == Init => Inv
<1>1. Init => TypeOK
  <2>1. InitScanner.terminal = "none" /\ InitScanner.dispatch = "idle"
    BY DEF InitScanner
  <2>2. QED
    BY <2>1 DEF Init, QuarantineInit, TypeOK, Terminals, Steps, Contexts
<1>2. Init => ScanInv /\ ReleaseInv /\ StepInv /\ EarnedInv
  BY DEF Init, QuarantineInit, ScanInv, ReleaseInv, StepInv, EarnedInv, IsScanner, InitScanner,
         Terminals, ScanStates
<1>3. QED
  BY <1>1, <1>2 DEF Inv

-----------------------------------------------------------------------------
(* The reader.                                                             *)

\* What a step of the reader may do, q being the scanner after the bytes that
\* came in: hand over pending bytes, die with nothing pending, or go on.
Loops(q) ==
  /\ IsScanner(s') /\ handed' \in Nat
  /\ handed' + s'.pending = s'.approved
  /\ s'.approved = q.approved /\ s'.terminal = q.terminal
  /\ s'.dispatch = q.dispatch /\ s'.structures = q.structures
  /\ reader' \in {"idle", "source", "dead"}
  /\ reader' = "dead" => s'.pending = 0
  /\ q.pending = 0 => s'.pending = 0

\* The loop of Read hands over approved bytes before it tells of a refusal.
LEMMA LoopStep ==
  ASSUME NEW q, IsScanner(q), handed \in Nat, room' \in Nat, handed + q.pending = q.approved,
         ReadLoop(q)
  PROVE  Loops(q)
<1>1. CASE q.pending > 0
  <2> DEFINE n == Min2(room', q.pending)
             r == [q EXCEPT !.pending = q.pending - n]
  <2>1. q.pending \in Nat /\ q.approved \in Nat
    BY DEF IsScanner
  <2>2. n \in Nat /\ n <= q.pending
    BY <2>1 DEF Min2
  <2>3. [q EXCEPT !.pending = @ - n] = r
    BY DEF IsScanner, InitScanner
  <2>4. s' = [q EXCEPT !.pending = @ - n] /\ handed' = handed + n /\ reader' = "idle"
    BY <1>1 DEF ReadLoop
  <2> HIDE DEF n
  <2>5. /\ DOMAIN r = DOMAIN q /\ r.pending = q.pending - n /\ r.approved = q.approved
        /\ r.frame = q.frame /\ r.structures = q.structures /\ r.state = q.state
        /\ r.terminal = q.terminal /\ r.dispatch = q.dispatch
    BY DEF IsScanner, InitScanner
  <2>6. s' = r
    BY <2>3, <2>4
  <2> HIDE DEF r
  <2>7. IsScanner(s')
    BY <2>1, <2>2, <2>5, <2>6 DEF IsScanner
  <2>8. handed' \in Nat /\ handed' + s'.pending = s'.approved
    BY <2>1, <2>2, <2>4, <2>5, <2>6
  <2>9. QED
    BY <1>1, <2>4, <2>5, <2>6, <2>7, <2>8 DEF Loops
<1>2. CASE ~(q.pending > 0)
  <2>1. q.pending = 0
    BY <1>2 DEF IsScanner
  <2>2. s' = q /\ handed' = handed /\ reader' \in {"idle", "source", "dead"}
    BY <1>2, <2>1 DEF ReadLoop
  <2>3. QED
    BY <2>1, <2>2 DEF Loops
<1>3. QED
  BY <1>1, <1>2

\* The scanner that a read of the source leaves.
Scanned(q) ==
  /\ Books(s, q) /\ (Refused(s) => q = s)
  /\ conn = "closed" => Keeps(s, q)

\* Every reader step feeds nothing, or a chunk of one or two bytes.
LEMMA ReaderLoops ==
  ASSUME TypeOK, ScanInv, ReleaseInv,
         Reading(Reads) \/ Reading(PeerSends) \/ Reading(SourceFails)
  PROVE  room' \in Nat /\ \E q : Scanned(q) /\ Loops(q)
<1>1. IsScanner(s) /\ handed \in Nat /\ room \in Nat
  BY DEF ScanInv
<1>2. Keeps(s, s) /\ Books(s, s)
  BY <1>1 DEF Keeps, Books, IsScanner
<1>3. CASE Reading(Reads)
  <2>1. PICK n \in Rooms : Read(n)
    BY <1>3 DEF Reading, Reads
  <2>2. room' \in Nat /\ ReadLoop(s)
    BY <2>1, SessionAssumption DEF Read
  <2>3. Loops(s)
    BY <1>1, <2>2, LoopStep DEF ReleaseInv
  <2>4. QED
    BY <1>2, <2>2, <2>3 DEF Scanned
<1>4. ASSUME NEW c, NEW e, SourceReturns(c, e), c = <<>> \/ \E b, d : c = <<b>> \/ c = <<b, d>>,
             c = <<>> \/ conn = "open"
      PROVE  room' \in Nat /\ \E q : Scanned(q) /\ Loops(q)
  <2> DEFINE fed == FeedAll(s, c)
             q == IF ~Refused(fed) /\ e # "none" THEN sourceFailedLocked(fed, e) ELSE fed
  <2>1. room' \in Nat /\ ReadLoop(q)
    BY <1>1, <1>4 DEF SourceReturns
  <2>2. Books(s, fed) /\ IsScanner(fed) /\ (Refused(s) => fed = s)
    BY <1>1, <1>4, FeedAllBooks DEF Books
  <2>3. conn = "closed" => fed = s
    BY <1>4, FeedNone DEF TypeOK
  <2> HIDE DEF fed
  <2>4. Keeps(fed, sourceFailedLocked(fed, e)) /\ Keeps(fed, fed)
    BY <2>2, SourceFailedKeeps DEF Keeps
  <2>5. Keeps(fed, q) /\ Books(fed, q) /\ (Refused(s) => q = s)
    BY <2>2, <2>4, KeepsBooks
  <2> HIDE DEF q
  <2>6. Books(s, q)
    BY <1>1, <2>2, <2>5, BooksBooks
  <2>7. Scanned(q)
    BY <2>3, <2>5, <2>6 DEF Scanned
  <2>8. handed + q.pending = q.approved
    <3>1. /\ q.pending \in Nat /\ q.approved \in Nat /\ s.pending \in Nat /\ s.approved \in Nat
          /\ q.pending + s.approved = q.approved + s.pending
      BY <1>1, <2>6 DEF Books, IsScanner
    <3>2. QED
      BY <1>1, <3>1 DEF ReleaseInv
  <2>9. Loops(q)
    BY <1>1, <2>1, <2>6, <2>8, LoopStep DEF Books
  <2>10. QED
    BY <2>1, <2>7, <2>9
<1>5. CASE Reading(PeerSends)
  <2>1. CASE \E chunk \in Chunks(s) : SourceReturns(chunk, "none")
    <3>1. PICK chunk \in Chunks(s) : SourceReturns(chunk, "none")
      BY <2>1
    <3>2. \E b, d : chunk = <<b>> \/ chunk = <<b, d>>
      BY <3>1 DEF Chunks
    <3>3. QED
      BY <1>4, <1>5, <3>1, <3>2 DEF Reading, PeerSends
  <2>2. CASE \E b \in Offered(s) : SourceReturns(<<b>>, "eof")
    BY <1>4, <1>5, <2>2 DEF Reading, PeerSends
  <2>3. CASE SourceReturns(<<>>, "eof")
    BY <1>4, <2>3
  <2>4. QED
    BY <1>5, <2>1, <2>2, <2>3 DEF Reading, PeerSends
<1>6. CASE Reading(SourceFails)
  BY <1>4, <1>6 DEF Reading, SourceFails
<1>7. QED
  BY <1>3, <1>5, <1>6

\* A reader step keeps the invariant: a structure it releases uses up the
\* dispatch, which only a session past it has active.
LEMMA ReaderStep ==
  ASSUME Inv, Reading(Reads) \/ Reading(PeerSends) \/ Reading(SourceFails)
  PROVE  Inv'
<1>1. room' \in Nat /\ \E q : Scanned(q) /\ Loops(q)
  BY ReaderLoops DEF Inv
<1>2. PICK q : Scanned(q) /\ Loops(q)
  BY <1>1
<1>3. UNCHANGED <<pc, state, ctx, conn, err, result>>
  BY DEF Reading
<1>4. IsScanner(s) /\ IsScanner(q) /\ IsScanner(s')
  BY <1>2 DEF Inv, ScanInv, Scanned, Books, Loops
<1>5. TypeOK'
  <2>1. answered' \in BOOLEAN
    <3>1. answered' = (answered \/ handed' > handed)
      BY DEF Reading
    <3>2. QED
      BY <3>1
  <2>2. reader' \in {"idle", "source", "dead"}
    BY <1>2 DEF Loops
  <2>3. QED
    BY <1>3, <1>4, <2>1, <2>2 DEF Inv, TypeOK, IsScanner
<1>6. ScanInv' /\ ReleaseInv'
  BY <1>1, <1>2 DEF ScanInv, ReleaseInv, Loops
<1>7. StepInv'
  BY <1>3 DEF Inv, StepInv
<1>8. EarnedInv'
  <2>1. /\ s'.dispatch = q.dispatch /\ s'.structures = q.structures
        /\ (q.pending = 0 => s'.pending = 0)
    BY <1>2 DEF Loops
  <2>2. \/ q.dispatch = s.dispatch /\ q.structures = s.structures
        \/ s.dispatch = "active" /\ q.dispatch = "delivered" /\ q.structures = s.structures + 1
    BY <1>2 DEF Scanned, Books
  <2>3. s.structures \in Nat /\ q.structures \in Nat
    BY <1>4 DEF IsScanner
  <2>4. s'.structures <= 1 /\ (s'.structures = 1 <=> s'.dispatch = "delivered")
    BY <2>1, <2>2, <2>3 DEF Inv, EarnedInv
  <2>5. state \in {"connected", "authenticated", "selected"} => s'.dispatch = "idle"
    BY <2>1, <2>2 DEF Inv, EarnedInv
  <2>6. s.structures = 1 => s'.structures = 1
    BY <2>1, <2>2, <2>3 DEF Inv, EarnedInv
  <2>7. conn = "closed" /\ s.pending = 0 => s'.pending = 0
    BY <1>2, <2>1 DEF Scanned, Keeps
  <2>8. QED
    BY <1>3, <2>4, <2>5, <2>6, <2>7 DEF Inv, EarnedInv
<1>9. QED
  BY <1>5, <1>6, <1>7, <1>8 DEF Inv

-----------------------------------------------------------------------------
(* The caller and its context.                                             *)

\* A refusal is never taken for success.
LEMMA RefusalFails ==
  ASSUME TypeOK, ScanInv, NEW code, code # "ok"
  PROVE  refusal(s, code) # "ok"
BY DEF TypeOK, ScanInv, IsScanner, Terminals, Bounds, Protocol, Contexts, Ended, Live, refusal,
       mapIMAPError, Refused

\* A failed step of the caller keeps the invariant: it only notes the error.
LEMMA FailsStep ==
  ASSUME Inv, pc # "done", NEW code, code # "ok", Fails(code)
  PROVE  Inv'
<1>1. err' # "ok"
  BY RefusalFails DEF Inv, Fails, FailsIn
<1>2. /\ pc' = "failing" /\ s' = s
      /\ UNCHANGED <<reader, room, handed, state, ctx, conn, answered, result>>
  BY DEF Fails, FailsIn
<1>3. QED
  BY <1>1, <1>2 DEF Inv, TypeOK, ScanInv, ReleaseInv, StepInv, EarnedInv

\* The abort of the quarantine keeps it, the transport still open.
LEMMA AbortsStep == ASSUME Inv, Aborts PROVE Inv'
<1>1. Keeps(s, s') /\ IsScanner(s')
  BY AbortKeeps DEF Inv, ScanInv, Aborts, Keeps
<1>2. /\ pc = "failing" /\ pc' = "aborted" /\ state' = "closed"
      /\ UNCHANGED <<reader, room, count, handed, ctx, conn, answered, err, result>>
  BY DEF Aborts
<1>3. TypeOK'
  BY <1>1, <1>2 DEF Inv, TypeOK, IsScanner
<1>4. ScanInv' /\ ReleaseInv' /\ StepInv'
  BY <1>1, <1>2 DEF Inv, ScanInv, ReleaseInv, StepInv, Keeps
<1>5. EarnedInv'
  BY <1>1, <1>2 DEF Inv, EarnedInv, Keeps
<1>6. QED
  BY <1>3, <1>4, <1>5 DEF Inv

\* So does the close of the transport after it.
LEMMA AbortClosesStep == ASSUME Inv, AbortCloses PROVE Inv'
BY DEF AbortCloses, quarantineVars, Inv, TypeOK, ScanInv, ReleaseInv, StepInv, EarnedInv, Steps

\* The session begins, or cannot.
LEMMA StartStep == ASSUME Inv, Start PROVE Inv'
<1>1. CASE Fails("credential_command_failed")
  BY <1>1, FailsStep DEF Start
<1>2. CASE Goes("login") /\ advance("connected", "authenticated") /\ UNCHANGED quarantineVars
  BY <1>2 DEF Start, Goes, advance, quarantineVars, Inv, TypeOK, ScanInv, ReleaseInv, StepInv,
     EarnedInv, Steps
<1>3. CASE /\ pc' = "done" /\ conn' = "closed" /\ result' = refusal(s, "bridge_unreachable")
           /\ UNCHANGED <<quarantineVars, state, ctx, answered, err>>
  <2>1. result' # "ok"
    BY <1>3, RefusalFails DEF Inv
  <2>2. QED
    BY <1>3, <2>1 DEF Start, quarantineVars, Inv, TypeOK, ScanInv, ReleaseInv, StepInv,
       EarnedInv, Steps
<1>4. QED
  BY <1>1, <1>2, <1>3 DEF Start

\* Login.
LEMMA AuthenticateStep == ASSUME Inv, Authenticate PROVE Inv'
BY DEF Authenticate, Goes, advance, quarantineVars, Inv, TypeOK, ScanInv, ReleaseInv, StepInv,
   EarnedInv, Steps

\* A failed command.
LEMMA CommandFailsStep == ASSUME Inv, CommandFails PROVE Inv'
BY FailsStep DEF CommandFails

\* The dispatch: the quarantine learns of it while its state is "idle".
LEMMA FetchStructureStep == ASSUME Inv, FetchStructure PROVE Inv'
<1> DEFINE begun == beginDispatch(s)
<1>1. IsScanner(s) /\ pc = "examine" /\ state = "selected" /\ s.dispatch = "idle"
  BY DEF Inv, ScanInv, StepInv, EarnedInv, FetchStructure
<1>2. CASE \E code \in {"message_not_found", "stale_message_id"} : Fails(code)
  BY <1>1, <1>2, FailsStep
<1>3. CASE Refused(begun) /\ FailsIn(begun, begun.terminal)
  <2>1. Refused(s) /\ begun = s
    BY <1>1, <1>3 DEF beginDispatch, Refused, IsScanner, InitScanner
  <2>2. s.terminal # "ok"
    BY <1>1 DEF IsScanner, Terminals, Bounds, Protocol
  <2>3. Fails(s.terminal)
    BY <1>3, <2>1 DEF Fails
  <2>4. QED
    BY <1>1, <2>2, <2>3, FailsStep
<1>4. CASE /\ ~Refused(begun) /\ s' = begun
           /\ advance("selected", "dispatched") /\ Goes("fetch")
           /\ UNCHANGED <<reader, room, count, handed>>
  <2>1. begun = [s EXCEPT !.dispatch = "active"]
    BY <1>1, <1>4 DEF beginDispatch, Refused
  <2>2. /\ IsScanner(s') /\ s'.dispatch = "active" /\ s'.structures = s.structures
        /\ s'.pending = s.pending /\ s'.approved = s.approved
    BY <1>1, <1>4, <2>1 DEF IsScanner, InitScanner
  <2>3. /\ pc' = "fetch" /\ state' = "dispatched" /\ answered' = FALSE
        /\ UNCHANGED <<reader, room, count, handed, ctx, conn, err, result>>
    BY <1>4 DEF Goes, advance
  <2>4. TypeOK'
    BY <2>2, <2>3 DEF Inv, TypeOK, Steps, IsScanner
  <2>5. ScanInv' /\ ReleaseInv' /\ StepInv'
    BY <2>2, <2>3 DEF Inv, ScanInv, ReleaseInv, StepInv
  <2>6. EarnedInv'
    BY <1>1, <2>2, <2>3 DEF Inv, EarnedInv
  <2>7. QED
    BY <2>4, <2>5, <2>6 DEF Inv
<1>5. QED
  BY <1>2, <1>3, <1>4 DEF FetchStructure

\* The structure has arrived.
LEMMA FetchedStep == ASSUME Inv, Fetched PROVE Inv'
<1>1. s.structures = 1
  BY DEF Inv, ScanInv, IsScanner, EarnedInv, Fetched
<1>2. QED
  BY <1>1 DEF Fetched, Goes, quarantineVars, Inv, TypeOK, ScanInv, ReleaseInv, StepInv,
     EarnedInv, Steps

\* LOGOUT.
LEMMA CloseStep == ASSUME Inv, Close PROVE Inv'
<1>1. /\ pc = "logout" /\ pc' = "done" /\ conn' = "closed"
      /\ UNCHANGED <<quarantineVars, state, ctx, answered, err>>
  BY DEF Close
<1>2. result' = "ok" => s.pending = 0
  <2>1. CASE Answered
    BY <2>1 DEF Answered
  <2>2. CASE result' = refusal(s, "bridge_unreachable")
    BY <2>2, RefusalFails DEF Inv
  <2>3. QED
    BY <2>1, <2>2 DEF Close
<1>3. QED
  BY <1>1, <1>2 DEF quarantineVars, Inv, TypeOK, ScanInv, ReleaseInv, StepInv, EarnedInv, Steps

\* The end of an abort.
LEMMA AbortEndsStep == ASSUME Inv, AbortEnds PROVE Inv'
BY DEF AbortEnds, quarantineVars, Inv, TypeOK, ScanInv, ReleaseInv, StepInv, EarnedInv, Steps

\* The end of the context.
LEMMA ContextEndsStep == ASSUME Inv, ContextEnds PROVE Inv'
BY SessionAssumption DEF ContextEnds, quarantineVars, Inv, TypeOK, ScanInv, ReleaseInv, StepInv,
   EarnedInv, Contexts

-----------------------------------------------------------------------------
(* Theorems.                                                               *)

\* The conjunction of the parts is inductive.
THEOREM SessionInvariant == Spec => []Inv
<1>1. Inv /\ [Next]_vars => Inv'
  <2>1. ASSUME Inv, UNCHANGED vars PROVE Inv'
    BY <2>1 DEF vars, sessionVars, quarantineVars, Inv, TypeOK, ScanInv, ReleaseInv, StepInv,
       EarnedInv
  <2>2. QED
    BY <2>1, ReaderStep, StartStep, AuthenticateStep, FetchStructureStep, FetchedStep,
       CommandFailsStep, CloseStep, AbortsStep, AbortClosesStep, AbortEndsStep,
       ContextEndsStep DEF Next, CallerNext
<1>2. QED
  BY InitInv, <1>1, PTL DEF Spec

\* Every variable keeps its type.
THEOREM SessionTypes == Spec => []TypeOK
<1>1. Inv => TypeOK
  BY DEF Inv
<1>2. QED
  BY <1>1, SessionInvariant, PTL

\* Whatever the peer sends and however its bytes are cut, the decoder gets
\* every byte of the frames approved before its reader ended, and no other.
THEOREM FramesAreWhole == Spec => []ReleasedIsWhole
<1>1. Inv => ReleasedIsWhole
  <2>1. Inv /\ reader = "dead" => handed = s.approved
    BY DEF Inv, ScanInv, IsScanner, ReleaseInv
  <2>2. QED
    BY <2>1 DEF Inv, ReleaseInv, ReleasedIsWhole
<1>2. QED
  BY <1>1, SessionInvariant, PTL

\* At most one structure reaches the decoder, for the one dispatch, and a
\* read that reports success got it in full.
THEOREM OneStructure == Spec => []StructureIsEarned
<1>1. Inv => StructureIsEarned
  <2>1. Inv /\ s.structures = 1 => state \in {"dispatched", "closed"}
    BY DEF Inv, TypeOK, EarnedInv
  <2>2. Inv /\ result = "ok" => s.structures = 1 /\ handed = s.approved
    BY DEF Inv, ScanInv, IsScanner, ReleaseInv, EarnedInv
  <2>3. QED
    BY <2>1, <2>2 DEF Inv, EarnedInv, StructureIsEarned
<1>2. QED
  BY <1>1, SessionInvariant, PTL

\* The first terminal category stands, and nothing is approved after it,
\* whatever reader, caller and context still do: also when the transport
\* delivers to a read that an abort overtook, before Abort closes it.
THEOREM FirstCategoryStands == Spec => FirstCategoryIsFinal
<1>1. ASSUME Inv, [Next]_vars, Refused(s)
      PROVE  s'.terminal = s.terminal /\ s'.approved = s.approved
  <2>1. IsScanner(s)
    BY <1>1 DEF Inv, ScanInv
  <2>2. CASE Reading(Reads) \/ Reading(PeerSends) \/ Reading(SourceFails)
    <3>1. \E q : Scanned(q) /\ Loops(q)
      BY <1>1, <2>2, ReaderLoops DEF Inv
    <3>2. QED
      BY <1>1, <3>1 DEF Scanned, Loops
  <2>3. CASE Aborts
    BY <1>1, <2>1, <2>3, AbortKeeps DEF Aborts
  <2>4. ASSUME NEW code, Fails(code) PROVE s' = s
    BY <2>4 DEF Fails, FailsIn
  <2>5. CASE Start \/ CommandFails
    BY <2>4, <2>5 DEF Start, CommandFails, quarantineVars
  <2>6. CASE FetchStructure
    <3>1. beginDispatch(s) = s
      BY <1>1 DEF beginDispatch
    <3>2. QED
      BY <1>1, <2>4, <2>6, <3>1 DEF FetchStructure, FailsIn
  <2>7. CASE \/ Authenticate \/ Fetched \/ Close \/ AbortCloses \/ AbortEnds
             \/ ContextEnds \/ UNCHANGED vars
    BY <2>7 DEF Authenticate, Fetched, Close, AbortCloses, AbortEnds, ContextEnds, vars,
       quarantineVars
  <2>8. QED
    BY <1>1, <2>2, <2>3, <2>4, <2>5, <2>6, <2>7 DEF Next, CallerNext
<1>2. Inv /\ [Next]_vars => [Refused(s) => s'.terminal = s.terminal /\ s'.approved = s.approved]_vars
  BY <1>1
<1>3. QED
  BY <1>2, SessionInvariant, PTL DEF Spec, FirstCategoryIsFinal

-----------------------------------------------------------------------------
(* Budgets: the frame in progress can end within them after every byte.    *)

\* A scanner within its budgets.
Within(q) ==
  /\ IsScanner(q)
  /\ q.mode \in {"between", "line", "fetch"} /\ (q.mode # "between" => q.terminal = "none")
  /\ q.sessionBytes \in Nat /\ q.sessionBytes <= SessionBytes
  /\ q.responses \in Nat /\ q.responses <= Responses
  /\ q.work \in Nat /\ q.work <= WorkUnits
  /\ q.frame <= FrameBytes
  /\ q.tokens \in Nat /\ q.tokens <= FetchTokens
  /\ q.depth \in Nat /\ q.depth <= Depth
  /\ q.literal \in Nat /\ q.digits \in Nat

\* The state of a FETCH fixes whether lists are open and octets announced.
Nested(q) ==
  q.mode = "fetch" =>
    /\ q.state \in {"open", "endCR", "endLF"} <=> q.depth = 0
    /\ q.state = "literalSize" /\ q.digits = 0 => q.literal = 0
    /\ q.state = "literal" => q.literal > 0

\* Tokens a completion of the FETCH takes.
Closing(q) == IF q.state = "open" THEN 2 ELSE q.depth

\* Bytes a completion of the line takes.
LineNeeds(q) == IF q.lineCR THEN 1 ELSE 2

\* The frame in progress can end within every budget.
Fits(q) ==
  /\ q.mode = "line" =>
       /\ q.work < WorkUnits
       /\ q.frame + LineNeeds(q) <= ControlBytes /\ q.sessionBytes + LineNeeds(q) <= SessionBytes
  /\ q.mode = "fetch" =>
       /\ q.frame + BytesNeeded(q) <= FrameBytes /\ q.sessionBytes + BytesNeeded(q) <= SessionBytes
       /\ q.tokens + Closing(q) <= FetchTokens /\ q.work + Closing(q) <= WorkUnits

\* A sound scanner; one that scans no line; one whose frame can end.
Sound(q) == Within(q) /\ Nested(q)
Scans(q) == Sound(q) /\ q.mode # "line"
Ahead(q) == Sound(q) /\ Fits(q)

\* The budgets are positive numbers.
LEMMA Budgets ==
  /\ FrameBytes \in Nat /\ Depth \in Nat /\ FetchTokens \in Nat /\ ControlBytes \in Nat
  /\ SessionBytes \in Nat /\ Responses \in Nat /\ WorkUnits \in Nat /\ AtomBytes \in Nat
  /\ FrameBytes > 0 /\ Depth > 0 /\ FetchTokens > 0 /\ ControlBytes > 0
  /\ SessionBytes > 0 /\ Responses > 0 /\ WorkUnits > 0 /\ ControlBytes <= FrameBytes
BY QuarantineAssumption

\* A refusal is within every budget: the frame is dropped.
LEMMA RefuseAhead ==
  ASSUME NEW q, IsScanner(q), NEW code \in Terminals
  PROVE  Ahead(refuseLocked(q, code)) /\ Scans(refuseLocked(q, code))
<1> DEFINE r == refuseLocked(q, code)
<1>1. IsScanner(r)
  BY RefuseKeeps DEF Keeps
<1>2. /\ r.mode = "between" /\ r.sessionBytes = 0 /\ r.responses = 0 /\ r.work = 0 /\ r.frame = 0
      /\ r.tokens = 0 /\ r.depth = 0 /\ r.literal = 0 /\ r.digits = 0
  BY DEF refuseLocked, InitScanner
<1> HIDE DEF r
<1>3. Within(r)
  BY <1>1, <1>2, Budgets DEF Within
<1>4. Nested(r) /\ Fits(r)
  BY <1>2 DEF Nested, Fits
<1>5. QED
  BY <1>2, <1>3, <1>4 DEF Ahead, Sound, Scans, r

\* r charges a token to q, and is q otherwise.
Charged(q, r) ==
  /\ q.tokens < FetchTokens /\ q.work < WorkUnits
  /\ r = [q EXCEPT !.tokens = q.tokens + 1, !.work = q.work + 1]

\* A token is charged, or its budget is used up.
LEMMA TokenCharges ==
  ASSUME NEW q, Within(q)
  PROVE  \/ Charged(q, tokenLocked(q))
         \/ /\ q.tokens = FetchTokens \/ q.work = WorkUnits
            /\ tokenLocked(q) = refuseLocked(q, Bounds)
<1>1. [q EXCEPT !.tokens = @ + 1, !.work = @ + 1] = [q EXCEPT !.tokens = q.tokens + 1, !.work = q.work + 1]
  BY DEF Within, IsScanner, InitScanner
<1>2. CASE q.tokens = FetchTokens \/ q.work = WorkUnits
  BY <1>2 DEF tokenLocked
<1>3. CASE ~(q.tokens = FetchTokens \/ q.work = WorkUnits)
  <2>1. q.tokens < FetchTokens /\ q.work < WorkUnits
    BY <1>3, Budgets DEF Within
  <2>2. QED
    BY <1>1, <1>3, <2>1 DEF tokenLocked, Charged
<1>4. QED
  BY <1>2, <1>3

\* What a charge leaves.
LEMMA ChargedFields ==
  ASSUME NEW q, NEW r, Within(q), Charged(q, r)
  PROVE  /\ Within(r) /\ r.tokens = q.tokens + 1 /\ r.work = q.work + 1
         /\ r.mode = q.mode /\ r.state = q.state /\ r.depth = q.depth /\ r.frame = q.frame
         /\ r.sessionBytes = q.sessionBytes /\ r.literal = q.literal /\ r.digits = q.digits
         /\ r.terminal = q.terminal
<1>1. /\ DOMAIN r = DOMAIN q /\ r.tokens = q.tokens + 1 /\ r.work = q.work + 1
      /\ r.mode = q.mode /\ r.state = q.state /\ r.depth = q.depth /\ r.frame = q.frame
      /\ r.sessionBytes = q.sessionBytes /\ r.literal = q.literal /\ r.digits = q.digits
      /\ r.terminal = q.terminal /\ r.dispatch = q.dispatch /\ r.structures = q.structures
      /\ r.pending = q.pending /\ r.approved = q.approved /\ r.responses = q.responses
  BY DEF Within, IsScanner, InitScanner, Charged
<1>2. r.tokens \in Nat /\ r.work \in Nat /\ r.tokens <= FetchTokens /\ r.work <= WorkUnits
  BY <1>1, Budgets DEF Within, Charged
<1>3. Within(r)
  BY <1>1, <1>2 DEF Within, IsScanner
<1>4. QED
  BY <1>1, <1>3

\* A token keeps the scanner within its budgets.
LEMMA TokenSound ==
  ASSUME NEW q, Scans(q)
  PROVE  Scans(tokenLocked(q))
<1> DEFINE t == tokenLocked(q)
<1>1. Within(q) /\ IsScanner(q)
  BY DEF Sound, Scans, Within
<1>2. CASE Charged(q, t)
  <2> HIDE DEF t
  <2>1. /\ Within(t) /\ t.mode = q.mode /\ t.state = q.state /\ t.depth = q.depth
        /\ t.literal = q.literal /\ t.digits = q.digits
    BY <1>1, <1>2, ChargedFields
  <2>2. Scans(t)
    BY <2>1 DEF Sound, Scans, Nested
  <2>3. QED
    BY <2>2 DEF t
<1>3. CASE t = refuseLocked(q, Bounds)
  BY <1>1, <1>3, RefuseAhead, Categories
<1>4. QED
  BY <1>1, <1>2, <1>3, TokenCharges

\* A list opens, also the first one.
LEMMA OpenSound ==
  ASSUME NEW q, Within(q), q.mode = "fetch", q.state = "items"
  PROVE  Scans(openLocked(q))
<1> DEFINE t == tokenLocked(q)
           o == [t EXCEPT !.depth = @ + 1, !.previous = "open"]
<1>1. IsScanner(q) /\ q.depth <= Depth /\ q.depth \in Nat
  BY DEF Within
<1>2. CASE q.depth = Depth \/ t = refuseLocked(q, Bounds)
  <2>1. openLocked(q) = refuseLocked(q, Bounds)
    BY <1>2, Categories DEF openLocked, Refused, refuseLocked, InitScanner, Bounds
  <2>2. QED
    BY <1>1, <2>1, RefuseAhead, Categories
<1>3. CASE q.depth # Depth /\ Charged(q, t)
  <2>1. openLocked(q) = o
    <3>1. q.terminal = "none"
      BY DEF Within
    <3>2. t.terminal = q.terminal
      BY <1>3, ChargedFields
    <3>3. QED
      BY <1>3, <3>1, <3>2 DEF openLocked, Refused
  <2> HIDE DEF t
  <2>2. Within(t) /\ t.mode = "fetch" /\ t.state = "items" /\ t.depth = q.depth
    BY <1>3, ChargedFields
  <2>3. /\ DOMAIN o = DOMAIN t /\ o.tokens = t.tokens /\ o.work = t.work
        /\ o.mode = t.mode /\ o.state = t.state /\ o.depth = t.depth + 1 /\ o.frame = t.frame
        /\ o.sessionBytes = t.sessionBytes /\ o.literal = t.literal /\ o.digits = t.digits
        /\ o.terminal = t.terminal /\ o.dispatch = t.dispatch /\ o.structures = t.structures
        /\ o.pending = t.pending /\ o.approved = t.approved /\ o.responses = t.responses
    BY <2>2 DEF Within, IsScanner, InitScanner
  <2> HIDE DEF o
  <2>4. o.depth \in Nat /\ o.depth <= Depth /\ o.depth # 0
    BY <1>1, <1>3, <2>2, <2>3, Budgets
  <2>5. Scans(o)
    BY <2>2, <2>3, <2>4 DEF Sound, Scans, Within, Nested, IsScanner
  <2>6. QED
    BY <2>1, <2>5
<1>4. QED
  BY <1>2, <1>3, TokenCharges

\* r is at another place of the frame than q, with the same counts.
Like(q, r) ==
  /\ DOMAIN r = DOMAIN q /\ r.mode = q.mode /\ r.terminal = q.terminal
  /\ r.sessionBytes = q.sessionBytes /\ r.responses = q.responses /\ r.work = q.work
  /\ r.frame = q.frame /\ r.tokens = q.tokens
  /\ r.pending = q.pending /\ r.approved = q.approved
  /\ r.dispatch = q.dispatch /\ r.structures = q.structures

\* r is where q is.
Place(q, r) ==
  r.state = q.state /\ r.depth = q.depth /\ r.literal = q.literal /\ r.digits = q.digits

\* Another place of the frame, with the same counts, is within the budgets.
LEMMA LikeWithin ==
  ASSUME NEW q, NEW r, Within(q), Like(q, r), r.state \in ScanStates,
         r.depth \in Nat, r.depth <= Depth, r.literal \in Nat, r.digits \in Nat
  PROVE  Within(r)
BY DEF Within, Like, IsScanner

\* So is the same place of it.
LEMMA PlaceSound ==
  ASSUME NEW q, NEW r, Sound(q), Like(q, r), Place(q, r)
  PROVE  Sound(r) /\ (Scans(q) => Scans(r))
<1>1. Within(r)
  BY LikeWithin DEF Sound, Within, IsScanner, Place
<1>2. Nested(r)
  BY DEF Sound, Nested, Like, Place
<1>3. QED
  BY <1>1, <1>2 DEF Sound, Scans, Like

\* A list closes; the outermost one ends the FETCH.
LEMMA CloseSound ==
  ASSUME NEW q, Scans(q), q.mode = "fetch", q.state = "items"
  PROVE  Scans(closeLocked(q))
<1> DEFINE t == tokenLocked(q)
           c == [t EXCEPT !.depth = @ - 1, !.previous = "close"]
           d == [c EXCEPT !.phase = "done", !.flagsList = FALSE]
           e == [c EXCEPT !.state = "endCR"]
<1>1. Within(q) /\ IsScanner(q) /\ q.terminal = "none" /\ q.depth \in Nat /\ q.depth # 0
  BY DEF Sound, Scans, Within, Nested
<1>2. CASE t = refuseLocked(q, Bounds)
  <2>1. closeLocked(q) = refuseLocked(q, Bounds)
    BY <1>2 DEF closeLocked, Refused, refuseLocked, InitScanner, Bounds
  <2>2. QED
    BY <1>1, <2>1, RefuseAhead, Categories
<1>3. CASE Charged(q, t)
  <2>1. closeLocked(q) = CASE t.depth = 2 -> d [] t.depth = 1 -> e [] OTHER -> c
    <3>1. ~Refused(t)
      BY <1>1, <1>3, ChargedFields DEF Refused
    <3>2. QED
      BY <3>1 DEF closeLocked
  <2> HIDE DEF t
  <2>2. Within(t) /\ t.mode = "fetch" /\ t.state = "items" /\ t.depth = q.depth
    BY <1>1, <1>3, ChargedFields
  <2>3. /\ Like(t, c) /\ c.state = t.state /\ c.depth = t.depth - 1 /\ c.literal = t.literal /\ c.digits = t.digits
        /\ Like(t, d) /\ d.state = t.state /\ d.depth = t.depth - 1 /\ d.literal = t.literal /\ d.digits = t.digits
        /\ Like(t, e) /\ e.state = "endCR" /\ e.depth = t.depth - 1 /\ e.literal = t.literal /\ e.digits = t.digits
    BY <2>2 DEF Within, IsScanner, InitScanner, Like
  <2> HIDE DEF c, d, e
  <2>4. t.depth \in Nat /\ t.depth # 0 /\ t.depth - 1 \in Nat /\ t.depth - 1 <= Depth
        /\ (t.depth # 1 => t.depth - 1 # 0) /\ t.literal \in Nat /\ t.digits \in Nat
    BY <1>1, <2>2, Budgets DEF Within
  <2>5. Within(c) /\ Within(d) /\ Within(e)
    BY <2>2, <2>3, <2>4, LikeWithin DEF ScanStates
  <2>6. CASE t.depth = 2
    BY <2>1, <2>2, <2>3, <2>4, <2>5, <2>6 DEF Sound, Scans, Nested, Like
  <2>7. CASE t.depth = 1
    BY <2>1, <2>2, <2>3, <2>4, <2>5, <2>7 DEF Sound, Scans, Nested, Like
  <2>8. CASE t.depth # 2 /\ t.depth # 1
    BY <2>1, <2>2, <2>3, <2>4, <2>5, <2>8 DEF Sound, Scans, Nested, Like
  <2>9. QED
    BY <2>6, <2>7, <2>8
<1>4. QED
  BY <1>1, <1>2, <1>3, TokenCharges

\* An atom ends in place, or is refused.
LEMMA EndAtomPlace ==
  ASSUME NEW q, IsScanner(q)
  PROVE  LET r == endAtomLocked(q)
         IN \/ Like(q, r) /\ Place(q, r)
            \/ Scans(r) /\ r.terminal = Protocol
<1> DEFINE ended == [q EXCEPT !.previous = "token"]
           judged == CASE q.depth = 1 /\ q.phase = "name" -> nameLocked(ended)
                       [] q.depth = 1 /\ q.phase # "name" ->
                            IF quarantineNumber(q.text, FALSE)
                            THEN [ended EXCEPT !.uid = Value(q.text), !.phase = "done"]
                            ELSE refuseLocked(ended, Protocol)
                       [] q.depth # 1 /\ q.flagsList /\ ~quarantineFlag(q.text) ->
                            refuseLocked(ended, Protocol)
                       [] OTHER -> ended
           z == refuseLocked(q, Protocol)
<1>1. Like(q, ended) /\ Place(q, ended) /\ IsScanner(ended) /\ refuseLocked(ended, Protocol) = z
  BY DEF IsScanner, InitScanner, Like, Place, refuseLocked
<1>2. ASSUME NEW p, DOMAIN p = DOMAIN q
      PROVE  /\ Like(p, [p EXCEPT !.text = <<>>]) /\ Place(p, [p EXCEPT !.text = <<>>])
             /\ \A n, x, y : /\ Like(p, [p EXCEPT !.item = n, !.seen = x, !.phase = y])
                             /\ Place(p, [p EXCEPT !.item = n, !.seen = x, !.phase = y])
             /\ \A n, y : Like(p, [p EXCEPT !.uid = n, !.phase = y]) /\ Place(p, [p EXCEPT !.uid = n, !.phase = y])
  BY <1>2 DEF IsScanner, InitScanner, Like, Place
<1>3. Scans([z EXCEPT !.text = <<>>]) /\ [z EXCEPT !.text = <<>>].terminal = Protocol
  <2>1. Scans(z) /\ z.terminal = Protocol
    BY RefuseAhead, Categories DEF refuseLocked, InitScanner
  <2>2. DOMAIN z = DOMAIN q
    BY DEF refuseLocked, IsScanner, InitScanner
  <2> HIDE DEF z
  <2> DEFINE y == [z EXCEPT !.text = <<>>]
  <2>3. Like(z, y) /\ Place(z, y)
    BY <1>2, <2>2
  <2> HIDE DEF y
  <2>4. QED
    BY <2>1, <2>3, PlaceSound DEF Scans, Like, y
<1>4. endAtomLocked(q) = [judged EXCEPT !.text = <<>>]
  BY DEF endAtomLocked
<1> HIDE DEF ended, z
<1>5. \/ nameLocked(ended) = z
      \/ \E n, x : nameLocked(ended) = [ended EXCEPT !.item = n, !.seen = x, !.phase = "named"]
  BY <1>1 DEF nameLocked
<1>6. \/ judged = nameLocked(ended) \/ judged = z \/ judged = ended
      \/ judged = [ended EXCEPT !.uid = Value(q.text), !.phase = "done"]
  BY <1>1
<1> HIDE DEF judged
<1>7. judged = z \/ (Like(ended, judged) /\ Place(ended, judged))
  <2>1. DOMAIN ended = DOMAIN q /\ Like(ended, ended) /\ Place(ended, ended)
    BY <1>1 DEF Like, Place
  <2>2. /\ \A n, x, y : /\ Like(ended, [ended EXCEPT !.item = n, !.seen = x, !.phase = y])
                         /\ Place(ended, [ended EXCEPT !.item = n, !.seen = x, !.phase = y])
        /\ \A n, y : /\ Like(ended, [ended EXCEPT !.uid = n, !.phase = y])
                      /\ Place(ended, [ended EXCEPT !.uid = n, !.phase = y])
    BY <1>2, <2>1
  <2>3. nameLocked(ended) = z \/ (Like(ended, nameLocked(ended)) /\ Place(ended, nameLocked(ended)))
    <3>1. ASSUME NEW n, NEW x, nameLocked(ended) = [ended EXCEPT !.item = n, !.seen = x, !.phase = "named"]
          PROVE  Like(ended, nameLocked(ended)) /\ Place(ended, nameLocked(ended))
      <4>1. /\ Like(ended, [ended EXCEPT !.item = n, !.seen = x, !.phase = "named"])
            /\ Place(ended, [ended EXCEPT !.item = n, !.seen = x, !.phase = "named"])
        BY <2>2
      <4>2. QED
        BY <3>1, <4>1
    <3>2. QED
      BY <1>5, <3>1
  <2>4. QED
    <3> DEFINE u == [ended EXCEPT !.uid = Value(q.text), !.phase = "done"]
    <3>1. Like(ended, u) /\ Place(ended, u)
      BY <2>2
    <3>2. judged = nameLocked(ended) \/ judged = z \/ judged = ended \/ judged = u
      BY <1>6
    <3> HIDE DEF u
    <3>3. QED
      BY <2>1, <2>3, <3>1, <3>2
<1>8. CASE judged = z
  BY <1>3, <1>4, <1>8
<1>9. CASE Like(ended, judged) /\ Place(ended, judged)
  <2>1. DOMAIN judged = DOMAIN q
    BY <1>1, <1>9 DEF Like
  <2>2. QED
    BY <1>1, <1>2, <1>4, <1>9, <2>1 DEF Like, Place
<1>10. QED
  BY <1>7, <1>8, <1>9

\* A new state with the same lists open.
LEMMA StateSound ==
  ASSUME NEW q, Scans(q), q.mode = "fetch", NEW x \in ScanStates,
         q.state \in {"open", "endCR", "endLF"} <=> x \in {"open", "endCR", "endLF"},
         x # "literalSize", x = "literal" => q.literal > 0
  PROVE  LET r == [q EXCEPT !.state = x]
         IN /\ Scans(r) /\ Like(q, r) /\ r.state = x
            /\ r.depth = q.depth /\ r.literal = q.literal /\ r.digits = q.digits
<1> DEFINE r == [q EXCEPT !.state = x]
<1>1. Within(q) /\ Nested(q) /\ IsScanner(q)
  BY DEF Sound, Scans, Within
<1>2. Like(q, r) /\ r.state = x /\ r.depth = q.depth /\ r.literal = q.literal /\ r.digits = q.digits
  BY <1>1 DEF IsScanner, InitScanner, Like
<1> HIDE DEF r
<1>3. Within(r)
  BY <1>1, <1>2, LikeWithin DEF Within
<1>4. Nested(r)
  BY <1>1, <1>2 DEF Nested, Like
<1>5. QED
  BY <1>2, <1>3, <1>4 DEF Sound, Scans, Like, r

\* A token ends in the list it is in.
LEMMA TokenEndedSound ==
  ASSUME NEW q, Scans(q), q.mode = "fetch", q.state \notin {"open", "endCR", "endLF"}
  PROVE  LET r == TokenEnded(q)
         IN /\ Scans(r) /\ Like(q, r) /\ r.state = "items"
            /\ r.depth = q.depth /\ r.literal = q.literal /\ r.digits = q.digits
<1> DEFINE r == TokenEnded(q)
<1>1. Within(q) /\ Nested(q) /\ IsScanner(q)
  BY DEF Sound, Scans, Within
<1>2. Like(q, r) /\ r.state = "items" /\ r.depth = q.depth /\ r.literal = q.literal /\ r.digits = q.digits
  BY <1>1 DEF IsScanner, InitScanner, Like, TokenEnded
<1> HIDE DEF r
<1>3. Within(r)
  BY <1>1, <1>2, LikeWithin DEF Within, ScanStates
<1>4. Nested(r)
  BY <1>1, <1>2 DEF Nested, Like
<1>5. QED
  BY <1>2, <1>3, <1>4 DEF Sound, Scans, Like, r

\* The announced octets change, not the lists.
LEMMA OctetsSound ==
  ASSUME NEW q, Scans(q), q.mode = "fetch", q.state # "literalSize", NEW n \in Nat,
         q.state = "literal" => n > 0
  PROVE  LET r == [q EXCEPT !.literal = n]
         IN Scans(r) /\ Like(q, r) /\ r.state = q.state /\ r.depth = q.depth /\ r.literal = n
<1> DEFINE r == [q EXCEPT !.literal = n]
<1>1. Within(q) /\ Nested(q) /\ IsScanner(q)
  BY DEF Sound, Scans, Within
<1>2. Like(q, r) /\ r.state = q.state /\ r.depth = q.depth /\ r.literal = n /\ r.digits = q.digits
  BY <1>1 DEF IsScanner, InitScanner, Like
<1> HIDE DEF r
<1>3. Within(r)
  BY <1>1, <1>2, LikeWithin DEF Within, IsScanner
<1>4. Nested(r)
  BY <1>1, <1>2 DEF Nested, Like
<1>5. QED
  BY <1>2, <1>3, <1>4 DEF Sound, Scans, Like, r

\* One byte of a literal's size.
LEMMA LiteralSizeSound ==
  ASSUME NEW q, Scans(q), q.mode = "fetch", q.state = "literalSize", NEW b
  PROVE  Scans(literalSizeByteLocked(q, b))
<1>1. Within(q) /\ Nested(q) /\ IsScanner(q)
  BY DEF Sound, Scans, Within
<1>2. Scans([q EXCEPT !.state = "literalCR"])
  BY StateSound DEF ScanStates
<1>3. Scans(refuseLocked(q, Protocol))
  BY <1>1, RefuseAhead, Categories
<1>4. ASSUME b \in Digits
      PROVE  Scans([q EXCEPT !.digits = @ + 1, !.literal = 10 * @ + Digit[b]])
  <2> DEFINE r == [q EXCEPT !.digits = @ + 1, !.literal = 10 * @ + Digit[b]]
             n == 10 * q.literal + Digit[b]
  <2>1. Digit[b] \in Nat
    BY <1>4 DEF Digit, Digits
  <2>2. n \in Nat /\ q.digits + 1 \in Nat /\ q.digits + 1 # 0
    BY <1>1, <2>1 DEF Within
  <2>3. Like(q, r) /\ r.state = q.state /\ r.depth = q.depth /\ r.literal = n /\ r.digits = q.digits + 1
    BY <1>1 DEF IsScanner, InitScanner, Like
  <2> HIDE DEF r, n
  <2>4. Within(r)
    BY <1>1, <2>2, <2>3, LikeWithin DEF Within, IsScanner
  <2>5. Nested(r)
    BY <1>1, <2>2, <2>3 DEF Nested, Like
  <2>6. QED
    BY <2>4, <2>5 DEF Sound, Scans, r
<1>5. literalSizeByteLocked(q, b) \in {[q EXCEPT !.state = "literalCR"], refuseLocked(q, Protocol)}
        \/ (b \in Digits /\ literalSizeByteLocked(q, b)
                              = [q EXCEPT !.digits = @ + 1, !.literal = 10 * @ + Digit[b]])
  BY DEF literalSizeByteLocked
<1>6. QED
  BY <1>2, <1>3, <1>4, <1>5

\* One byte between the tokens.
LEMMA ItemsSound ==
  ASSUME NEW q, Scans(q), q.mode = "fetch", q.state = "items", NEW b
  PROVE  Scans(itemsByteLocked(q, b))
<1>1. Within(q) /\ Nested(q) /\ IsScanner(q)
  BY DEF Sound, Scans, Within
<1>2. Scans(refuseLocked(q, Protocol))
  BY <1>1, RefuseAhead, Categories
<1>3. ASSUME NEW p PROVE Scans([q EXCEPT !.previous = "space", !.phase = p])
  <2> DEFINE r == [q EXCEPT !.previous = "space", !.phase = p]
  <2>1. Like(q, r) /\ Place(q, r)
    BY <1>1 DEF IsScanner, InitScanner, Like, Place
  <2> HIDE DEF r
  <2>2. QED
    BY <2>1, PlaceSound DEF Scans, r
<1>4. ASSUME NEW f PROVE Scans(openLocked([q EXCEPT !.flagsList = f]))
  <2> DEFINE r == [q EXCEPT !.flagsList = f]
  <2>1. Like(q, r) /\ Place(q, r)
    BY <1>1 DEF IsScanner, InitScanner, Like, Place
  <2> HIDE DEF r
  <2>2. Scans(r) /\ r.mode = "fetch" /\ r.state = "items"
    BY <2>1, PlaceSound DEF Scans, Like, Place
  <2>3. QED
    BY <2>2, OpenSound DEF Sound, Scans, r
<1>5. /\ Scans([q EXCEPT !.state = "quoted"])
      /\ Scans([q EXCEPT !.state = "literalSize", !.literal = 0, !.digits = 0])
      /\ Scans([q EXCEPT !.state = "atom", !.text = <<b>>])
  <2>1. Scans([q EXCEPT !.state = "quoted"])
    BY StateSound DEF ScanStates
  <2> DEFINE l == [q EXCEPT !.state = "literalSize", !.literal = 0, !.digits = 0]
             a == [q EXCEPT !.state = "atom", !.text = <<b>>]
  <2>2. /\ Like(q, l) /\ l.state = "literalSize" /\ l.depth = q.depth /\ l.literal = 0 /\ l.digits = 0
        /\ Like(q, a) /\ a.state = "atom" /\ a.depth = q.depth /\ a.literal = q.literal /\ a.digits = q.digits
    BY <1>1 DEF IsScanner, InitScanner, Like
  <2> HIDE DEF l, a
  <2>3. Within(l) /\ Within(a)
    BY <1>1, <2>2, LikeWithin DEF Within, ScanStates
  <2>4. Nested(l) /\ Nested(a)
    BY <1>1, <2>2 DEF Nested, Like
  <2>5. QED
    BY <2>1, <2>3, <2>4 DEF Sound, Scans, l, a
<1>6. CASE b = " "
  BY <1>2, <1>3, <1>6 DEF itemsByteLocked
<1>7. CASE b = "("
  BY <1>2, <1>4, <1>7 DEF itemsByteLocked
<1>8. CASE b = ")"
  BY <1>2, <1>8, CloseSound DEF itemsByteLocked
<1>9. CASE b \notin {" ", "(", ")"}
  BY <1>2, <1>5, <1>9, TokenSound DEF itemsByteLocked
<1>10. QED
  BY <1>6, <1>7, <1>8, <1>9

\* A FETCH that is complete leaves its counts.
LEMMA CompleteFetchSound ==
  ASSUME NEW q, Within(q), q.mode = "fetch"
  PROVE  Scans(completeFetchLocked(q))
<1> DEFINE r == releaseLocked(q)
           d == [r EXCEPT !.dispatch = "delivered", !.structures = @ + 1]
           w == [q EXCEPT !.mode = "between"]
<1>1. IsScanner(q) /\ IsScanner(completeFetchLocked(q))
  BY CompleteFetchBooks DEF Within, Books
<1>2. completeFetchLocked(q) \in {refuseLocked(q, Protocol), d, w}
  BY DEF completeFetchLocked
<1>3. /\ d.mode = "between" /\ d.sessionBytes = q.sessionBytes /\ d.responses = q.responses
      /\ d.work = q.work /\ d.frame = q.frame /\ d.tokens = q.tokens /\ d.depth = q.depth
      /\ d.literal = q.literal /\ d.digits = q.digits
  BY <1>1 DEF IsScanner, InitScanner, releaseLocked
<1>4. /\ w.mode = "between" /\ w.sessionBytes = q.sessionBytes /\ w.responses = q.responses
      /\ w.work = q.work /\ w.frame = q.frame /\ w.tokens = q.tokens /\ w.depth = q.depth
      /\ w.literal = q.literal /\ w.digits = q.digits
  BY <1>1 DEF IsScanner, InitScanner
<1> HIDE DEF d, w
<1>5. completeFetchLocked(q) \in {d, w} => Scans(completeFetchLocked(q))
  BY <1>1, <1>3, <1>4 DEF Sound, Scans, Within, Nested
<1>6. Scans(refuseLocked(q, Protocol))
  BY <1>1, RefuseAhead, Categories
<1>7. QED
  BY <1>2, <1>5, <1>6

\* One byte of a FETCH.
LEMMA FetchByteSound ==
  ASSUME NEW q, Scans(q), q.mode = "fetch", NEW b
  PROVE  Scans(fetchByteLocked(q, b))
<1>1. Within(q) /\ Nested(q) /\ IsScanner(q)
  BY DEF Sound, Scans, Within
<1>2. Scans(refuseLocked(q, Protocol)) /\ Scans(refuseLocked(q, Bounds))
  BY <1>1, RefuseAhead, Categories
<1>3. CASE q.state = "open"
  <2> DEFINE r == [q EXCEPT !.state = "items"]
  <2>1. Like(q, r) /\ r.state = "items" /\ r.depth = q.depth /\ r.literal = q.literal /\ r.digits = q.digits
    BY <1>1 DEF IsScanner, InitScanner, Like
  <2> HIDE DEF r
  <2>2. Within(r) /\ r.mode = "fetch"
    BY <1>1, <2>1, LikeWithin DEF Within, ScanStates, Like
  <2>3. Scans(openLocked(r))
    BY <2>1, <2>2, OpenSound
  <2>4. QED
    BY <1>2, <1>3, <2>3 DEF fetchByteLocked, Expect, r
<1>4. CASE q.state = "items"
  BY <1>4, ItemsSound DEF fetchByteLocked
<1>5. CASE q.state = "atom"
  <2> DEFINE a == [q EXCEPT !.text = Append(@, b)]
             ended == endAtomLocked(q)
             between == [ended EXCEPT !.state = "items"]
  <2>1. Scans(a)
    <3>1. Like(q, a) /\ Place(q, a)
      BY <1>1 DEF IsScanner, InitScanner, Like, Place
    <3> HIDE DEF a
    <3>2. QED
      BY <3>1, PlaceSound DEF Scans
  <2>2. Scans(ended)
    BY <1>1, EndAtomPlace, PlaceSound DEF Scans
  <2>3. ASSUME ~Refused(ended) PROVE Scans(itemsByteLocked(between, b))
    <3>1. Like(q, ended) /\ Place(q, ended)
      BY <1>1, <2>3, EndAtomPlace DEF Refused, Protocol
    <3> HIDE DEF ended
    <3>2. ended.mode = "fetch" /\ ended.state = "atom"
      BY <1>5, <3>1 DEF Like, Place
    <3>3. Scans(between) /\ Like(ended, between) /\ between.state = "items"
      BY <2>2, <3>2, StateSound DEF ScanStates
    <3> HIDE DEF between
    <3>4. QED
      BY <3>2, <3>3, ItemsSound DEF Like
  <2>4. fetchByteLocked(q, b) \in {refuseLocked(q, Bounds), a, ended}
          \/ (~Refused(ended) /\ fetchByteLocked(q, b) = itemsByteLocked(between, b))
    BY <1>5 DEF fetchByteLocked
  <2> HIDE DEF a, ended, between
  <2>5. QED
    BY <1>2, <2>1, <2>2, <2>3, <2>4
<1>6. CASE q.state = "quoted"
  <2>1. Scans([q EXCEPT !.state = "escape"]) /\ Scans(TokenEnded(q))
    BY <1>6, StateSound, TokenEndedSound DEF ScanStates
  <2>2. QED
    BY <1>2, <1>6, <2>1 DEF fetchByteLocked
<1>7. CASE q.state = "escape"
  <2>1. Scans([q EXCEPT !.state = "quoted"])
    BY <1>7, StateSound DEF ScanStates
  <2>2. QED
    BY <1>2, <1>7, <2>1 DEF fetchByteLocked
<1>8. CASE q.state = "literalSize"
  BY <1>8, LiteralSizeSound DEF fetchByteLocked
<1>9. CASE q.state = "literalCR"
  <2>1. Scans([q EXCEPT !.state = "literalLF"])
    BY <1>9, StateSound DEF ScanStates
  <2>2. QED
    BY <1>2, <1>9, <2>1 DEF fetchByteLocked, Expect
<1>10. CASE q.state = "literalLF"
  <2>1. Scans(TokenEnded(q))
    BY <1>10, TokenEndedSound
  <2>2. ASSUME q.literal # 0 PROVE Scans([q EXCEPT !.state = "literal"])
    <3>1. q.literal > 0
      BY <1>1, <2>2 DEF Within
    <3>2. QED
      BY <1>10, <3>1, StateSound DEF ScanStates
  <2>3. QED
    BY <1>2, <1>10, <2>1, <2>2 DEF fetchByteLocked, Expect
<1>11. CASE q.state = "literal"
  <2>1. Scans([TokenEnded(q) EXCEPT !.literal = 0])
    <3> DEFINE r == TokenEnded(q)
    <3>1. Scans(r) /\ r.mode = "fetch" /\ r.state = "items"
      BY <1>11, TokenEndedSound DEF Like
    <3> HIDE DEF r
    <3>2. Scans([r EXCEPT !.literal = 0])
      BY <3>1, OctetsSound
    <3>3. QED
      BY <3>2 DEF r
  <2>2. ASSUME q.literal # 1 PROVE Scans([q EXCEPT !.literal = @ - 1])
    <3>1. q.literal - 1 \in Nat /\ q.literal - 1 > 0
      BY <1>1, <1>11, <2>2 DEF Within, Nested
    <3>2. Scans([q EXCEPT !.literal = q.literal - 1])
      BY <1>11, <3>1, OctetsSound
    <3>3. [q EXCEPT !.literal = @ - 1] = [q EXCEPT !.literal = q.literal - 1]
      BY <1>1 DEF IsScanner, InitScanner
    <3>4. QED
      BY <3>2, <3>3
  <2>3. QED
    BY <1>11, <2>1, <2>2 DEF fetchByteLocked
<1>12. CASE q.state = "endCR"
  <2>1. Scans([q EXCEPT !.state = "endLF"])
    BY <1>12, StateSound DEF ScanStates
  <2>2. QED
    BY <1>2, <1>12, <2>1 DEF fetchByteLocked, Expect
<1>13. CASE q.state = "endLF"
  BY <1>1, <1>2, <1>13, CompleteFetchSound DEF fetchByteLocked, Expect
<1>14. QED
  BY <1>1, <1>3, <1>4, <1>5, <1>6, <1>7, <1>8, <1>9, <1>10, <1>11, <1>12, <1>13 DEF IsScanner,
     ScanStates

\* What a completion takes.
LEMMA NeedsBytes ==
  ASSUME NEW q, Within(q)
  PROVE  BytesNeeded(q) \in Nat /\ BytesNeeded(q) > 0 /\ Closing(q) \in Nat
BY DEF Within, BytesNeeded, Closing

\* A FETCH that goes on is refused unless it fits.
LEMMA FeasibleAhead ==
  ASSUME NEW q, Sound(q), q.mode = "fetch"
  PROVE  Ahead(fetchFeasibleLocked(q)) /\ (Fits(q) => fetchFeasibleLocked(q) = q)
<1>1. Within(q) /\ IsScanner(q)
  BY DEF Sound, Within
<1>2. BytesNeeded(q) \in Nat /\ Closing(q) \in Nat
  BY <1>1, NeedsBytes
<1>3. q.frame \in Nat /\ q.sessionBytes \in Nat /\ q.tokens \in Nat /\ q.work \in Nat
  BY <1>1 DEF Within, IsScanner
<1> DEFINE over == \/ q.frame + BytesNeeded(q) > FrameBytes
                   \/ q.sessionBytes + BytesNeeded(q) > SessionBytes
                   \/ q.tokens + Closing(q) > FetchTokens
                   \/ q.work + Closing(q) > WorkUnits
<1>4. fetchFeasibleLocked(q) = IF over THEN refuseLocked(q, Bounds) ELSE q
  BY DEF fetchFeasibleLocked, Closing
<1>5. ~over <=> Fits(q)
  BY <1>2, <1>3, Budgets DEF Fits
<1> HIDE DEF over
<1>6. Ahead(refuseLocked(q, Bounds))
  BY <1>1, RefuseAhead, Categories
<1>7. QED
  BY <1>4, <1>5, <1>6 DEF Ahead

\* So is a line.
LEMMA LineAhead ==
  ASSUME NEW q, Sound(q), q.mode = "line", q.work < WorkUnits
  PROVE  Ahead(LineFeasible(q)) /\ (Fits(q) => LineFeasible(q) = q)
<1>1. Within(q) /\ IsScanner(q)
  BY DEF Sound, Within
<1>2. LineNeeds(q) \in Nat
  BY DEF LineNeeds
<1>3. q.frame \in Nat /\ q.sessionBytes \in Nat
  BY <1>1 DEF Within, IsScanner
<1> DEFINE over == \/ q.frame + LineNeeds(q) > ControlBytes
                   \/ q.sessionBytes + LineNeeds(q) > SessionBytes
<1>4. LineFeasible(q) = IF over THEN refuseLocked(q, Bounds) ELSE q
  BY DEF LineFeasible, LineNeeds
<1>5. ~over <=> Fits(q)
  BY <1>2, <1>3, Budgets DEF Fits
<1> HIDE DEF over
<1>6. Ahead(refuseLocked(q, Bounds))
  BY <1>1, RefuseAhead, Categories
<1>7. QED
  BY <1>4, <1>5, <1>6 DEF Ahead

\* A control line that is complete leaves its counts, and one unit of work.
LEMMA CompleteLineAhead ==
  ASSUME NEW q, Within(q), q.work < WorkUnits
  PROVE  Ahead(completeLineLocked(q))
<1> DEFINE r == releaseLocked([q EXCEPT !.work = @ + 1])
<1>1. IsScanner(q) /\ IsScanner(completeLineLocked(q))
  BY CompleteLineBooks DEF Within, Books
<1>2. completeLineLocked(q) \in {refuseLocked(q, Protocol), r}
  BY DEF completeLineLocked
<1>3. /\ r.mode = "between" /\ r.sessionBytes = q.sessionBytes /\ r.responses = q.responses
      /\ r.work = q.work + 1 /\ r.frame = q.frame /\ r.tokens = q.tokens /\ r.depth = q.depth
      /\ r.literal = q.literal /\ r.digits = q.digits
  BY <1>1 DEF IsScanner, InitScanner, releaseLocked
<1> HIDE DEF r
<1>4. q.work + 1 \in Nat /\ q.work + 1 <= WorkUnits
  BY Budgets DEF Within
<1>5. completeLineLocked(q) = r => Ahead(completeLineLocked(q))
  <2>1. completeLineLocked(q) = r => Within(r)
    BY <1>1, <1>3, <1>4 DEF Within
  <2>2. Nested(r) /\ Fits(r)
    BY <1>3 DEF Nested, Fits
  <2>3. QED
    BY <2>1, <2>2 DEF Ahead, Sound
<1>6. Ahead(refuseLocked(q, Protocol))
  BY <1>1, RefuseAhead, Categories
<1>7. QED
  BY <1>2, <1>5, <1>6

\* A FETCH starts with no list open and no token charged.
LEMMA StartFetchSound ==
  ASSUME NEW q, Within(q), q.mode = "line"
  PROVE  Sound(startFetchLocked(q)) /\ startFetchLocked(q).mode = "fetch"
<1> DEFINE r == startFetchLocked(q)
<1>1. IsScanner(q) /\ IsScanner(r)
  BY StartKeeps DEF Within, Keeps
<1>2. /\ r.mode = "fetch" /\ r.sessionBytes = q.sessionBytes /\ r.responses = q.responses
      /\ r.work = q.work /\ r.frame = q.frame /\ r.tokens = 0 /\ r.depth = 0 /\ r.state = "open"
      /\ r.literal = q.literal /\ r.digits = q.digits /\ r.terminal = q.terminal
  BY <1>1 DEF IsScanner, InitScanner, startFetchLocked
<1> HIDE DEF r
<1>3. Within(r)
  BY <1>1, <1>2, Budgets DEF Within
<1>4. Nested(r)
  BY <1>2 DEF Nested
<1>5. QED
  BY <1>2, <1>3, <1>4 DEF Sound, r

\* One byte of a line.
LEMMA LineByteAhead ==
  ASSUME NEW q, Sound(q), q.mode = "line", q.work < WorkUnits, NEW b
  PROVE  Ahead(lineByteLocked(q, b))
<1> DEFINE spaced == [q EXCEPT !.lineSpaces = @ + 1]
           ended == [q EXCEPT !.lineCR = TRUE]
<1>1. Within(q) /\ IsScanner(q)
  BY DEF Sound, Within
<1>2. Like(q, spaced) /\ Place(q, spaced) /\ Like(q, ended) /\ Place(q, ended)
  BY <1>1 DEF IsScanner, InitScanner, Like, Place
<1>3. lineByteLocked(q, b) \in
        {completeLineLocked(q), refuseLocked(q, Protocol), LineFeasible(ended),
         refuseLocked(spaced, Protocol), fetchFeasibleLocked(startFetchLocked(spaced)),
         LineFeasible(spaced), LineFeasible(q)}
  BY DEF lineByteLocked
<1> HIDE DEF spaced, ended
<1>4. /\ Sound(spaced) /\ spaced.mode = "line" /\ spaced.work < WorkUnits /\ IsScanner(spaced)
      /\ Sound(ended) /\ ended.mode = "line" /\ ended.work < WorkUnits
  BY <1>2, PlaceSound DEF Like, Sound, Within
<1>5. Ahead(LineFeasible(spaced)) /\ Ahead(LineFeasible(ended)) /\ Ahead(LineFeasible(q))
  BY <1>4, LineAhead
<1>6. Ahead(fetchFeasibleLocked(startFetchLocked(spaced)))
  BY <1>4, StartFetchSound, FeasibleAhead DEF Sound
<1>7. Ahead(refuseLocked(q, Protocol)) /\ Ahead(refuseLocked(spaced, Protocol))
  BY <1>1, <1>4, RefuseAhead, Categories
<1>8. Ahead(completeLineLocked(q))
  BY <1>1, CompleteLineAhead
<1>9. QED
  BY <1>3, <1>5, <1>6, <1>7, <1>8

\* The parts of feedLocked: what it is given to read, one byte longer.
Grown(q) ==
  LET begun == IF q.mode = "between" THEN startResponseLocked(q) ELSE q
  IN [begun EXCEPT !.sessionBytes = @ + 1, !.frame = @ + 1]

\* The same, for a line.
Written(q, b) == [Grown(q) EXCEPT !.text = Append(@, b)]

\* The budget checks before a byte.
Full(q) == \/ q.sessionBytes = SessionBytes
           \/ q.mode = "between" /\ (q.responses = Responses \/ q.work = WorkUnits)

\* feedLocked, without Applied.
LEMMA FeedCases ==
  ASSUME NEW q, NEW b
  PROVE  /\ Full(q) => feedLocked(q, b) = refuseLocked(q, Bounds)
         /\ ~Full(q) /\ q.mode = "fetch" =>
              LET f == fetchByteLocked(Grown(q), b)
              IN feedLocked(q, b) = IF ~Refused(f) /\ f.mode = "fetch" THEN fetchFeasibleLocked(f) ELSE f
         /\ ~Full(q) /\ q.mode # "fetch" => feedLocked(q, b) = lineByteLocked(Written(q, b), b)
BY DEF feedLocked, Applied, Grown, Written, Full

\* The byte is counted within the budgets.
LEMMA GrownSound ==
  ASSUME NEW q, Ahead(q), ~Refused(q), ~Full(q)
  PROVE  LET g == Grown(q)
         IN /\ Sound(g) /\ g.sessionBytes = q.sessionBytes + 1
            /\ q.mode = "between" => g.mode = "line" /\ g.frame = 1 /\ g.work < WorkUnits
            /\ q.mode # "between" =>
                 /\ g.mode = q.mode /\ g.frame = q.frame + 1 /\ Place(q, g)
                 /\ g.work = q.work /\ g.tokens = q.tokens /\ g.terminal = "none" /\ g.lineCR = q.lineCR
<1> DEFINE g == Grown(q)
<1>1. Within(q) /\ Nested(q) /\ IsScanner(q) /\ q.terminal = "none" /\ Fits(q)
  BY DEF Ahead, Sound, Within, Refused
<1>2. q.sessionBytes + 1 \in Nat /\ q.sessionBytes + 1 <= SessionBytes
  BY <1>1, Budgets DEF Within, Full
<1>3. CASE q.mode = "between"
  <2>1. /\ DOMAIN g = DOMAIN q /\ g.mode = "line" /\ g.sessionBytes = q.sessionBytes + 1
        /\ g.responses = q.responses + 1 /\ g.frame = 0 + 1 /\ g.work = q.work
        /\ g.tokens = q.tokens /\ g.depth = q.depth /\ g.literal = q.literal /\ g.digits = q.digits
        /\ g.state = q.state /\ g.terminal = q.terminal /\ g.pending = q.pending
        /\ g.approved = q.approved /\ g.structures = q.structures /\ g.dispatch = q.dispatch
    BY <1>1, <1>3 DEF Grown, startResponseLocked, IsScanner, InitScanner
  <2> HIDE DEF g
  <2>2. q.responses + 1 \in Nat /\ q.responses + 1 <= Responses /\ q.work < WorkUnits
    BY <1>1, <1>3, Budgets DEF Within, Full
  <2>3. Within(g)
    BY <1>1, <1>2, <2>1, <2>2, Budgets DEF Within, IsScanner
  <2>4. Nested(g)
    BY <2>1 DEF Nested
  <2>5. QED
    BY <1>3, <2>1, <2>2, <2>3, <2>4 DEF Sound, g
<1>4. CASE q.mode # "between"
  <2>1. /\ DOMAIN g = DOMAIN q /\ g.mode = q.mode /\ g.sessionBytes = q.sessionBytes + 1
        /\ g.responses = q.responses /\ g.frame = q.frame + 1 /\ g.work = q.work
        /\ g.tokens = q.tokens /\ Place(q, g) /\ g.terminal = q.terminal /\ g.pending = q.pending
        /\ g.approved = q.approved /\ g.structures = q.structures /\ g.dispatch = q.dispatch
        /\ g.lineCR = q.lineCR
    BY <1>1, <1>4 DEF Grown, IsScanner, InitScanner, Place
  <2> HIDE DEF g
  <2>2. q.frame + 1 \in Nat /\ q.frame + 1 <= FrameBytes
    <3>1. q.frame \in Nat
      BY <1>1 DEF IsScanner
    <3>2. CASE q.mode = "line"
      BY <1>1, <3>1, <3>2, Budgets DEF Fits, LineNeeds
    <3>3. CASE q.mode = "fetch"
      BY <1>1, <3>1, <3>3, NeedsBytes, Budgets DEF Fits
    <3>4. QED
      BY <1>1, <1>4, <3>2, <3>3 DEF Within
  <2>3. Within(g)
    BY <1>1, <1>2, <2>1, <2>2 DEF Within, IsScanner, Place
  <2>4. Nested(g)
    BY <1>1, <2>1 DEF Nested, Place
  <2>5. QED
    BY <1>1, <1>4, <2>1, <2>3, <2>4 DEF Sound, g
<1>5. QED
  BY <1>3, <1>4

\* The line with its new byte.
LEMMA WrittenSound ==
  ASSUME NEW q, Ahead(q), ~Refused(q), ~Full(q), q.mode # "fetch", NEW b
  PROVE  LET w == Written(q, b)
         IN /\ Sound(w) /\ w.mode = "line" /\ w.work < WorkUnits
            /\ w.sessionBytes = q.sessionBytes + 1
            /\ q.mode = "line" => w.frame = q.frame + 1 /\ w.lineCR = q.lineCR
<1> DEFINE g == Grown(q)
           w == Written(q, b)
<1>1. /\ Sound(g) /\ g.mode = "line" /\ g.work < WorkUnits /\ g.sessionBytes = q.sessionBytes + 1
      /\ q.mode = "line" => g.frame = q.frame + 1 /\ g.lineCR = q.lineCR
  BY GrownSound DEF Ahead, Sound, Within, Fits
<1>2. w = [g EXCEPT !.text = Append(@, b)]
  BY DEF Written
<1> HIDE DEF g, w
<1>3. Like(g, w) /\ Place(g, w) /\ w.lineCR = g.lineCR
  BY <1>1, <1>2 DEF Sound, Within, IsScanner, InitScanner, Like, Place
<1>4. Sound(w)
  BY <1>1, <1>3, PlaceSound
<1>5. QED
  BY <1>1, <1>3, <1>4 DEF Like, w

\* After every byte the frame in progress can still end within the budgets.
LEMMA FeedAhead ==
  ASSUME NEW q, Ahead(q), ~Refused(q), NEW b
  PROVE  Ahead(feedLocked(q, b))
<1>1. IsScanner(q)
  BY DEF Ahead, Sound, Within
<1>2. CASE Full(q)
  BY <1>1, <1>2, FeedCases, RefuseAhead, Categories
<1>3. CASE ~Full(q) /\ q.mode = "fetch"
  <2> DEFINE g == Grown(q)
             f == fetchByteLocked(g, b)
  <2>1. feedLocked(q, b) = IF ~Refused(f) /\ f.mode = "fetch" THEN fetchFeasibleLocked(f) ELSE f
    BY <1>3, FeedCases
  <2>2. Sound(g) /\ g.mode = "fetch"
    BY <1>3, GrownSound
  <2> HIDE DEF g
  <2>3. Scans(f) /\ Sound(f)
    BY <2>2, FetchByteSound DEF Scans
  <2> HIDE DEF f
  <2>4. CASE f.mode = "fetch"
    <3>1. ~Refused(f)
      BY <2>3, <2>4 DEF Sound, Within, Refused
    <3>2. QED
      BY <2>1, <2>3, <2>4, <3>1, FeasibleAhead
  <2>5. CASE f.mode # "fetch"
    <3>1. feedLocked(q, b) = f
      BY <2>1, <2>5
    <3>2. f.mode # "line"
      BY <2>3 DEF Scans
    <3>3. QED
      BY <2>3, <2>5, <3>1, <3>2 DEF Ahead, Fits
  <2>6. QED
    BY <2>4, <2>5
<1>4. CASE ~Full(q) /\ q.mode # "fetch"
  BY <1>4, FeedCases, WrittenSound, LineByteAhead
<1>5. QED
  BY <1>2, <1>3, <1>4

-----------------------------------------------------------------------------
(* The Ending of a frame, one byte at a time.                              *)

\* The lists of a FETCH closed and its CRLF; before them the octets of a literal.
ListsClosed(n) == Repeat(")", n) \o <<"CR", "LF">>
Octets(n, d) == Repeat("word", n) \o ListsClosed(d)

\* A repeated byte, and the repetition one shorter.
LEMMA RepeatStep ==
  ASSUME NEW U, NEW b \in U, NEW n \in Nat
  PROVE  /\ Repeat(b, n) \in Seq(U) /\ Repeat(b, 0) = <<>>
         /\ Repeat(b, n + 1) = <<b>> \o Repeat(b, n)
<1>1. \A m \in Nat : Repeat(b, m) \in Seq(U) /\ Len(Repeat(b, m)) = m
                       /\ \A i \in 1 .. m : Repeat(b, m)[i] = b
  BY DEF Repeat
<1>2. Repeat(b, 0) = <<>>
  <2>1. Repeat(b, 0) \in Seq(U) /\ Len(Repeat(b, 0)) = 0
    BY <1>1
  <2>2. QED
    BY <2>1, EmptySeq
<1>3. <<b>> \in Seq(U) /\ Len(<<b>>) = 1 /\ <<b>>[1] = b
  OBVIOUS
<1> DEFINE c == <<b>> \o Repeat(b, n)
<1>4. /\ c \in Seq(U) /\ Len(c) = 1 + n
      /\ \A i \in 1 .. 1 + n : c[i] = IF i <= 1 THEN <<b>>[i] ELSE Repeat(b, n)[i - 1]
  <2>1. Repeat(b, n) \in Seq(U) /\ Len(Repeat(b, n)) = n
    BY <1>1
  <2>2. QED
    BY <1>3, <2>1, ConcatProperties
<1>5. ASSUME NEW i \in 1 .. n + 1 PROVE c[i] = b
  <2>1. CASE i = 1
    BY <1>3, <1>4, <2>1
  <2>2. CASE i # 1
    <3>1. i \in 1 .. 1 + n /\ ~(i <= 1) /\ i - 1 \in 1 .. n
      BY <2>2
    <3> HIDE DEF c
    <3>2. QED
      BY <1>1, <1>4, <3>1
  <2>3. QED
    BY <2>1, <2>2
<1> HIDE DEF c
<1>6. /\ Repeat(b, n + 1) \in Seq(U) /\ Len(Repeat(b, n + 1)) = Len(c)
      /\ \A i \in 1 .. Len(c) : Repeat(b, n + 1)[i] = c[i]
  <2>1. n + 1 \in Nat /\ 1 + n = n + 1
    OBVIOUS
  <2>2. QED
    BY <1>1, <1>4, <1>5, <2>1
<1>7. Repeat(b, n + 1) = c
  BY <1>4, <1>6, SeqEqual
<1>8. QED
  BY <1>1, <1>2, <1>7 DEF c

\* Longer tuples are their first element and the rest.
LEMMA TripleConcat ==
  ASSUME NEW x, NEW y, NEW z PROVE <<x, y, z>> = <<x>> \o <<y, z>>
<1> DEFINE U == {x, y, z}
<1>1. <<x>> \in Seq(U) /\ <<y, z>> \in Seq(U) /\ <<x, y, z>> \in Seq(U)
  OBVIOUS
<1>2. Len(<<x>>) = 1 /\ Len(<<y, z>>) = 2 /\ Len(<<x, y, z>>) = 3
  OBVIOUS
<1> DEFINE c == <<x>> \o <<y, z>>
<1>3. c \in Seq(U) /\ Len(c) = 3 /\ c[1] = x /\ c[2] = y /\ c[3] = z
  BY <1>1, <1>2, ConcatProperties
<1> HIDE DEF c
<1>4. \A i \in 1 .. 3 : c[i] = <<x, y, z>>[i]
  BY <1>3
<1>5. QED
  BY <1>1, <1>2, <1>3, <1>4, SeqEqual DEF c

\* The same for four elements.
LEMMA QuadConcat ==
  ASSUME NEW w, NEW x, NEW y, NEW z PROVE <<w, x, y, z>> = <<w>> \o <<x, y, z>>
<1> DEFINE U == {w, x, y, z}
<1>1. <<w>> \in Seq(U) /\ <<x, y, z>> \in Seq(U) /\ <<w, x, y, z>> \in Seq(U)
  OBVIOUS
<1>2. Len(<<w>>) = 1 /\ Len(<<x, y, z>>) = 3 /\ Len(<<w, x, y, z>>) = 4
  OBVIOUS
<1> DEFINE c == <<w>> \o <<x, y, z>>
<1>3. c \in Seq(U) /\ Len(c) = 4 /\ c[1] = w /\ c[2] = x /\ c[3] = y /\ c[4] = z
  BY <1>1, <1>2, ConcatProperties
<1> HIDE DEF c
<1>4. \A i \in 1 .. 4 : c[i] = <<w, x, y, z>>[i]
  BY <1>3
<1>5. QED
  BY <1>1, <1>2, <1>3, <1>4, SeqEqual DEF c

\* The closing of n lists starts with the one of the innermost.
LEMMA ClosesOne ==
  ASSUME NEW n \in Nat
  PROVE  /\ ListsClosed(n) \in Seq(Bytes) /\ ListsClosed(n + 1) = <<")">> \o ListsClosed(n)
         /\ ListsClosed(0) = <<"CR">> \o <<"LF">>
<1>1. ")" \in Bytes /\ "CR" \in Bytes /\ "LF" \in Bytes
  <2>1. ")" \in Specials /\ "CR" \in Specials /\ "LF" \in Specials
    BY Zenon DEF Specials
  <2>2. QED
    BY <2>1, Zenon DEF Bytes
<1>2. /\ <<"CR", "LF">> \in Seq(Bytes) /\ Repeat(")", n) \in Seq(Bytes) /\ <<")">> \in Seq(Bytes)
      /\ Repeat(")", n + 1) = <<")">> \o Repeat(")", n) /\ Repeat(")", 0) = <<>>
  <2>1. <<"CR", "LF">> \in Seq(Bytes) /\ <<")">> \in Seq(Bytes)
    BY <1>1
  <2>2. QED
    BY <1>1, <2>1, RepeatStep
<1>3. (<<")">> \o Repeat(")", n)) \o <<"CR", "LF">> = <<")">> \o (Repeat(")", n) \o <<"CR", "LF">>)
  BY <1>2, ConcatAssociative
<1>4. <<>> \o <<"CR", "LF">> = <<"CR", "LF">> /\ <<"CR", "LF">> = <<"CR">> \o <<"LF">>
  BY <1>2, ConcatEmptySeq, PairConcat
<1>5. Repeat(")", n) \o <<"CR", "LF">> \in Seq(Bytes)
  BY <1>2, ConcatProperties
<1>6. QED
  BY <1>2, <1>3, <1>4, <1>5 DEF ListsClosed

\* The octets of a literal start with one of them.
LEMMA OctetsOne ==
  ASSUME NEW n \in Nat, NEW d \in Nat
  PROVE  /\ Octets(n, d) \in Seq(Bytes) /\ Octets(n + 1, d) = <<"word">> \o Octets(n, d)
         /\ Octets(0, d) = ListsClosed(d)
<1>1. "word" \in Bytes
  BY DEF Bytes, Words
<1>2. /\ ListsClosed(d) \in Seq(Bytes) /\ Repeat("word", n) \in Seq(Bytes) /\ <<"word">> \in Seq(Bytes)
      /\ Repeat("word", n + 1) = <<"word">> \o Repeat("word", n) /\ Repeat("word", 0) = <<>>
  <2>1. ListsClosed(d) \in Seq(Bytes)
    BY ClosesOne
  <2>2. <<"word">> \in Seq(Bytes)
    BY <1>1
  <2>3. QED
    BY <1>1, <2>1, <2>2, RepeatStep
<1>3. (<<"word">> \o Repeat("word", n)) \o ListsClosed(d) = <<"word">> \o (Repeat("word", n) \o ListsClosed(d))
  BY <1>2, ConcatAssociative
<1>4. <<>> \o ListsClosed(d) = ListsClosed(d)
  BY <1>2, ConcatEmptySeq
<1>5. Repeat("word", n) \o ListsClosed(d) \in Seq(Bytes)
  BY <1>2, ConcatProperties
<1>6. QED
  BY <1>2, <1>3, <1>4, <1>5 DEF Octets

\* A byte before a sequence.
LEMMA Prepend ==
  ASSUME NEW U, NEW x \in U, NEW c \in Seq(U), NEW d \in Seq(U)
  PROVE  /\ <<x>> \in Seq(U) /\ <<x>> \o c \in Seq(U) /\ c \o d \in Seq(U)
         /\ (<<x>> \o c) \o d = <<x>> \o (c \o d)
<1>1. <<x>> \in Seq(U)
  OBVIOUS
<1>2. QED
  BY <1>1, ConcatProperties, ConcatAssociative

\* Two bytes before a sequence.
LEMMA PrependTwo ==
  ASSUME NEW U, NEW x \in U, NEW y \in U, NEW c \in Seq(U), NEW d \in Seq(U)
  PROVE  /\ (<<x>> \o <<y>>) \o c = <<x>> \o (<<y>> \o c)
         /\ ((<<x>> \o <<y>>) \o c) \o d = <<x>> \o (<<y>> \o (c \o d))
<1>1. <<x>> \in Seq(U) /\ <<y>> \in Seq(U) /\ <<y>> \o c \in Seq(U)
  BY Prepend
<1>2. (<<x>> \o <<y>>) \o c = <<x>> \o (<<y>> \o c)
  BY <1>1, ConcatAssociative
<1>3. (<<x>> \o (<<y>> \o c)) \o d = <<x>> \o ((<<y>> \o c) \o d)
  BY <1>1, ConcatAssociative
<1>4. (<<y>> \o c) \o d = <<y>> \o (c \o d)
  BY Prepend
<1>5. QED
  BY <1>2, <1>3, <1>4

\* Three bytes before a sequence.
LEMMA PrependThree ==
  ASSUME NEW U, NEW x \in U, NEW y \in U, NEW z \in U, NEW c \in Seq(U), NEW d \in Seq(U)
  PROVE  /\ <<x>> \o (<<y>> \o <<z>>) \in Seq(U)
         /\ ((<<x>> \o (<<y>> \o <<z>>)) \o c) \o d = <<x>> \o (<<y>> \o (<<z>> \o (c \o d)))
<1> DEFINE p == <<y>> \o <<z>>
<1>1. <<x>> \in Seq(U) /\ <<z>> \in Seq(U)
  BY Prepend
<1>2. p \in Seq(U)
  BY <1>1, Prepend
<1>3. (p \o c) \o d = <<y>> \o (<<z>> \o (c \o d))
  BY PrependTwo
<1> HIDE DEF p
<1>4. p \o c \in Seq(U)
  BY <1>2, ConcatProperties
<1>5. (<<x>> \o p) \o c = <<x>> \o (p \o c)
  BY <1>2, Prepend
<1>6. (<<x>> \o (p \o c)) \o d = <<x>> \o ((p \o c) \o d)
  BY <1>4, Prepend
<1>7. <<x>> \o p \in Seq(U)
  BY <1>2, Prepend
<1>8. QED
  BY <1>3, <1>5, <1>6, <1>7 DEF p

\* The tail of a literal that is still to be announced: its CRLF and its octets.
Announced(q) == <<"LF">> \o Octets(q.literal, q.depth)

\* Ending, one byte at a time.
LEMMA EndingForms ==
  ASSUME NEW q, q.mode = "fetch", q.depth \in Nat, q.literal \in Nat, q.state \in ScanStates
  PROVE  /\ Ending(q) \in Seq(Bytes)
         /\ q.state = "open" => Ending(q) = <<"(">> \o ListsClosed(1)
         /\ q.state = "quoted" => Ending(q) = <<"QUOTE">> \o ListsClosed(q.depth)
         /\ q.state = "escape" => Ending(q) = <<"QUOTE">> \o (<<"QUOTE">> \o ListsClosed(q.depth))
         /\ q.state = "literalSize" /\ q.digits = 0 =>
              Ending(q) = <<"0">> \o (<<"RBRACE">> \o (<<"CR">> \o Announced(q)))
         /\ q.state = "literalSize" /\ q.digits # 0 => Ending(q) = <<"RBRACE">> \o (<<"CR">> \o Announced(q))
         /\ q.state = "literalCR" => Ending(q) = <<"CR">> \o Announced(q)
         /\ q.state = "literalLF" => Ending(q) = Announced(q)
         /\ q.state = "literal" => Ending(q) = Octets(q.literal, q.depth)
         /\ q.state = "endLF" => Ending(q) = <<"LF">>
         /\ q.state \in {"items", "atom", "endCR"} => Ending(q) = ListsClosed(q.depth)
<1> DEFINE oct == Repeat("word", q.literal)
           cl == ListsClosed(q.depth)
           tail == oct \o cl
           b3 == <<"RBRACE", "CR", "LF">>
<1>1. /\ "(" \in Bytes /\ ")" \in Bytes /\ "CR" \in Bytes /\ "LF" \in Bytes
      /\ "QUOTE" \in Bytes /\ "0" \in Bytes /\ "RBRACE" \in Bytes /\ "word" \in Bytes
  <2>1. {"(", ")", "CR", "LF", "QUOTE"} \subseteq Specials /\ "0" \in Digits /\ "word" \in Words
    BY Zenon DEF Specials, Digits, Words
  <2>2. Specials \subseteq Bytes /\ Digits \subseteq Bytes /\ Words \subseteq Bytes /\ "RBRACE" \in Bytes
    BY Zenon DEF Bytes
  <2>3. QED
    BY <2>1, <2>2
<1>2. cl \in Seq(Bytes) /\ oct \in Seq(Bytes) /\ ListsClosed(1) \in Seq(Bytes)
  BY <1>1, ClosesOne, RepeatStep
<1>3. ListsClosed(1) = <<")", "CR", "LF">>
  <2>1. ListsClosed(0 + 1) = <<")">> \o ListsClosed(0) /\ ListsClosed(0) = <<"CR">> \o <<"LF">>
    BY ClosesOne
  <2>2. 0 + 1 = 1
    OBVIOUS
  <2>3. <<")", "CR", "LF">> = <<")">> \o <<"CR", "LF">> /\ <<"CR", "LF">> = <<"CR">> \o <<"LF">>
    BY TripleConcat, PairConcat
  <2>4. QED
    BY <2>1, <2>2, <2>3
<1>4. Octets(q.literal, q.depth) = tail
  BY DEF Octets
<1> HIDE DEF oct, cl
<1>5. tail \in Seq(Bytes)
  BY <1>2, ConcatProperties
<1>6. <<"LF">> \o tail \in Seq(Bytes) /\ (<<"LF">> \o oct) \o cl = <<"LF">> \o tail
  <2>1. <<"LF">> \o tail \in Seq(Bytes)
    BY <1>1, <1>5, Prepend
  <2>2. QED
    BY <1>1, <1>2, <2>1, Prepend
<1>7. /\ <<"CR">> \o (<<"LF">> \o tail) \in Seq(Bytes)
      /\ (<<"CR", "LF">> \o oct) \o cl = <<"CR">> \o (<<"LF">> \o tail)
  <2>1. <<"CR">> \o (<<"LF">> \o tail) \in Seq(Bytes)
    BY <1>1, <1>6, Prepend
  <2>2. QED
    <3>1. "CR" \in Bytes /\ "LF" \in Bytes /\ oct \in Seq(Bytes) /\ cl \in Seq(Bytes)
      BY <1>1, <1>2
    <3>2. ((<<"CR">> \o <<"LF">>) \o oct) \o cl = <<"CR">> \o (<<"LF">> \o (oct \o cl))
      BY <3>1, PrependTwo
    <3>3. <<"CR", "LF">> = <<"CR">> \o <<"LF">>
      BY PairConcat
    <3>4. QED
      BY <2>1, <3>2, <3>3
<1>8. /\ <<"RBRACE">> \o (<<"CR">> \o (<<"LF">> \o tail)) \in Seq(Bytes)
      /\ (b3 \o oct) \o cl = <<"RBRACE">> \o (<<"CR">> \o (<<"LF">> \o tail))
      /\ b3 \in Seq(Bytes)
  <2>1. <<"RBRACE">> \o (<<"CR">> \o (<<"LF">> \o tail)) \in Seq(Bytes)
    BY <1>1, <1>7, Prepend
  <2>2. QED
    <3>1. /\ "RBRACE" \in Bytes /\ "CR" \in Bytes /\ "LF" \in Bytes
          /\ oct \in Seq(Bytes) /\ cl \in Seq(Bytes)
      BY <1>1, <1>2
    <3> DEFINE three == <<"RBRACE">> \o (<<"CR">> \o <<"LF">>)
    <3>2. /\ three \in Seq(Bytes)
          /\ (three \o oct) \o cl = <<"RBRACE">> \o (<<"CR">> \o (<<"LF">> \o (oct \o cl)))
      BY <3>1, PrependThree
    <3>3. b3 = three
      <4>1. /\ <<"RBRACE", "CR", "LF">> = <<"RBRACE">> \o <<"CR", "LF">>
            /\ <<"CR", "LF">> = <<"CR">> \o <<"LF">>
        BY TripleConcat, PairConcat
      <4>2. QED
        BY <4>1
    <3> HIDE DEF three, b3
    <3>4. QED
      BY <2>1, <3>2, <3>3
<1> HIDE DEF b3
<1>9. /\ <<"0">> \o (<<"RBRACE">> \o (<<"CR">> \o (<<"LF">> \o tail))) \in Seq(Bytes)
      /\ ((<<"0">> \o b3) \o oct) \o cl
           = <<"0">> \o (<<"RBRACE">> \o (<<"CR">> \o (<<"LF">> \o tail)))
      /\ ((<<>> \o b3) \o oct) \o cl = (b3 \o oct) \o cl
  <2>1. b3 \o oct \in Seq(Bytes)
    BY <1>2, <1>8, ConcatProperties
  <2>2. (<<"0">> \o b3) \o oct = <<"0">> \o (b3 \o oct)
    <3>1. "0" \in Bytes /\ b3 \in Seq(Bytes) /\ oct \in Seq(Bytes)
      BY <1>1, <1>2, <1>8
    <3>2. QED
      BY <3>1, Prepend
  <2>3. (<<"0">> \o (b3 \o oct)) \o cl = <<"0">> \o ((b3 \o oct) \o cl)
    <3>1. "0" \in Bytes /\ b3 \o oct \in Seq(Bytes) /\ cl \in Seq(Bytes)
      BY <1>1, <1>2, <2>1
    <3>2. QED
      BY <3>1, Prepend
  <2>4. <<>> \o b3 = b3
    BY <1>8, ConcatEmptySeq
  <2>5. <<"0">> \o (<<"RBRACE">> \o (<<"CR">> \o (<<"LF">> \o tail))) \in Seq(Bytes)
    BY <1>1, <1>8, Prepend
  <2>6. QED
    BY <1>8, <2>2, <2>3, <2>4, <2>5
<1>10. /\ <<"QUOTE">> \o cl \in Seq(Bytes) /\ <<"QUOTE">> \o (<<"QUOTE">> \o cl) \in Seq(Bytes)
       /\ <<"QUOTE", "QUOTE">> \o cl = <<"QUOTE">> \o (<<"QUOTE">> \o cl)
  <2>1. <<"QUOTE">> \o cl \in Seq(Bytes)
    BY <1>1, <1>2, Prepend
  <2>2. QED
    <3>1. "QUOTE" \in Bytes /\ cl \in Seq(Bytes)
      BY <1>1, <1>2
    <3>2. (<<"QUOTE">> \o <<"QUOTE">>) \o cl = <<"QUOTE">> \o (<<"QUOTE">> \o cl)
      BY <3>1, PrependTwo
    <3>3. <<"QUOTE", "QUOTE">> = <<"QUOTE">> \o <<"QUOTE">>
      BY PairConcat
    <3>4. <<"QUOTE">> \o (<<"QUOTE">> \o cl) \in Seq(Bytes)
      BY <2>1, <3>1, Prepend
    <3>5. QED
      BY <2>1, <3>2, <3>3, <3>4
<1>11. <<"(", ")", "CR", "LF">> = <<"(">> \o ListsClosed(1) /\ <<"(">> \o ListsClosed(1) \in Seq(Bytes)
  <2>1. <<"(", ")", "CR", "LF">> = <<"(">> \o <<")", "CR", "LF">>
    BY QuadConcat
  <2>2. QED
    BY <1>1, <1>2, <1>3, <2>1, Prepend
<1>12. Announced(q) = <<"LF">> \o tail
  BY <1>4 DEF Announced
<1>13. cl = Repeat(")", q.depth) \o <<"CR", "LF">>
  BY DEF cl, ListsClosed
<1> HIDE DEF tail
<1>14. CASE q.state \in {"open", "quoted", "escape"}
  BY <1>10, <1>11, <1>13, <1>14 DEF Ending, cl
<1>15. CASE q.state \in {"items", "atom", "endCR", "endLF"}
  <2>1. <<"LF">> \in Seq(Bytes)
    BY <1>1
  <2>2. QED
    BY <1>2, <1>13, <1>15, <2>1 DEF Ending, cl
<1>16. CASE q.state = "literalSize"
  <2>1. Ending(q) = ((IF q.digits = 0 THEN <<"0">> ELSE <<>>) \o b3 \o oct) \o cl
    BY <1>13, <1>16 DEF Ending, oct, b3
  <2>2. CASE q.digits = 0
    BY <1>9, <1>12, <1>16, <2>1, <2>2
  <2>3. CASE q.digits # 0
    BY <1>8, <1>9, <1>12, <1>16, <2>1, <2>3
  <2>4. QED
    BY <2>2, <2>3
<1>17. CASE q.state \in {"literalCR", "literalLF"}
  <2>1. /\ q.state = "literalCR" => Ending(q) = (<<"CR", "LF">> \o oct) \o cl
        /\ q.state = "literalLF" => Ending(q) = (<<"LF">> \o oct) \o cl
    BY <1>13, <1>17 DEF Ending, oct
  <2>2. QED
    BY <1>6, <1>7, <1>12, <1>17, <2>1
<1>18. CASE q.state = "literal"
  <2>1. Ending(q) = tail
    BY <1>13, <1>18 DEF Ending, oct, tail
  <2>2. QED
    BY <1>4, <1>5, <1>18, <2>1
<1>19. QED
  BY <1>14, <1>15, <1>16, <1>17, <1>18 DEF ScanStates

\* The first byte of the Ending of a FETCH.
EndByte(q) ==
  CASE q.state = "open" -> "("
    [] q.state \in {"quoted", "escape"} -> "QUOTE"
    [] q.state = "literalSize" -> IF q.digits = 0 THEN "0" ELSE "RBRACE"
    [] q.state \in {"literalCR", "endCR"} -> "CR"
    [] q.state \in {"literalLF", "endLF"} -> "LF"
    [] q.state = "literal" -> "word"
    [] OTHER -> ")"

\* f is one byte nearer to the end of the FETCH than q.
Nearer(q, f) ==
  /\ Sound(f) /\ f.mode = "fetch" /\ f.frame = q.frame /\ f.sessionBytes = q.sessionBytes
  /\ f.tokens + Closing(f) = q.tokens + Closing(q) /\ f.work + Closing(f) = q.work + Closing(q)
  /\ BytesNeeded(f) + 1 = BytesNeeded(q)
  /\ Ending(q) = <<EndByte(q)>> \o Ending(f)

\* f took no token.
LEMMA NearerPlain ==
  ASSUME NEW q, NEW f, Sound(q), Sound(f), q.mode = "fetch", f.mode = "fetch",
         f.frame = q.frame, f.sessionBytes = q.sessionBytes, f.tokens = q.tokens, f.work = q.work,
         q.state # "open", f.state # "open", f.depth = q.depth,
         BytesNeeded(f) + 1 = BytesNeeded(q), Ending(q) = <<EndByte(q)>> \o Ending(f)
  PROVE  Nearer(q, f)
BY DEF Nearer, Closing

\* A list that closes.
LEMMA CloseNearer ==
  ASSUME NEW q, Sound(q), q.mode = "fetch", q.state = "items",
         q.tokens + Closing(q) <= FetchTokens, q.work + Closing(q) <= WorkUnits,
         NEW p, Like(q, p), p.state \in {"items", "atom"}, p.depth = q.depth, p.literal = q.literal
  PROVE  Nearer(p, closeLocked(q))
<1> DEFINE t == tokenLocked(q)
           c == [t EXCEPT !.depth = @ - 1, !.previous = "close"]
           d == [c EXCEPT !.phase = "done", !.flagsList = FALSE]
           e == [c EXCEPT !.state = "endCR"]
           f == closeLocked(q)
<1>1. Within(q) /\ IsScanner(q) /\ q.terminal = "none" /\ q.depth \in Nat /\ q.depth # 0 /\ q.depth > 0
  BY DEF Sound, Within, Nested
<1>2. Charged(q, t)
  <2>1. q.tokens # FetchTokens /\ q.work # WorkUnits
    BY <1>1, Budgets DEF Within, Closing
  <2>2. QED
    BY <1>1, <2>1, TokenCharges
<1>3. f = CASE t.depth = 2 -> d [] t.depth = 1 -> e [] OTHER -> c
  <2>1. ~Refused(t)
    BY <1>1, <1>2, ChargedFields DEF Refused
  <2>2. QED
    BY <2>1 DEF closeLocked
<1>4. Sound(f)
  BY CloseSound DEF Scans
<1> HIDE DEF t
<1>5. /\ Within(t) /\ t.mode = "fetch" /\ t.state = "items" /\ t.depth = q.depth /\ t.literal = q.literal
      /\ t.tokens = q.tokens + 1 /\ t.work = q.work + 1 /\ t.frame = q.frame
      /\ t.sessionBytes = q.sessionBytes
  BY <1>1, <1>2, ChargedFields
<1>6. /\ c.mode = t.mode /\ c.depth = t.depth - 1 /\ c.tokens = t.tokens /\ c.work = t.work
      /\ c.frame = t.frame /\ c.sessionBytes = t.sessionBytes /\ c.literal = t.literal
      /\ c.state = t.state /\ DOMAIN c = DOMAIN t
  BY <1>5 DEF Within, IsScanner, InitScanner
<1> HIDE DEF c
<1>7. /\ d.mode = c.mode /\ d.depth = c.depth /\ d.tokens = c.tokens /\ d.work = c.work
      /\ d.frame = c.frame /\ d.sessionBytes = c.sessionBytes /\ d.literal = c.literal
      /\ d.state = c.state
      /\ e.mode = c.mode /\ e.depth = c.depth /\ e.tokens = c.tokens /\ e.work = c.work
      /\ e.frame = c.frame /\ e.sessionBytes = c.sessionBytes /\ e.literal = c.literal
      /\ e.state = "endCR"
  BY <1>5, <1>6 DEF Within, IsScanner, InitScanner
<1> HIDE DEF d, e
<1>8. /\ f.mode = "fetch" /\ f.depth = q.depth - 1 /\ f.tokens = q.tokens + 1 /\ f.work = q.work + 1
      /\ f.frame = q.frame /\ f.sessionBytes = q.sessionBytes /\ f.literal = q.literal
      /\ f.state \in {"items", "endCR"}
  BY <1>3, <1>5, <1>6, <1>7
<1> HIDE DEF f
<1>9. /\ p.mode = "fetch" /\ p.frame = q.frame /\ p.sessionBytes = q.sessionBytes
      /\ p.tokens = q.tokens /\ p.work = q.work /\ p.depth = q.depth
  BY DEF Like
<1>10. Ending(p) = ListsClosed(q.depth) /\ Ending(f) = ListsClosed(q.depth - 1)
  <2>1. p.depth \in Nat /\ p.literal \in Nat /\ f.depth \in Nat /\ f.literal \in Nat
    BY <1>1, <1>8, <1>9 DEF Within
  <2>2. p.state \in ScanStates /\ f.state \in ScanStates
    BY <1>8 DEF ScanStates
  <2>3. QED
    BY <1>8, <1>9, <2>1, <2>2, EndingForms
<1>11. ListsClosed(q.depth) = <<")">> \o ListsClosed(q.depth - 1)
  <2>1. q.depth - 1 \in Nat /\ (q.depth - 1) + 1 = q.depth
    BY <1>1
  <2>2. QED
    BY <2>1, ClosesOne
<1>12. EndByte(p) = ")"
  BY DEF EndByte
<1>13. Closing(f) = q.depth - 1 /\ Closing(p) = q.depth
       /\ BytesNeeded(f) = (q.depth - 1) + 2 /\ BytesNeeded(p) = q.depth + 2
  BY <1>8, <1>9 DEF Closing, BytesNeeded
<1>14. /\ f.tokens + Closing(f) = p.tokens + Closing(p) /\ f.work + Closing(f) = p.work + Closing(p)
       /\ BytesNeeded(f) + 1 = BytesNeeded(p)
  BY <1>1, <1>8, <1>9, <1>13 DEF Within
<1>15. QED
  BY <1>4, <1>8, <1>9, <1>10, <1>11, <1>12, <1>14 DEF Nearer, f

\* What the next byte of the Ending does to a FETCH: it goes on to the end,
\* or it is malformed, but it is not too long.
Approaches(q, f) ==
  \/ Nearer(q, f)
  \/ f.terminal = Protocol
  \/ f.mode = "between" /\ f.terminal # Bounds /\ Ending(q) = <<EndByte(q)>>

\* A byte that changes the state only.
LEMMA StateNearer ==
  ASSUME NEW q, Sound(q), q.mode = "fetch", NEW f, Sound(f), Like(q, f),
         f.depth = q.depth, f.literal \in Nat, f.digits \in Nat,
         q.state # "open", f.state # "open", q.state \in ScanStates, f.state \in ScanStates,
         BytesNeeded(f) + 1 = BytesNeeded(q), Ending(q) = <<EndByte(q)>> \o Ending(f)
  PROVE  Approaches(q, f)
<1>1. Nearer(q, f)
  BY NearerPlain DEF Like
<1>2. QED
  BY <1>1 DEF Approaches

\* The first list opens.
LEMMA OpenNearer ==
  ASSUME NEW q, Sound(q), q.mode = "fetch", q.state = "open",
         q.tokens + 2 <= FetchTokens, q.work + 2 <= WorkUnits
  PROVE  Nearer(q, openLocked([q EXCEPT !.state = "items"]))
<1> DEFINE p == [q EXCEPT !.state = "items"]
           t == tokenLocked(p)
           f == [t EXCEPT !.depth = @ + 1, !.previous = "open"]
<1>1. Within(q) /\ IsScanner(q) /\ q.depth = 0 /\ q.terminal = "none"
  BY DEF Sound, Within, Nested
<1>2. Like(q, p) /\ p.state = "items" /\ p.depth = q.depth /\ p.literal = q.literal /\ p.digits = q.digits
  BY <1>1 DEF IsScanner, InitScanner, Like
<1> HIDE DEF p
<1>3. Within(p)
  BY <1>1, <1>2, LikeWithin DEF Within, ScanStates
<1>4. Charged(p, t)
  <2>1. p.tokens # FetchTokens /\ p.work # WorkUnits
    BY <1>1, <1>2, Budgets DEF Within, Like
  <2>2. QED
    BY <1>3, <2>1, TokenCharges
<1>5. openLocked(p) = f
  <2>1. p.depth # Depth
    BY <1>1, <1>2, Budgets
  <2>2. ~Refused(t)
    BY <1>1, <1>2, <1>3, <1>4, ChargedFields DEF Refused, Like
  <2>3. QED
    BY <2>1, <2>2 DEF openLocked
<1>6. Sound(openLocked(p))
  BY <1>2, <1>3, OpenSound DEF Scans, Like
<1> HIDE DEF t
<1>7. /\ Within(t) /\ t.mode = "fetch" /\ t.state = "items" /\ t.depth = 0 /\ t.literal = q.literal
      /\ t.tokens = q.tokens + 1 /\ t.work = q.work + 1 /\ t.frame = q.frame
      /\ t.sessionBytes = q.sessionBytes
  BY <1>1, <1>2, <1>3, <1>4, ChargedFields DEF Like
<1>8. /\ f.mode = "fetch" /\ f.state = "items" /\ f.depth = 0 + 1 /\ f.literal = q.literal
      /\ f.tokens = q.tokens + 1 /\ f.work = q.work + 1 /\ f.frame = q.frame
      /\ f.sessionBytes = q.sessionBytes
  BY <1>7 DEF Within, IsScanner, InitScanner
<1> HIDE DEF f
<1>9. q.depth \in Nat /\ q.literal \in Nat /\ f.depth \in Nat /\ f.literal \in Nat /\ f.depth = 1
      /\ q.tokens \in Nat /\ q.work \in Nat
  BY <1>1, <1>8 DEF Within
<1>10. Ending(q) = <<"(">> \o ListsClosed(1) /\ Ending(f) = ListsClosed(1)
  <2>1. q.state \in ScanStates /\ f.state \in ScanStates
    BY <1>8 DEF ScanStates
  <2>2. QED
    BY <1>8, <1>9, <2>1, EndingForms
<1>11. EndByte(q) = "("
  BY DEF EndByte
<1>12. Closing(q) = 2 /\ Closing(f) = 1 /\ BytesNeeded(q) = 4 /\ BytesNeeded(f) = 3
  BY <1>8, <1>9 DEF Closing, BytesNeeded
<1>13. /\ f.tokens + Closing(f) = q.tokens + Closing(q) /\ f.work + Closing(f) = q.work + Closing(q)
       /\ BytesNeeded(f) + 1 = BytesNeeded(q)
  BY <1>8, <1>9, <1>12
<1>14. QED
  BY <1>5, <1>6, <1>8, <1>10, <1>11, <1>13 DEF Nearer, p

\* The types a scanner and its successor share.
LEMMA LikeSound ==
  ASSUME NEW q, Sound(q), q.mode = "fetch", NEW f, Sound(f), Like(q, f)
  PROVE  /\ f.mode = "fetch" /\ q.depth \in Nat /\ f.depth \in Nat /\ q.literal \in Nat
         /\ f.literal \in Nat /\ q.digits \in Nat /\ f.digits \in Nat
         /\ q.state \in ScanStates /\ f.state \in ScanStates
BY DEF Like, Sound, Within, IsScanner

\* The end of a quoted string.
LEMMA QuotedApproaches ==
  ASSUME NEW q, Sound(q), q.mode = "fetch", q.state \in {"quoted", "escape"}
  PROVE  Approaches(q, fetchByteLocked(q, "QUOTE"))
<1>1. Scans(q)
  BY DEF Scans
<1>2. CASE q.state = "quoted"
  <2> DEFINE f == TokenEnded(q)
  <2>1. /\ Sound(f) /\ Like(q, f) /\ f.state = "items" /\ f.depth = q.depth /\ f.literal = q.literal
    BY <1>1, <1>2, TokenEndedSound DEF Scans
  <2>2. fetchByteLocked(q, "QUOTE") = f
    BY <1>2 DEF fetchByteLocked
  <2> HIDE DEF f
  <2>3. Ending(q) = <<"QUOTE">> \o ListsClosed(q.depth) /\ Ending(f) = ListsClosed(q.depth)
    BY <1>2, <2>1, LikeSound, EndingForms
  <2>4. EndByte(q) = "QUOTE" /\ BytesNeeded(q) = q.depth + 3 /\ BytesNeeded(f) = q.depth + 2
    BY <1>2, <2>1 DEF EndByte, BytesNeeded
  <2>5. BytesNeeded(f) + 1 = BytesNeeded(q)
    BY <2>1, <2>4, LikeSound
  <2>6. QED
    BY <1>2, <2>1, <2>2, <2>3, <2>4, <2>5, LikeSound, StateNearer
<1>3. CASE q.state = "escape"
  <2> DEFINE f == [q EXCEPT !.state = "quoted"]
  <2>1. /\ Sound(f) /\ Like(q, f) /\ f.state = "quoted" /\ f.depth = q.depth /\ f.literal = q.literal
    BY <1>1, <1>3, StateSound DEF Scans, ScanStates
  <2>2. fetchByteLocked(q, "QUOTE") = f
    BY <1>3 DEF fetchByteLocked
  <2> HIDE DEF f
  <2>3. /\ Ending(q) = <<"QUOTE">> \o (<<"QUOTE">> \o ListsClosed(q.depth))
        /\ Ending(f) = <<"QUOTE">> \o ListsClosed(q.depth)
    BY <1>3, <2>1, LikeSound, EndingForms
  <2>4. EndByte(q) = "QUOTE" /\ BytesNeeded(q) = q.depth + 4 /\ BytesNeeded(f) = q.depth + 3
    BY <1>3, <2>1 DEF EndByte, BytesNeeded
  <2>5. BytesNeeded(f) + 1 = BytesNeeded(q)
    BY <2>1, <2>4, LikeSound
  <2>6. QED
    BY <1>3, <2>1, <2>2, <2>3, <2>4, <2>5, LikeSound, StateNearer
<1>4. QED
  BY <1>2, <1>3

\* The size of a literal.
LEMMA SizeApproaches ==
  ASSUME NEW q, Sound(q), q.mode = "fetch", q.state = "literalSize"
  PROVE  Approaches(q, fetchByteLocked(q, EndByte(q)))
<1>1. Scans(q) /\ Within(q) /\ Nested(q) /\ IsScanner(q)
  BY DEF Scans, Sound, Within
<1>2. fetchByteLocked(q, EndByte(q)) = literalSizeByteLocked(q, EndByte(q))
  BY DEF fetchByteLocked
<1>3. CASE q.digits = 0
  <2> DEFINE f == [q EXCEPT !.digits = @ + 1, !.literal = 10 * @ + Digit["0"]]
             z == refuseLocked(q, Protocol)
  <2>1. EndByte(q) = "0" /\ "0" \in Digits /\ Digit["0"] = 0 /\ q.literal = 0
    BY <1>1, <1>3 DEF EndByte, Digits, Digit, Nested
  <2>2. literalSizeByteLocked(q, "0") = z \/ literalSizeByteLocked(q, "0") = f
    BY <2>1 DEF literalSizeByteLocked
  <2>3. Approaches(q, z)
    BY DEF Approaches, refuseLocked, InitScanner
  <2>4. ASSUME literalSizeByteLocked(q, "0") = f PROVE Sound(f)
    BY <1>1, <2>4, LiteralSizeSound DEF Scans
  <2>5. /\ Like(q, f) /\ f.state = "literalSize" /\ f.depth = q.depth
        /\ f.literal = 10 * q.literal + Digit["0"] /\ f.digits = q.digits + 1
    BY <1>1 DEF IsScanner, InitScanner, Like
  <2> HIDE DEF f, z
  <2>6. f.literal = 0 /\ f.digits = 1
    BY <1>3, <2>1, <2>5
  <2>7. ASSUME Sound(f) PROVE Approaches(q, f)
    <3>1. Announced(f) = Announced(q)
      BY <2>1, <2>5, <2>6 DEF Announced
    <3>2. /\ Ending(q) = <<"0">> \o (<<"RBRACE">> \o (<<"CR">> \o Announced(q)))
          /\ Ending(f) = <<"RBRACE">> \o (<<"CR">> \o Announced(f))
      BY <1>3, <2>5, <2>6, <2>7, LikeSound, EndingForms
    <3>3. BytesNeeded(q) = q.depth + 5 + q.literal + 1 /\ BytesNeeded(f) = f.depth + 5 + f.literal + 0
      BY <1>3, <2>5, <2>6 DEF BytesNeeded
    <3>4. BytesNeeded(f) + 1 = BytesNeeded(q)
      BY <2>1, <2>5, <2>6, <2>7, <3>3, LikeSound
    <3>5. QED
      BY <2>1, <2>5, <2>6, <2>7, <3>1, <3>2, <3>4, LikeSound, StateNearer
  <2>8. QED
    BY <1>2, <2>1, <2>2, <2>3, <2>4, <2>7
<1>4. CASE q.digits # 0
  <2> DEFINE f == [q EXCEPT !.state = "literalCR"]
  <2>1. EndByte(q) = "RBRACE" /\ q.digits > 0
    BY <1>1, <1>4 DEF EndByte, Within
  <2>2. literalSizeByteLocked(q, "RBRACE") = f
    BY <2>1 DEF literalSizeByteLocked
  <2>3. Sound(f) /\ Like(q, f) /\ f.state = "literalCR" /\ f.depth = q.depth /\ f.literal = q.literal
    BY <1>1, StateSound DEF Scans, ScanStates
  <2> HIDE DEF f
  <2>4. Announced(f) = Announced(q)
    BY <2>3 DEF Announced
  <2>5. /\ Ending(q) = <<"RBRACE">> \o (<<"CR">> \o Announced(q))
        /\ Ending(f) = <<"CR">> \o Announced(f)
    BY <1>4, <2>3, LikeSound, EndingForms
  <2>6. BytesNeeded(q) = q.depth + 5 + q.literal + 0 /\ BytesNeeded(f) = f.depth + 4 + f.literal
    BY <1>4, <2>3 DEF BytesNeeded
  <2>7. BytesNeeded(f) + 1 = BytesNeeded(q)
    BY <2>3, <2>6, LikeSound
  <2>8. QED
    BY <1>2, <2>1, <2>2, <2>3, <2>4, <2>5, <2>7, LikeSound, StateNearer
<1>5. QED
  BY <1>3, <1>4

\* The line end of a literal's size.
LEMMA AnnouncedApproaches ==
  ASSUME NEW q, Sound(q), q.mode = "fetch", q.state \in {"literalCR", "literalLF"}
  PROVE  Approaches(q, fetchByteLocked(q, EndByte(q)))
<1>1. Scans(q) /\ Within(q)
  BY DEF Scans, Sound
<1>2. CASE q.state = "literalCR"
  <2> DEFINE f == [q EXCEPT !.state = "literalLF"]
  <2>1. EndByte(q) = "CR"
    BY <1>2 DEF EndByte
  <2>2. fetchByteLocked(q, "CR") = f
    BY <1>2 DEF fetchByteLocked, Expect
  <2>3. Sound(f) /\ Like(q, f) /\ f.state = "literalLF" /\ f.depth = q.depth /\ f.literal = q.literal
    BY <1>1, <1>2, StateSound DEF Scans, ScanStates
  <2> HIDE DEF f
  <2>4. Announced(f) = Announced(q)
    BY <2>3 DEF Announced
  <2>5. Ending(q) = <<"CR">> \o Announced(q) /\ Ending(f) = Announced(f)
    BY <1>2, <2>3, LikeSound, EndingForms
  <2>6. BytesNeeded(q) = q.depth + 4 + q.literal /\ BytesNeeded(f) = f.depth + 3 + f.literal
    BY <1>2, <2>3 DEF BytesNeeded
  <2>7. BytesNeeded(f) + 1 = BytesNeeded(q)
    BY <2>3, <2>6, LikeSound
  <2>8. QED
    BY <1>2, <2>1, <2>2, <2>3, <2>4, <2>5, <2>7, LikeSound, StateNearer
<1>3. CASE q.state = "literalLF"
  <2>1. EndByte(q) = "LF"
    BY <1>3 DEF EndByte
  <2>2. Ending(q) = <<"LF">> \o Octets(q.literal, q.depth) /\ BytesNeeded(q) = q.depth + 3 + q.literal
    <3>1. q.depth \in Nat /\ q.literal \in Nat /\ q.state \in ScanStates
      BY <1>1, <1>3 DEF Within, ScanStates
    <3>2. QED
      BY <1>3, <3>1, EndingForms DEF Announced, BytesNeeded
  <2>3. CASE q.literal = 0
    <3> DEFINE f == TokenEnded(q)
    <3>1. fetchByteLocked(q, "LF") = f
      BY <1>3, <2>3 DEF fetchByteLocked, Expect
    <3>2. Sound(f) /\ Like(q, f) /\ f.state = "items" /\ f.depth = q.depth /\ f.literal = q.literal
      BY <1>1, <1>3, TokenEndedSound DEF Scans
    <3> HIDE DEF f
    <3>3. Ending(f) = Octets(q.literal, q.depth)
      BY <2>3, <3>2, LikeSound, EndingForms, OctetsOne
    <3>4. BytesNeeded(f) = f.depth + 2
      BY <3>2 DEF BytesNeeded
    <3>5. BytesNeeded(f) + 1 = BytesNeeded(q)
      BY <2>2, <2>3, <3>2, <3>4, LikeSound
    <3>6. QED
      BY <1>3, <2>1, <2>2, <3>1, <3>2, <3>3, <3>5, LikeSound, StateNearer
  <2>4. CASE q.literal # 0
    <3> DEFINE f == [q EXCEPT !.state = "literal"]
    <3>1. fetchByteLocked(q, "LF") = f
      BY <1>3, <2>4 DEF fetchByteLocked, Expect
    <3>2. q.literal > 0
      BY <1>1, <2>4 DEF Within
    <3>3. Sound(f) /\ Like(q, f) /\ f.state = "literal" /\ f.depth = q.depth /\ f.literal = q.literal
      BY <1>1, <1>3, <3>2, StateSound DEF Scans, ScanStates
    <3> HIDE DEF f
    <3>4. Ending(f) = Octets(q.literal, q.depth)
      BY <3>3, LikeSound, EndingForms
    <3>5. BytesNeeded(f) = f.depth + 2 + f.literal
      BY <3>3 DEF BytesNeeded
    <3>6. BytesNeeded(f) + 1 = BytesNeeded(q)
      BY <2>2, <3>3, <3>5, LikeSound
    <3>7. QED
      BY <1>3, <2>1, <2>2, <3>1, <3>3, <3>4, <3>6, LikeSound, StateNearer
  <2>5. QED
    BY <2>3, <2>4
<1>4. QED
  BY <1>2, <1>3

\* One octet of a literal.
LEMMA LiteralApproaches ==
  ASSUME NEW q, Sound(q), q.mode = "fetch", q.state = "literal", NEW b
  PROVE  EndByte(q) = "word" /\ Approaches(q, fetchByteLocked(q, b))
<1>1. Scans(q) /\ Within(q) /\ Nested(q) /\ IsScanner(q)
  BY DEF Scans, Sound, Within
<1>2. EndByte(q) = "word"
  BY DEF EndByte
<1>3. /\ Ending(q) = Octets(q.literal, q.depth) /\ BytesNeeded(q) = q.depth + 2 + q.literal
      /\ q.depth \in Nat /\ q.literal \in Nat /\ q.literal > 0
  <2>1. q.depth \in Nat /\ q.literal \in Nat /\ q.state \in ScanStates /\ q.literal > 0
    BY <1>1 DEF Within, ScanStates, Nested
  <2>2. QED
    BY <2>1, EndingForms DEF BytesNeeded
<1>4. Ending(q) = <<"word">> \o Octets(q.literal - 1, q.depth)
  <2>1. q.literal - 1 \in Nat /\ (q.literal - 1) + 1 = q.literal
    BY <1>3
  <2>2. QED
    BY <1>3, <2>1, OctetsOne
<1>5. CASE q.literal = 1
  <2> DEFINE e == TokenEnded(q)
             f == [e EXCEPT !.literal = 0]
  <2>1. fetchByteLocked(q, b) = f
    BY <1>5 DEF fetchByteLocked
  <2>2. Scans(e) /\ e.mode = "fetch" /\ e.state = "items" /\ Like(q, e) /\ e.depth = q.depth
    BY <1>1, TokenEndedSound DEF Like
  <2> HIDE DEF e
  <2>3. Sound(f) /\ Like(e, f) /\ f.state = "items" /\ f.depth = e.depth /\ f.literal = 0
    BY <2>2, OctetsSound DEF Scans
  <2> HIDE DEF f
  <2>4. Like(q, f) /\ f.depth = q.depth
    BY <2>2, <2>3 DEF Like
  <2>5. Ending(f) = Octets(0, q.depth)
    BY <2>3, <2>4, LikeSound, EndingForms, OctetsOne
  <2>6. BytesNeeded(f) = f.depth + 2
    BY <2>3 DEF BytesNeeded
  <2>7. BytesNeeded(f) + 1 = BytesNeeded(q) /\ q.literal - 1 = 0
    BY <1>3, <1>5, <2>4, <2>6
  <2>8. QED
    BY <1>2, <1>4, <2>1, <2>3, <2>4, <2>5, <2>7, LikeSound, StateNearer
<1>6. CASE q.literal # 1
  <2> DEFINE f == [q EXCEPT !.literal = q.literal - 1]
  <2>1. fetchByteLocked(q, b) = f
    <3>1. [q EXCEPT !.literal = @ - 1] = f
      BY <1>1 DEF IsScanner, InitScanner
    <3>2. QED
      BY <1>6, <3>1 DEF fetchByteLocked
  <2>2. q.literal - 1 \in Nat /\ q.literal - 1 > 0
    BY <1>3, <1>6
  <2>3. Sound(f) /\ Like(q, f) /\ f.state = "literal" /\ f.depth = q.depth /\ f.literal = q.literal - 1
    BY <1>1, <2>2, OctetsSound DEF Scans
  <2> HIDE DEF f
  <2>4. Ending(f) = Octets(q.literal - 1, q.depth)
    BY <2>3, LikeSound, EndingForms
  <2>5. BytesNeeded(f) = f.depth + 2 + f.literal
    BY <2>3 DEF BytesNeeded
  <2>6. BytesNeeded(f) + 1 = BytesNeeded(q)
    BY <1>3, <2>3, <2>5
  <2>7. QED
    BY <1>2, <1>4, <2>1, <2>3, <2>4, <2>6, LikeSound, StateNearer
<1>7. QED
  BY <1>2, <1>5, <1>6

\* After an atom the scanner is between tokens.
LEMMA AtomEnded ==
  ASSUME NEW q, Scans(q), q.mode = "fetch", q.state = "atom"
  PROVE  LET r == [q EXCEPT !.state = "items"]
         IN Sound(r) /\ Like(q, r) /\ r.state = "items" /\ r.depth = q.depth /\ r.literal = q.literal
<1>1. "items" \in ScanStates
  BY DEF ScanStates
<1>2. QED
  BY <1>1, StateSound DEF Scans

\* A list that closes, after an atom or not.
LEMMA CloseApproaches ==
  ASSUME NEW q, Sound(q), q.mode = "fetch", q.state \in {"items", "atom"},
         q.tokens + Closing(q) <= FetchTokens, q.work + Closing(q) <= WorkUnits
  PROVE  EndByte(q) = ")" /\ Approaches(q, fetchByteLocked(q, ")"))
<1>1. Scans(q) /\ Within(q) /\ Nested(q) /\ IsScanner(q)
  BY DEF Scans, Sound, Within
<1>2. EndByte(q) = ")"
  BY DEF EndByte
<1>3. ASSUME NEW p PROVE itemsByteLocked(p, ")") \in {refuseLocked(p, Protocol), closeLocked(p)}
  BY DEF itemsByteLocked
<1>4. ASSUME NEW p PROVE Approaches(q, refuseLocked(p, Protocol))
  BY DEF Approaches, refuseLocked, InitScanner
<1>5. CASE q.state = "items"
  <2>1. Approaches(q, closeLocked(q))
    <3>1. Like(q, q)
      BY DEF Like
    <3>2. QED
      BY <1>5, <3>1, CloseNearer DEF Approaches
  <2>2. QED
    BY <1>2, <1>3, <1>4, <1>5, <2>1 DEF fetchByteLocked
<1>6. CASE q.state = "atom"
  <2> DEFINE ended == endAtomLocked(q)
             between == [ended EXCEPT !.state = "items"]
  <2>1. fetchByteLocked(q, ")") = IF Refused(ended) THEN ended ELSE itemsByteLocked(between, ")")
    <3>1. ~quarantineAtomChar(")")
      BY DEF quarantineAtomChar, Specials
    <3>2. QED
      BY <1>6, <3>1 DEF fetchByteLocked
  <2>2. (Like(q, ended) /\ Place(q, ended)) \/ ended.terminal = Protocol
    BY <1>1, EndAtomPlace
  <2> HIDE DEF ended
  <2>3. CASE ended.terminal = Protocol
    BY <1>2, <2>1, <2>3 DEF Approaches, Refused, Protocol
  <2>4. CASE Like(q, ended) /\ Place(q, ended)
    <3>1. Scans(ended) /\ ended.mode = "fetch" /\ ended.state = "atom"
      BY <1>1, <1>6, <2>4, PlaceSound DEF Scans, Like, Place
    <3>2. ~Refused(ended)
      BY <3>1 DEF Refused, Scans, Sound, Within
    <3>3. /\ Sound(between) /\ Like(ended, between) /\ between.state = "items"
          /\ between.depth = ended.depth /\ between.literal = ended.literal
      BY <3>1, AtomEnded
    <3> HIDE DEF between
    <3>4. /\ Like(between, q) /\ between.depth = q.depth /\ between.literal = q.literal
          /\ between.mode = "fetch"
      BY <2>4, <3>1, <3>3 DEF Like, Place
    <3>5. /\ between.tokens + Closing(between) <= FetchTokens
          /\ between.work + Closing(between) <= WorkUnits
      BY <1>6, <3>3, <3>4 DEF Like, Closing
    <3>6. Nearer(q, closeLocked(between))
      BY <1>6, <3>3, <3>4, <3>5, CloseNearer
    <3>7. QED
      BY <1>2, <1>3, <1>4, <2>1, <3>2, <3>6 DEF Approaches
  <2>5. QED
    BY <2>2, <2>3, <2>4
<1>7. QED
  BY <1>5, <1>6

\* The line end of the FETCH.
LEMMA EndApproaches ==
  ASSUME NEW q, Sound(q), q.mode = "fetch", q.state \in {"endCR", "endLF"}
  PROVE  Approaches(q, fetchByteLocked(q, EndByte(q)))
<1>1. Scans(q) /\ Within(q) /\ Nested(q) /\ IsScanner(q) /\ q.depth = 0
  BY DEF Scans, Sound, Within, Nested
<1>2. q.depth \in Nat /\ q.literal \in Nat /\ q.state \in ScanStates
  BY <1>1 DEF Within, ScanStates
<1>3. CASE q.state = "endCR"
  <2> DEFINE f == [q EXCEPT !.state = "endLF"]
  <2>1. EndByte(q) = "CR"
    BY <1>3 DEF EndByte
  <2>2. fetchByteLocked(q, "CR") = f
    BY <1>3 DEF fetchByteLocked, Expect
  <2>3. Sound(f) /\ Like(q, f) /\ f.state = "endLF" /\ f.depth = q.depth /\ f.literal = q.literal
    BY <1>1, <1>3, StateSound DEF Scans, ScanStates
  <2> HIDE DEF f
  <2>4. Ending(q) = <<"CR">> \o <<"LF">>
    BY <1>1, <1>2, <1>3, EndingForms, ClosesOne
  <2>5. Ending(f) = <<"LF">>
    BY <2>3, LikeSound, EndingForms
  <2>6. BytesNeeded(q) = q.depth + 2 /\ BytesNeeded(f) = 1
    BY <1>3, <2>3 DEF BytesNeeded
  <2>7. BytesNeeded(f) + 1 = BytesNeeded(q)
    BY <1>1, <2>6
  <2>8. QED
    BY <1>3, <2>1, <2>2, <2>3, <2>4, <2>5, <2>7, LikeSound, StateNearer
<1>4. CASE q.state = "endLF"
  <2> DEFINE f == completeFetchLocked(q)
             z == refuseLocked(q, Protocol)
             r == releaseLocked(q)
             d == [r EXCEPT !.dispatch = "delivered", !.structures = @ + 1]
             w == [q EXCEPT !.mode = "between"]
  <2>1. EndByte(q) = "LF" /\ fetchByteLocked(q, "LF") = f
    BY <1>4 DEF EndByte, fetchByteLocked, Expect
  <2>2. Ending(q) = <<"LF">>
    BY <1>2, <1>4, EndingForms
  <2>3. f \in {z, d, w}
    BY DEF completeFetchLocked
  <2>4. q.terminal = "none"
    BY <1>1 DEF Within
  <2>5. /\ d.mode = "between" /\ d.terminal = "none" /\ w.mode = "between" /\ w.terminal = "none"
        /\ z.terminal = Protocol
    BY <1>1, <2>4 DEF IsScanner, InitScanner, releaseLocked, refuseLocked
  <2> HIDE DEF f, z, d, w
  <2>6. QED
    BY <2>1, <2>2, <2>3, <2>5 DEF Approaches, Bounds
<1>5. QED
  BY <1>3, <1>4

\* So for every state of a FETCH.
LEMMA FetchApproaches ==
  ASSUME NEW q, Sound(q), q.mode = "fetch",
         q.tokens + Closing(q) <= FetchTokens, q.work + Closing(q) <= WorkUnits
  PROVE  Approaches(q, fetchByteLocked(q, EndByte(q)))
<1>1. q.state \in ScanStates
  BY DEF Sound, Within, IsScanner
<1>2. CASE q.state = "open"
  <2>1. EndByte(q) = "("
    BY <1>2 DEF EndByte
  <2>2. fetchByteLocked(q, "(") = openLocked([q EXCEPT !.state = "items"])
    BY <1>2 DEF fetchByteLocked, Expect
  <2>3. q.tokens + 2 <= FetchTokens /\ q.work + 2 <= WorkUnits
    BY <1>2 DEF Closing
  <2>4. QED
    BY <1>2, <2>1, <2>2, <2>3, OpenNearer DEF Approaches
<1>3. CASE q.state \in {"quoted", "escape"}
  <2>1. EndByte(q) = "QUOTE"
    BY <1>3 DEF EndByte
  <2>2. QED
    BY <1>3, <2>1, QuotedApproaches
<1>4. QED
  BY <1>1, <1>2, <1>3, SizeApproaches, AnnouncedApproaches, LiteralApproaches, CloseApproaches,
     EndApproaches DEF ScanStates

\* The first byte of the Ending.
NextByte(q) == IF q.mode = "fetch" THEN EndByte(q) ELSE IF q.lineCR THEN "LF" ELSE "CR"

\* A frame in progress has an Ending of at least one byte.
LEMMA EndingFirst ==
  ASSUME NEW q, Sound(q), q.mode # "between"
  PROVE  Ending(q) \in Seq(Bytes) /\ \E c \in Seq(Bytes) : Ending(q) = <<NextByte(q)>> \o c
<1>1. Within(q) /\ Nested(q) /\ q.mode \in {"line", "fetch"}
  BY DEF Sound, Within
<1>2. /\ "CR" \in Bytes /\ "LF" \in Bytes /\ <<>> \in Seq(Bytes) /\ <<"LF">> \in Seq(Bytes)
  <2>1. "CR" \in Specials /\ "LF" \in Specials
    BY DEF Specials
  <2>2. "CR" \in Bytes /\ "LF" \in Bytes
    BY <2>1 DEF Bytes
  <2>3. QED
    BY <2>2
<1>3. <<"LF">> = <<"LF">> \o <<>>
  BY <1>2, ConcatEmptySeq
<1>4. CASE q.mode = "line"
  <2>1. <<"CR", "LF">> \in Seq(Bytes) /\ <<"CR", "LF">> = <<"CR">> \o <<"LF">>
    BY <1>2, PairConcat
  <2>2. CASE q.lineCR
    <3>1. Ending(q) = <<"LF">> /\ NextByte(q) = "LF"
      BY <1>4, <2>2 DEF Ending, NextByte
    <3>2. QED
      BY <1>2, <1>3, <3>1
  <2>3. CASE ~q.lineCR
    <3>1. Ending(q) = <<"CR", "LF">> /\ NextByte(q) = "CR"
      BY <1>4, <2>3 DEF Ending, NextByte
    <3>2. QED
      BY <1>2, <2>1, <3>1
  <2>4. QED
    BY <2>2, <2>3
<1>5. CASE q.mode = "fetch"
  <2>1. q.depth \in Nat /\ q.literal \in Nat /\ q.state \in ScanStates /\ NextByte(q) = EndByte(q)
    BY <1>1, <1>5 DEF Within, IsScanner, NextByte
  <2>2. Ending(q) \in Seq(Bytes)
    BY <1>5, <2>1, EndingForms
  <2> DEFINE a == Announced(q)
  <2>3. a \in Seq(Bytes) /\ <<"CR">> \o a \in Seq(Bytes) /\ <<"RBRACE">> \o (<<"CR">> \o a) \in Seq(Bytes)
        /\ Octets(q.literal, q.depth) \in Seq(Bytes) /\ ListsClosed(1) \in Seq(Bytes)
        /\ ListsClosed(q.depth) \in Seq(Bytes)
    <3>1. /\ Octets(q.literal, q.depth) \in Seq(Bytes) /\ ListsClosed(1) \in Seq(Bytes)
          /\ ListsClosed(q.depth) \in Seq(Bytes)
      BY <2>1, OctetsOne, ClosesOne
    <3>2. a \in Seq(Bytes)
      BY <1>2, <3>1, Prepend DEF Announced
    <3> HIDE DEF a
    <3>3. <<"CR">> \o a \in Seq(Bytes)
      BY <1>2, <3>2, Prepend
    <3>4. "RBRACE" \in Bytes
      BY Zenon DEF Bytes
    <3>5. QED
      BY <3>1, <3>2, <3>3, <3>4, Prepend
  <2>4. CASE q.state \in {"open", "quoted"}
    BY <1>5, <2>1, <2>2, <2>3, <2>4, EndingForms DEF EndByte
  <2>5. CASE q.state = "escape"
    <3>1. <<"QUOTE">> \o ListsClosed(q.depth) \in Seq(Bytes)
      <4>1. "QUOTE" \in Specials
        BY DEF Specials
      <4>2. "QUOTE" \in Bytes
        BY <4>1 DEF Bytes
      <4>3. QED
        BY <2>3, <4>2, Prepend
    <3>2. QED
      BY <1>5, <2>1, <2>2, <2>5, <3>1, EndingForms DEF EndByte
  <2>6. CASE q.state \in {"literalSize", "literalCR"}
    <3> HIDE DEF a
    <3>1. /\ q.state = "literalSize" /\ q.digits = 0 =>
               Ending(q) = <<"0">> \o (<<"RBRACE">> \o (<<"CR">> \o a))
          /\ q.state = "literalSize" /\ q.digits # 0 => Ending(q) = <<"RBRACE">> \o (<<"CR">> \o a)
          /\ q.state = "literalCR" => Ending(q) = <<"CR">> \o a
      BY <1>5, <2>1, EndingForms DEF a
    <3>2. EndByte(q) = CASE q.state = "literalSize" -> IF q.digits = 0 THEN "0" ELSE "RBRACE"
                         [] q.state = "literalCR" -> "CR"
      BY <2>6 DEF EndByte
    <3>3. QED
      BY <2>1, <2>2, <2>3, <2>6, <3>1, <3>2
  <2>7. CASE q.state = "literalLF"
    <3>1. Ending(q) = <<"LF">> \o Octets(q.literal, q.depth) /\ EndByte(q) = "LF"
      BY <1>5, <2>1, <2>7, EndingForms DEF Announced, EndByte
    <3>2. QED
      BY <2>1, <2>2, <2>3, <3>1
  <2>8. CASE q.state = "literal"
    <3>1. q.literal - 1 \in Nat /\ (q.literal - 1) + 1 = q.literal
      BY <1>1, <1>5, <2>1, <2>8 DEF Nested
    <3>2. /\ Octets(q.literal, q.depth) = <<"word">> \o Octets(q.literal - 1, q.depth)
          /\ Octets(q.literal - 1, q.depth) \in Seq(Bytes)
      BY <2>1, <3>1, OctetsOne
    <3>3. Ending(q) = Octets(q.literal, q.depth) /\ EndByte(q) = "word"
      BY <1>5, <2>1, <2>8, EndingForms DEF EndByte
    <3>4. QED
      BY <2>1, <2>2, <3>2, <3>3
  <2>9. CASE q.state \in {"items", "atom"}
    <3>1. q.depth - 1 \in Nat /\ (q.depth - 1) + 1 = q.depth
      BY <1>1, <1>5, <2>1, <2>9 DEF Nested
    <3>2. ListsClosed(q.depth) = <<")">> \o ListsClosed(q.depth - 1) /\ ListsClosed(q.depth - 1) \in Seq(Bytes)
      BY <3>1, ClosesOne
    <3>3. Ending(q) = ListsClosed(q.depth) /\ EndByte(q) = ")"
      BY <1>5, <2>1, <2>9, EndingForms DEF EndByte
    <3>4. QED
      BY <2>1, <2>2, <3>2, <3>3
  <2>10. CASE q.state = "endCR"
    <3>1. q.depth = 0
      BY <1>1, <1>5, <2>10 DEF Nested
    <3>2. Ending(q) = <<"CR">> \o <<"LF">> /\ EndByte(q) = "CR"
      BY <1>5, <2>1, <2>10, <3>1, EndingForms, ClosesOne DEF EndByte
    <3>3. QED
      BY <1>2, <2>1, <2>2, <3>2
  <2>11. CASE q.state = "endLF"
    <3>1. Ending(q) = <<"LF">> /\ EndByte(q) = "LF"
      BY <1>5, <2>1, <2>11, EndingForms DEF EndByte
    <3>2. QED
      BY <1>2, <1>3, <2>1, <3>1
  <2>12. QED
    BY <2>1, <2>4, <2>5, <2>6, <2>7, <2>8, <2>9, <2>10, <2>11 DEF ScanStates
<1>6. QED
  BY <1>1, <1>4, <1>5

\* A refused scanner takes no byte.
LEMMA FeedRefused ==
  ASSUME NEW q, Refused(q), NEW U, NEW c \in Seq(U)
  PROVE  FeedAll(q, c) = q
<1> DEFINE n == Len(c)
<1>1. n \in Nat /\ DOMAIN c = 1 .. n
  OBVIOUS
<1> HIDE DEF n
<1>2. PICK f : Fills(f, q, c, n)
  BY <1>1, FeedPrefixes
<1> DEFINE T == {k \in Nat : k <= n => f[1 .. k] = q}
<1>3. 0 \in T
  BY <1>2 DEF Fills
<1>4. ASSUME NEW k \in Nat, k \in T PROVE k + 1 \in T
  <2> SUFFICES ASSUME k + 1 <= n PROVE f[1 .. k + 1] = q
    OBVIOUS
  <2>1. k <= n /\ k < n
    BY <1>1
  <2>2. f[1 .. k + 1] = Fed(f[1 .. k], c[k + 1]) /\ f[1 .. k] = q
    BY <1>2, <1>4, <2>1 DEF Fills
  <2>3. QED
    BY <2>2 DEF Fed
<1>5. n \in T
  <2> HIDE DEF T
  <2>1. QED
    BY <1>1, <1>3, <1>4, NatInSet
<1>6. QED
  BY <1>1, <1>2, <1>5 DEF Fills

\* A frame in progress is not at the session budget.
LEMMA NotFull ==
  ASSUME NEW q, Ahead(q), q.mode # "between"
  PROVE  ~Full(q)
<1>1. Within(q) /\ Fits(q) /\ q.mode \in {"line", "fetch"} /\ q.sessionBytes \in Nat
  BY DEF Ahead, Sound, Within
<1>2. q.sessionBytes < SessionBytes
  <2>1. CASE q.mode = "line"
    BY <1>1, <2>1, Budgets DEF Fits, LineNeeds
  <2>2. CASE q.mode = "fetch"
    BY <1>1, <2>2, Budgets, NeedsBytes DEF Fits
  <2>3. QED
    BY <1>1, <2>1, <2>2
<1>3. QED
  BY <1>1, <1>2, Budgets DEF Full

\* What the next byte of the Ending leaves is the rest of the Ending, or a
\* refusal that is not for a budget.
StepsOn(q, r) ==
  \/ Refused(r) /\ r.terminal # Bounds
  \/ ~Refused(r) /\ Ahead(r) /\ Ending(q) = <<NextByte(q)>> \o Ending(r)

\* A FETCH goes on to its end.
LEMMA FetchEnded ==
  ASSUME NEW q, Ahead(q), ~Refused(q), q.mode = "fetch"
  PROVE  StepsOn(q, feedLocked(q, NextByte(q)))
<1> DEFINE g == Grown(q)
           b == EndByte(q)
           f == fetchByteLocked(g, b)
<1>1. NextByte(q) = b
  BY DEF NextByte
<1>2. feedLocked(q, b) = IF ~Refused(f) /\ f.mode = "fetch" THEN fetchFeasibleLocked(f) ELSE f
  BY NotFull, FeedCases
<1>3. /\ Sound(g) /\ g.mode = "fetch" /\ g.frame = q.frame + 1 /\ Place(q, g)
      /\ g.sessionBytes = q.sessionBytes + 1 /\ g.work = q.work /\ g.tokens = q.tokens
  BY NotFull, GrownSound
<1>4. Ahead(feedLocked(q, b))
  BY FeedAhead
<1> HIDE DEF g
<1>5. /\ Ending(g) = Ending(q) /\ EndByte(g) = EndByte(q) /\ Closing(g) = Closing(q)
      /\ BytesNeeded(g) = BytesNeeded(q)
  <2>1. Ending(g) = Ending(q)
    BY <1>3 DEF Place, Ending
  <2>2. EndByte(g) = EndByte(q)
    BY <1>3 DEF Place, EndByte
  <2>3. Closing(g) = Closing(q) /\ BytesNeeded(g) = BytesNeeded(q)
    BY <1>3 DEF Place, Closing, BytesNeeded
  <2>4. QED
    BY <2>1, <2>2, <2>3
<1>6. /\ q.tokens + Closing(q) <= FetchTokens /\ q.work + Closing(q) <= WorkUnits
      /\ q.frame + BytesNeeded(q) <= FrameBytes /\ q.sessionBytes + BytesNeeded(q) <= SessionBytes
  BY DEF Ahead, Fits
<1>7. Approaches(g, f)
  BY <1>3, <1>5, <1>6, FetchApproaches
<1> HIDE DEF f, b
<1>8. CASE Nearer(g, f)
  <2>1. BytesNeeded(f) \in Nat /\ f.frame \in Nat /\ f.sessionBytes \in Nat /\ ~Refused(f)
        /\ q.frame \in Nat /\ q.sessionBytes \in Nat
    BY <1>8, NeedsBytes DEF Nearer, Sound, Within, IsScanner, Refused, Ahead
  <2>2. Fits(f)
    <3>1. f.frame + BytesNeeded(f) = q.frame + BytesNeeded(q)
          /\ f.sessionBytes + BytesNeeded(f) = q.sessionBytes + BytesNeeded(q)
      <4>1. /\ f.frame = q.frame + 1 /\ f.sessionBytes = q.sessionBytes + 1
            /\ BytesNeeded(q) = BytesNeeded(f) + 1
        BY <1>3, <1>5, <1>8 DEF Nearer
      <4>2. QED
        BY <2>1, <4>1
    <3>2. QED
      BY <1>3, <1>5, <1>6, <1>8, <3>1 DEF Nearer, Fits
  <2>3. feedLocked(q, b) = f
    BY <1>2, <1>8, <2>1, <2>2, FeasibleAhead DEF Nearer
  <2>4. Ending(q) = <<b>> \o Ending(f)
    BY <1>5, <1>8 DEF Nearer, b
  <2>5. QED
    BY <1>1, <1>4, <2>1, <2>3, <2>4 DEF StepsOn
<1>9. CASE f.terminal = Protocol
  <2>1. Refused(f) /\ f.terminal # Bounds
    BY <1>9 DEF Refused, Protocol, Bounds
  <2>2. QED
    BY <1>1, <1>2, <2>1 DEF StepsOn
<1>10. CASE f.mode = "between" /\ f.terminal # Bounds /\ Ending(g) = <<EndByte(g)>>
  <2>1. feedLocked(q, b) = f
    BY <1>2, <1>10
  <2>2. Ending(f) = <<>>
    BY <1>10 DEF Ending
  <2>3. Ending(q) = <<b>> \o <<>>
    <3>1. <<b>> \in Seq({b})
      OBVIOUS
    <3>2. QED
      BY <1>5, <1>10, <3>1, ConcatEmptySeq DEF b
  <2>4. QED
    BY <1>1, <1>4, <1>10, <2>1, <2>2, <2>3 DEF StepsOn
<1>11. QED
  BY <1>7, <1>8, <1>9, <1>10 DEF Approaches

\* So does a line.
LEMMA LineEnded ==
  ASSUME NEW q, Ahead(q), ~Refused(q), q.mode = "line"
  PROVE  StepsOn(q, feedLocked(q, NextByte(q)))
<1> DEFINE b == NextByte(q)
           w == Written(q, b)
           r == feedLocked(q, b)
<1>1. r = lineByteLocked(w, b)
  BY NotFull, FeedCases
<1>2. /\ Sound(w) /\ w.mode = "line" /\ w.work < WorkUnits /\ w.sessionBytes = q.sessionBytes + 1
      /\ w.frame = q.frame + 1 /\ w.lineCR = q.lineCR
  BY NotFull, WrittenSound
<1>3. Ahead(r)
  BY FeedAhead
<1>4. IsScanner(w) /\ w.terminal = "none" /\ q.frame \in Nat /\ q.sessionBytes \in Nat
  BY <1>2 DEF Sound, Within, IsScanner, Ahead
<1> HIDE DEF w
<1>5. CASE q.lineCR
  <2> DEFINE z == refuseLocked(w, Protocol)
             d == releaseLocked([w EXCEPT !.work = @ + 1])
  <2>1. b = "LF" /\ r = completeLineLocked(w)
    BY <1>1, <1>2, <1>5 DEF NextByte, lineByteLocked
  <2>2. r \in {z, d}
    BY <2>1 DEF completeLineLocked
  <2>3. z.terminal = Protocol /\ d.mode = "between" /\ d.terminal = "none"
    BY <1>4 DEF IsScanner, InitScanner, releaseLocked, refuseLocked
  <2> HIDE DEF z, d, r, b
  <2>4. CASE r = z
    BY <2>3, <2>4 DEF StepsOn, Refused, Protocol, Bounds, r, b
  <2>5. CASE r = d
    <3>1. Ending(q) = <<b>> /\ Ending(r) = <<>>
      BY <1>5, <2>1, <2>3, <2>5 DEF Ending
    <3>2. <<b>> \o <<>> = <<b>>
      <4>1. <<b>> \in Seq({b})
        OBVIOUS
      <4>2. QED
        BY <4>1, ConcatEmptySeq
    <3>3. QED
      BY <1>3, <2>3, <2>5, <3>1, <3>2 DEF StepsOn, Refused, r, b
  <2>6. QED
    BY <2>2, <2>4, <2>5
<1>6. CASE ~q.lineCR
  <2> DEFINE e == [w EXCEPT !.lineCR = TRUE]
  <2>1. b = "CR" /\ r = LineFeasible(e)
    BY <1>1, <1>2, <1>6 DEF NextByte, lineByteLocked
  <2>2. Like(w, e) /\ Place(w, e) /\ e.lineCR
    BY <1>4 DEF IsScanner, InitScanner, Like, Place
  <2> HIDE DEF e, r, b
  <2>3. Sound(e) /\ e.mode = "line" /\ e.work < WorkUnits /\ ~Refused(e)
    BY <1>2, <1>4, <2>2, PlaceSound DEF Like, Refused
  <2>4. Fits(e)
    <3>1. q.frame + 2 <= ControlBytes /\ q.sessionBytes + 2 <= SessionBytes
      BY <1>6 DEF Ahead, Fits, LineNeeds
    <3>2. e.frame = q.frame + 1 /\ e.sessionBytes = q.sessionBytes + 1 /\ LineNeeds(e) = 1
      BY <1>2, <2>2 DEF Like, LineNeeds
    <3>3. e.frame + LineNeeds(e) <= ControlBytes /\ e.sessionBytes + LineNeeds(e) <= SessionBytes
      BY <1>4, <3>1, <3>2, Budgets
    <3>4. QED
      BY <2>3, <3>3 DEF Fits
  <2>5. r = e
    BY <2>1, <2>3, <2>4, LineAhead
  <2>6. Ending(q) = <<"CR", "LF">> /\ Ending(e) = <<"LF">>
    BY <1>6, <2>2, <2>3 DEF Ending
  <2>7. <<"CR", "LF">> = <<"CR">> \o <<"LF">>
    BY PairConcat
  <2>8. QED
    BY <1>3, <2>1, <2>3, <2>5, <2>6, <2>7 DEF StepsOn, r, b
<1>7. QED
  BY <1>5, <1>6

\* The frame in progress can be ended without a budget running out.
LEMMA EndsWithinBudgets ==
  ASSUME NEW q, Ahead(q), ~Refused(q)
  PROVE  FeedAll(q, Ending(q)).terminal # Bounds
<1> DEFINE Good(p, n) == Ahead(p) /\ ~Refused(p) /\ Ending(p) \in Seq(Bytes) /\ Len(Ending(p)) = n
           T == {n \in Nat : \A p : Good(p, n) => FeedAll(p, Ending(p)).terminal # Bounds}
<1>1. ASSUME NEW p, Ahead(p), ~Refused(p)
      PROVE  (p.mode = "between" => Ending(p) = <<>>) /\ Ending(p) \in Seq(Bytes)
  <2>1. p.mode = "between" => Ending(p) = <<>>
    BY DEF Ending
  <2>2. <<>> \in Seq(Bytes)
    OBVIOUS
  <2>3. p.mode # "between" => Ending(p) \in Seq(Bytes)
    BY <1>1, EndingFirst DEF Ahead
  <2>4. QED
    BY <2>1, <2>2, <2>3
<1>2. 0 \in T
  <2>1. ASSUME NEW p, Good(p, 0) PROVE FeedAll(p, Ending(p)).terminal # Bounds
    <3>1. Ending(p) = <<>>
      BY <2>1, EmptySeq
    <3>2. QED
      BY <2>1, <3>1, FeedNone DEF Refused, Bounds
  <2>2. QED
    BY <2>1
<1>3. ASSUME NEW n \in Nat, n \in T PROVE n + 1 \in T
  <2>1. ASSUME NEW p, Good(p, n + 1) PROVE FeedAll(p, Ending(p)).terminal # Bounds
    <3> DEFINE b == NextByte(p)
               r == feedLocked(p, b)
    <3>1. p.mode # "between"
      <4>1. Ending(p) # <<>>
        BY <2>1, EmptySeq
      <4>2. QED
        BY <1>1, <2>1, <4>1
    <3>2. StepsOn(p, r)
      <4>1. p.mode = "line" \/ p.mode = "fetch"
        BY <2>1, <3>1 DEF Ahead, Sound, Within
      <4>2. QED
        BY <2>1, <4>1, FetchEnded, LineEnded
    <3>3. Fed(p, b) = r
      BY <2>1 DEF Fed
    <3> HIDE DEF b, r
    <3>4. CASE Refused(r) /\ r.terminal # Bounds
      <4>1. PICK c \in Seq(Bytes) : Ending(p) = <<b>> \o c
        BY <2>1, <3>1, EndingFirst DEF b, Ahead
      <4>2. FeedAll(p, Ending(p)) = FeedAll(r, c)
        BY <3>3, <4>1, FeedFirst
      <4>3. QED
        BY <3>4, <4>2, FeedRefused
    <3>5. CASE ~Refused(r) /\ Ahead(r) /\ Ending(p) = <<b>> \o Ending(r)
      <4>1. Ending(r) \in Seq(Bytes)
        BY <1>1, <3>5
      <4>2. Len(Ending(r)) = n
        BY <2>1, <3>5, <4>1
      <4>3. FeedAll(p, Ending(p)) = FeedAll(r, Ending(r))
        BY <3>3, <3>5, <4>1, FeedFirst
      <4>4. QED
        BY <1>3, <3>5, <4>1, <4>2, <4>3
    <3>6. QED
      BY <3>2, <3>4, <3>5 DEF StepsOn, b
  <2>2. QED
    BY <2>1
<1>4. Nat \subseteq T
  <2> HIDE DEF T
  <2>1. QED
    BY <1>2, <1>3, NatInSet
<1>5. Ending(q) \in Seq(Bytes)
  BY <1>1
<1>6. Good(q, Len(Ending(q))) /\ Len(Ending(q)) \in Nat
  BY <1>5
<1>7. QED
  BY <1>4, <1>6

-----------------------------------------------------------------------------
(* The session keeps the frame in progress within the budgets.             *)

\* What was released or dispatched does not matter to the budgets.
LEMMA ReleasedAhead ==
  ASSUME NEW q, Ahead(q), NEW r, IsScanner(r),
         \/ \E n : r = [q EXCEPT !.pending = n]
         \/ r = [q EXCEPT !.dispatch = "active"]
  PROVE  Ahead(r)
<1>1. Within(q) /\ Nested(q) /\ Fits(q) /\ IsScanner(q)
  BY DEF Ahead, Sound, Within
<1>2. /\ r.mode = q.mode /\ r.terminal = q.terminal /\ r.sessionBytes = q.sessionBytes
      /\ r.responses = q.responses /\ r.work = q.work /\ r.frame = q.frame /\ r.tokens = q.tokens
      /\ r.depth = q.depth /\ r.state = q.state /\ r.literal = q.literal /\ r.digits = q.digits
      /\ r.lineCR = q.lineCR
  BY <1>1 DEF IsScanner, InitScanner
<1>3. Within(r)
  BY <1>1, <1>2 DEF Within
<1>4. Nested(r)
  BY <1>1, <1>2 DEF Nested
<1>5. Fits(r)
  <2>1. BytesNeeded(r) = BytesNeeded(q) /\ Closing(r) = Closing(q) /\ LineNeeds(r) = LineNeeds(q)
    BY <1>2 DEF BytesNeeded, Closing, LineNeeds
  <2>2. QED
    BY <1>1, <1>2, <2>1 DEF Fits
<1>6. QED
  BY <1>3, <1>4, <1>5 DEF Ahead, Sound

\* The bytes of a chunk keep the frame in progress within the budgets.
LEMMA FeedAllAhead ==
  ASSUME NEW q, Ahead(q), NEW c, c = <<>> \/ \E b, d : c = <<b>> \/ c = <<b, d>>
  PROVE  Ahead(FeedAll(q, c))
<1>1. ASSUME NEW p, Ahead(p), NEW b PROVE Ahead(Fed(p, b))
  BY <1>1, FeedAhead DEF Fed
<1>2. CASE c = <<>>
  BY <1>2, FeedNone
<1>3. ASSUME NEW b, c = <<b>> PROVE Ahead(FeedAll(q, c))
  BY <1>1, <1>3, FeedOne
<1>4. ASSUME NEW b, NEW d, c = <<b, d>> PROVE Ahead(FeedAll(q, c))
  BY <1>1, <1>4, FeedTwo
<1>5. QED
  BY <1>2, <1>3, <1>4

\* A refusal of the source or of the owner drops the frame.
LEMMA DroppedAhead ==
  ASSUME NEW q, Ahead(q)
  PROVE  /\ \A e : Ahead(sourceFailedLocked(q, e)) /\ \A cause : Ahead(abort(q, cause))
         /\ Ahead(beginDispatch(q))
<1>1. IsScanner(q)
  BY DEF Ahead, Sound, Within
<1>2. {"operation_canceled", "command_timed_out", Protocol, "bridge_unreachable"} \subseteq Terminals
  BY DEF Terminals
<1>3. \A code \in Terminals : Ahead(refuseLocked(q, code))
  BY <1>1, RefuseAhead
<1>4. ASSUME NEW e PROVE Ahead(sourceFailedLocked(q, e))
  <2>1. sourceFailedLocked(q, e) \in
          {refuseLocked(q, "operation_canceled"), refuseLocked(q, "command_timed_out"),
           refuseLocked(q, Protocol), refuseLocked(q, "bridge_unreachable")}
    BY DEF sourceFailedLocked
  <2>2. QED
    BY <1>2, <1>3, <2>1
<1>5. ASSUME NEW cause PROVE Ahead(abort(q, cause))
  BY <1>2, <1>3 DEF abort
<1>6. Ahead(beginDispatch(q))
  <2> DEFINE r == [q EXCEPT !.dispatch = "active"]
  <2>1. IsScanner(r)
    BY <1>1 DEF IsScanner, InitScanner
  <2> HIDE DEF r
  <2>2. Ahead(r)
    BY <2>1, ReleasedAhead DEF r
  <2>3. QED
    BY <1>2, <1>3, <2>2 DEF beginDispatch, r
<1>7. QED
  BY <1>4, <1>5, <1>6

\* So does every step of the session.
LEMMA AheadStep ==
  ASSUME Inv, Inv', Ahead(s), Next
  PROVE  Ahead(s')
<1>1. IsScanner(s')
  BY DEF Inv, ScanInv
<1>2. ASSUME NEW q, Ahead(q), ReadLoop(q) PROVE Ahead(s')
  <2>1. \/ s' = q
        \/ s' = [q EXCEPT !.pending = q.pending - Min2(room', q.pending)]
    <3>1. IsScanner(q) /\ q.pending \in Nat
      BY <1>2 DEF Ahead, Sound, Within, IsScanner
    <3>2. [q EXCEPT !.pending = @ - Min2(room', q.pending)]
            = [q EXCEPT !.pending = q.pending - Min2(room', q.pending)]
      BY <3>1 DEF IsScanner, InitScanner
    <3>3. CASE q.pending > 0
      BY <1>2, <3>2, <3>3 DEF ReadLoop
    <3>4. CASE q.pending = 0
      BY <1>2, <3>4 DEF ReadLoop
    <3>5. QED
      BY <3>1, <3>3, <3>4
  <2>2. QED
    BY <1>1, <1>2, <2>1, ReleasedAhead
<1>3. CASE Reading(Reads)
  BY <1>2, <1>3 DEF Reading, Reads, Read
<1>4. ASSUME NEW c, NEW e, SourceReturns(c, e), c = <<>> \/ \E b, d : c = <<b>> \/ c = <<b, d>>
      PROVE  Ahead(s')
  <2> DEFINE fed == FeedAll(s, c)
  <2>1. Ahead(fed) /\ Ahead(sourceFailedLocked(fed, e))
    BY <1>4, FeedAllAhead, DroppedAhead
  <2>2. ReadLoop(IF ~Refused(fed) /\ e # "none" THEN sourceFailedLocked(fed, e) ELSE fed)
    BY <1>4 DEF SourceReturns
  <2> HIDE DEF fed
  <2>3. QED
    BY <1>2, <2>1, <2>2
<1>5. CASE Reading(PeerSends)
  <2>1. CASE \E chunk \in Chunks(s) : SourceReturns(chunk, "none")
    <3>1. PICK chunk \in Chunks(s) : SourceReturns(chunk, "none")
      BY <2>1
    <3>2. \E b, d : chunk = <<b>> \/ chunk = <<b, d>>
      BY <3>1 DEF Chunks
    <3>3. QED
      BY <1>4, <3>1, <3>2
  <2>2. CASE \E b \in Offered(s) : SourceReturns(<<b>>, "eof")
    BY <1>4, <2>2
  <2>3. CASE SourceReturns(<<>>, "eof")
    BY <1>4, <2>3
  <2>4. QED
    BY <1>5, <2>1, <2>2, <2>3 DEF Reading, PeerSends
<1>6. CASE Reading(SourceFails)
  BY <1>4, <1>6 DEF Reading, SourceFails
<1>7. CASE Aborts
  BY <1>7, DroppedAhead DEF Aborts
<1>8. CASE FetchStructure
  <2>1. Ahead(beginDispatch(s))
    BY DroppedAhead
  <2>2. QED
    BY <1>8, <2>1 DEF FetchStructure, Fails, FailsIn
<1>9. CASE Start
  BY <1>9 DEF Start, Fails, FailsIn, quarantineVars
<1>10. CASE CommandFails
  BY <1>10 DEF CommandFails, Fails, FailsIn
<1>11. CASE Authenticate \/ Fetched \/ Close \/ AbortCloses \/ AbortEnds \/ ContextEnds
  <2>1. s' = s
    BY <1>11 DEF Authenticate, Fetched, Close, AbortCloses, AbortEnds, ContextEnds, quarantineVars
  <2>2. QED
    BY <2>1
<1>12. QED
  BY <1>3, <1>5, <1>6, <1>7, <1>8, <1>9, <1>10, <1>11 DEF Next, CallerNext

\* The budgets are checked ahead of every byte: none is overrun, and the frame a
\* read waits in can always be ended without exceeding one.
THEOREM BudgetsHold == Spec => []BudgetsAreAhead
<1>1. Init => Ahead(s)
  <2>1. IsScanner(InitScanner)
    BY DEF IsScanner, InitScanner, Terminals, ScanStates
  <2>2. /\ InitScanner.mode = "between" /\ InitScanner.sessionBytes = 0 /\ InitScanner.responses = 0
        /\ InitScanner.work = 0 /\ InitScanner.frame = 0 /\ InitScanner.tokens = 0
        /\ InitScanner.depth = 0 /\ InitScanner.literal = 0 /\ InitScanner.digits = 0
    BY DEF InitScanner
  <2>3. Within(InitScanner)
    BY <2>1, <2>2, Budgets DEF Within
  <2>4. Nested(InitScanner) /\ Fits(InitScanner)
    BY <2>2 DEF Nested, Fits
  <2>5. QED
    BY <2>3, <2>4 DEF Ahead, Sound, Init, QuarantineInit
<1>2. Inv /\ Inv' /\ Ahead(s) /\ [Next]_vars => Ahead(s)'
  <2>1. ASSUME UNCHANGED vars, Ahead(s) PROVE Ahead(s')
    <3>1. s' = s
      BY <2>1 DEF vars, quarantineVars
    <3>2. QED
      BY <2>1, <3>1
  <2>2. Inv /\ Inv' /\ Ahead(s) /\ [Next]_vars => Ahead(s')
    BY <2>1, AheadStep
  <2>3. QED
    BY <2>2 DEF Ahead, Sound, Within, Nested, Fits, IsScanner, LineNeeds, BytesNeeded, Closing
<1>3. Ahead(s) => BudgetsAreAhead
  <2>1. ASSUME Ahead(s), ~Refused(s) PROVE FeedAll(s, Ending(s)).terminal # Bounds
    BY <2>1, EndsWithinBudgets
  <2>2. QED
    BY <2>1 DEF BudgetsAreAhead, Ahead, Sound, Within
<1>4. QED
  BY <1>1, <1>2, <1>3, SessionInvariant, PTL DEF Spec
===============================================================================
