------------------------------ MODULE SearchWire ------------------------------
(***************************************************************************)
(* How the answer to one UID SEARCH is read twice: by go-imap, which       *)
(* merges and replaces sets as responses arrive, and by the observer in    *)
(* readBudgetConn, which sees lines and must find on them what go-imap     *)
(* hides: a UID named twice, a UID outside the window.                     *)
(*                                                                         *)
(* A wire is a sequence of responses; the observer gets their lines.  A    *)
(* line ends in a literal or not; the lines of a literal's content look    *)
(* like any line.  Numbers are intervals <<start, stop>>.  Characters      *)
(* (atoms, quoting, correlators, MODSEQ groups) are abstracted to whether  *)
(* the walk over the line is complete.                                     *)
(***************************************************************************)
EXTENDS Integers, Sequences, FiniteSets, SequencesExt

Window(start, end) == [Start |-> start, End |-> end]

width(w) == w.End - w.Start + 1

-----------------------------------------------------------------------------
(* Responses and their lines.                                              *)

\* kind: "search", "esearch", "data", "text" or "unclassified" (classifyIMAPResponse).
\* whole: the walk over the line consumes it.  literal: lines of the literal
\* this line ends with, 0 without one.
Line(kind, nums, whole, literal) ==
  [kind |-> kind, nums |-> nums, whole |-> whole, literal |-> literal]

\* tail: what follows the literal, for an ESEARCH.  applied: its correlator
\* names the running command.  counts: it has MIN, MAX or COUNT.
Response(kind, nums) ==
  [kind |-> kind, nums |-> nums, whole |-> TRUE, content |-> <<>>, tail |-> <<>>,
   all |-> nums # <<>>, applied |-> TRUE, counts |-> FALSE]

\* A response with a literal is a line, the content of the literal, a line.
LinesOf(r) ==
  IF r.content = <<>> THEN <<Line(r.kind, r.nums, r.whole, 0)>>
  ELSE IF r.kind = "text" THEN <<Line("text", r.nums, r.whole, Len(r.content))>>
  ELSE <<Line(r.kind, r.nums, r.whole, Len(r.content))>> \o r.content
         \o <<Line("data", r.tail, r.whole, 0)>>

Lines(wire) == FlattenSeq([i \in DOMAIN wire |-> LinesOf(wire[i])])

-----------------------------------------------------------------------------
(* The observer.                                                           *)

\* beginSearch.
beginSearch == [searchSeen |-> FALSE, eSearchSeen |-> FALSE, uids |-> {},
                duplicate |-> FALSE, incomplete |-> FALSE, outOfWindow |-> FALSE,
                skip |-> 0,           \* searchLiteralBytes, in lines
                continues |-> FALSE,  \* searchContinues
                pending |-> <<>>]     \* searchPending: <<nums>> of an ESEARCH cut by a literal

\* searchRangeLocked, for each range of a line: a zero cannot be judged, any
\* other number has to be in the window.
searchRangeLocked(o, w, nums) ==
  LET zero(n) == n[1] = 0 \/ n[2] = 0
  IN [o EXCEPT !.incomplete = @ \/ \E i \in DOMAIN nums : zero(nums[i]),
               !.outOfWindow = @ \/ \E i \in DOMAIN nums :
                 ~zero(nums[i]) /\ (nums[i][1] < w.Start \/ nums[i][2] > w.End)]

\* A bug of observeSearchUIDsLocked: duplicates are looked for within a line.
observeSearchUIDsLockedPerLine(o, w, nums) ==
  [searchRangeLocked(o, w, nums) EXCEPT
     !.duplicate = @ \/ \E i, j \in DOMAIN nums : i # j /\ nums[i][1] = nums[j][1],
     !.uids = {nums[i][1] : i \in DOMAIN nums}]

\* observeSearchUIDsLocked: go-imap accumulates every SEARCH line of a command,
\* so a UID is a duplicate on this line and after earlier ones.
observeSearchUIDsLocked(o, w, nums) ==
  [searchRangeLocked(o, w, nums) EXCEPT
     !.duplicate = @ \/ \E i, j \in DOMAIN nums :
                         nums[i][1] \in o.uids \/ (i # j /\ nums[i][1] = nums[j][1]),
     !.uids = @ \cup {nums[i][1] : i \in DOMAIN nums}]

\* sequenceSetOverlaps.
sequenceSetOverlaps(nums) ==
  \E i, j \in DOMAIN nums : i # j /\ nums[i][1] <= nums[j][1] /\ nums[j][1] <= nums[i][2]

\* eSearchAllOverlaps, on the whole logical line.
eSearchAllOverlaps(o, w, nums, whole) ==
  [searchRangeLocked(o, w, nums) EXCEPT
     !.duplicate = @ \/ sequenceSetOverlaps(nums),
     !.incomplete = @ \/ (~whole /\ ~sequenceSetOverlaps(nums))]

\* observeSearchResponseLocked, one line: the content of a literal is skipped,
\* a line that resumes a response is not classified, an ESEARCH cut by a
\* literal is judged once it is whole; status text carries no literal.
observe(o, w, l) ==
  LET kind == IF o.pending # <<>> THEN "esearch" ELSE IF o.continues THEN "data" ELSE l.kind
      nums == IF o.pending # <<>> THEN o.pending[1] \o l.nums ELSE l.nums
      literal == IF kind = "text" THEN 0 ELSE l.literal
      next == [o EXCEPT !.continues = literal > 0, !.skip = literal, !.pending = <<>>]
  IN CASE o.skip > 0 -> [o EXCEPT !.skip = @ - 1]
       [] o.skip = 0 /\ kind = "unclassified" -> [next EXCEPT !.incomplete = TRUE]
       [] o.skip = 0 /\ kind = "search" ->
            LET seen == observeSearchUIDsLocked([next EXCEPT !.searchSeen = TRUE], w, nums)
            IN [seen EXCEPT !.incomplete = @ \/ ~l.whole]
       [] o.skip = 0 /\ kind = "esearch" /\ literal > 0 ->
            [next EXCEPT !.eSearchSeen = TRUE, !.pending = <<nums>>]
       [] o.skip = 0 /\ kind = "esearch" /\ literal = 0 ->
            eSearchAllOverlaps([next EXCEPT !.eSearchSeen = TRUE], w, nums, l.whole)
       [] OTHER -> next

Observed(wire, w) == FoldLeft(LAMBDA o, l : observe(o, w, l), beginSearch, Lines(wire))

-----------------------------------------------------------------------------
(* go-imap.                                                                *)

UIDsOf(nums) == UNION {nums[i][1] .. nums[i][2] : i \in DOMAIN nums}

\* A UID SEARCH starts with a typed empty set.
EmptyData == [typed |-> TRUE, uids |-> {}, counts |-> FALSE]

\* SEARCH lines accumulate; a matching ESEARCH replaces everything; one for
\* another command is ignored.
decode(d, r) ==
  CASE r.kind = "search" -> [d EXCEPT !.typed = TRUE, !.uids = @ \cup UIDsOf(r.nums)]
    [] r.kind = "esearch" /\ r.applied ->
         [typed |-> r.all, uids |-> UIDsOf(r.nums \o r.tail), counts |-> r.counts]
    [] OTHER -> d

Decoded(wire) == FoldLeft(decode, EmptyData, wire)

\* eSearchAppliedToUIDSearch.
eSearchAppliedToUIDSearch(d) == d.typed => d.uids # {}

-----------------------------------------------------------------------------
(* UIDSearchWindow.                                                        *)

Failed(code) == [err |-> code, uids |-> {}]
Found(uids) == [err |-> "none", uids |-> uids]

\* boundedSearchUIDs: a typed set inside the window and within the limit.
boundedSearchUIDs(typed, uids, w, limit) ==
  CASE ~typed -> Failed("imap_protocol_error")
    [] typed /\ 0 \in uids -> Failed("imap_protocol_error")
    [] typed /\ 0 \notin uids /\
       (Cardinality(uids) > limit \/ \E u \in uids : u < w.Start \/ u > w.End) ->
         Failed("bounds_exceeded")
    [] OTHER -> Found(uids)

UIDSearchWindow(wire, w, limit, budget) ==
  LET o == Observed(wire, w)
      d == Decoded(wire)
      empty == ~o.searchSeen /\ ~d.typed
      clean == Len(Lines(wire)) <= budget /\ ~o.duplicate /\ ~o.incomplete /\ ~o.outOfWindow
  IN CASE limit < 1 \/ limit > width(w) -> Failed("bounds_exceeded")
       [] Len(Lines(wire)) > budget -> Failed("bounds_exceeded")
       [] Len(Lines(wire)) <= budget /\ (o.duplicate \/ o.incomplete) -> Failed("imap_protocol_error")
       [] Len(Lines(wire)) <= budget /\ ~o.duplicate /\ ~o.incomplete /\ o.outOfWindow -> Failed("bounds_exceeded")
       [] clean /\ ~o.searchSeen /\ (~o.eSearchSeen \/ ~eSearchAppliedToUIDSearch(d)) ->
            Failed("imap_protocol_error")
       [] clean /\ empty /\ d.counts -> Failed("imap_protocol_error")
       [] OTHER -> boundedSearchUIDs(d.typed \/ empty, d.uids, w, limit)

-----------------------------------------------------------------------------
(* What a wire says, response by response: the reference for the observer. *)

Named(r) == IF r.kind = "esearch" THEN r.nums \o r.tail ELSE r.nums

Answers(wire) ==
  {i \in DOMAIN wire : wire[i].kind = "search" \/ (wire[i].kind = "esearch" /\ wire[i].applied)}

\* The responses tell the matches in w, or leave the command unanswered.
Truthful(wire, w, matches) ==
  LET given == Answers(wire)
      there == matches \cap (w.Start .. w.End)
  IN \/ given = {}
     \/ /\ \A i \in given : wire[i].kind = "search"
        /\ UNION {UIDsOf(wire[i].nums) : i \in given} = there
     \/ \E i \in given :
          /\ given = {i} /\ wire[i].kind = "esearch"
          /\ IF wire[i].all THEN UIDsOf(Named(wire[i])) = there
             ELSE wire[i].counts \/ there = {}

Apart(m, n) == m[2] < n[1] \/ n[2] < m[1]

\* A readable answer in which every number is in the window and named once:
\* over all SEARCH responses, and in each ESEARCH.
Unambiguous(wire, w, budget) ==
  /\ Len(Lines(wire)) <= budget
  /\ \A i \in DOMAIN wire :
       /\ wire[i].kind # "unclassified" /\ wire[i].whole
       /\ wire[i].kind \in {"search", "esearch"} =>
            \A a \in DOMAIN Named(wire[i]) :
              /\ w.Start <= Named(wire[i])[a][1] /\ Named(wire[i])[a][2] <= w.End
              /\ \A b \in DOMAIN Named(wire[i]) :
                   a # b => Apart(Named(wire[i])[a], Named(wire[i])[b])
       /\ \A j \in DOMAIN wire \ {i} :
            wire[i].kind = "search" /\ wire[j].kind = "search" =>
              \A a \in DOMAIN wire[i].nums, b \in DOMAIN wire[j].nums :
                Apart(wire[i].nums[a], wire[j].nums[b])
  /\ \E i \in Answers(wire) : wire[i].all \/ ~wire[i].counts
===============================================================================
