------------------------------ MODULE MailReads ------------------------------
(***************************************************************************)
(* The read operations of the adapter as dialogues with the server: a      *)
(* search page walks UID windows downwards from the UIDNEXT of its EXAMINE *)
(* snapshot, fetching the metadata of each window; a message read checks   *)
(* the generation, then that the UID is there, then fetches it.  A lost    *)
(* transport replays the operation once, from EXAMINE.                     *)
(*                                                                         *)
(* The mailbox is shared: others deliver and expunge between any two       *)
(* commands, and may recreate it, which ends the selected session.  A      *)
(* mailbox name, criteria and header text are abstracted: mail is the set  *)
(* of UIDs that match; what a message says is its <<generation, UID>>.     *)
(***************************************************************************)
EXTENDS SearchWire, BridgeErrors

CONSTANTS
  Width,           \* searchWindowWidth
  MaxWindows,      \* maxSearchWindows
  MaxResults,      \* Bounds.MaxSearchResults
  MaxOutputBytes,  \* Bounds.MaxOutputBytes
  ItemBytes,       \* possible sizes of one encoded item
  LineBudget,      \* lines the input budget of a SEARCH admits
  MaxUID,          \* bound: UIDs the server hands out
  MaxGenerations   \* bound: times the mailbox exists

ASSUME ReadAssumption ==
  /\ {Width, MaxWindows, MaxResults, MaxUID, MaxGenerations} \subseteq Nat \ {0}
  /\ MaxOutputBytes \in Nat /\ LineBudget \in Nat /\ ItemBytes \subseteq Nat \ {0}

VARIABLES
  box,       \* the mailbox: generation (UIDVALIDITY), UIDNEXT, matching UIDs
  selected,  \* the session still has the mailbox it EXAMINEd
  pc,        \* "idle", "examine", "search", "fetch", "done"
  kind, id,  \* the operation and the identifier it was given
  attempt,   \* loop variable of execute
  snapshot,  \* what EXAMINE answered
  remaining, windows, page, bytes, omitted, uids,  \* locals of SearchMailPage
  reply,     \* what the operation returned
  truthful,  \* history: no answer of this attempt misstated the mailbox
  judged     \* history: SEARCH answers were accepted exactly when unambiguous

op == <<kind, id>>
locals == <<snapshot, remaining, windows, page, bytes, omitted, uids>>
vars == <<box, selected, pc, op, attempt, locals, reply, truthful, judged>>

Kinds == {"page", "metadata", "body", "headers"}

NoId == [signed |-> FALSE, gen |-> 0, uid |-> 0]
NoReply == [err |-> "none", messages |-> <<>>, truncated |-> FALSE]

\* Identifiers the adapter issued, and ones another key signed.
Ids == [signed : BOOLEAN, gen : 1 .. box.gen, uid : 1 .. MaxUID]

Item == [gen : Nat, uid : Nat, of : Nat \X Nat]

Reply == [err : Codes \cup {"none", "mailbox_not_found"}, messages : Seq(Item), truncated : BOOLEAN]

TypeOK ==
  /\ box \in [gen : 1 .. MaxGenerations, next : 1 .. MaxUID + 1, mail : SUBSET (1 .. MaxUID)]
  /\ box.mail \subseteq 1 .. box.next - 1
  /\ {selected, omitted, truthful, judged} \subseteq BOOLEAN
  /\ pc \in {"idle", "examine", "search", "fetch", "done"}
  /\ kind \in Kinds /\ id \in [signed : BOOLEAN, gen : 0 .. MaxGenerations, uid : 0 .. MaxUID]
  /\ attempt \in 0 .. 1 /\ snapshot \in [gen : 0 .. MaxGenerations, next : 0 .. MaxUID + 1]
  /\ remaining \in 0 .. MaxUID + 1 /\ windows \in 0 .. MaxWindows
  /\ page \in Seq(Item) /\ Len(page) <= MaxResults /\ uids \in Seq(1 .. MaxUID)
  /\ bytes \in Int /\ (page # <<>> => bytes <= MaxOutputBytes)
  /\ reply \in Reply

Init ==
  /\ box \in {[gen |-> 1, next |-> n, mail |-> m] :
                n \in {MaxUID}, m \in SUBSET (1 .. MaxUID - 1)}
  /\ selected = FALSE /\ pc = "idle" /\ kind = "page" /\ id = NoId /\ attempt = 0
  /\ snapshot = [gen |-> 0, next |-> 0] /\ remaining = 0 /\ windows = 0
  /\ page = <<>> /\ bytes = 2 /\ omitted = FALSE /\ uids = <<>>
  /\ reply = NoReply /\ truthful = TRUE /\ judged = TRUE

-----------------------------------------------------------------------------
(* The frame of execute.                                                   *)

Return(r) ==
  /\ pc' = "done" /\ reply' = r
  /\ UNCHANGED <<box, selected, op, attempt, locals>>

\* The attempt fails: replayed once when the transport was lost.
Fail(code) ==
  IF attempt = 0 /\ canReplay(Live, code)
  THEN /\ pc' = "examine" /\ attempt' = 1 /\ selected' = FALSE
       /\ UNCHANGED <<box, op, locals, reply>>
  ELSE Return([NoReply EXCEPT !.err = code])

\* The caller asks for a page; q says what is wrong with the query.
SearchMailPage(q) ==
  /\ pc = "idle" /\ kind' = "page" /\ id' = NoId /\ attempt' = 0
  /\ LET code == CASE q = "unnamed" -> "mailbox_not_found"
                   [] q = "oversized" \/ (q = "ok" /\ MaxOutputBytes < 2) -> "bounds_exceeded"
                   [] OTHER -> "none"
     IN /\ pc' = IF code = "none" THEN "examine" ELSE "done"
        /\ reply' = [NoReply EXCEPT !.err = code]
  /\ truthful' = TRUE /\ judged' = TRUE
  /\ UNCHANGED <<box, selected, locals>>

\* decodeMessageID: only what this adapter signed.
decodeMessageID(i) == i.signed

\* GetMessageMetadata, GetMessageBody and GetMessageHeaders are given an identifier.
GetMessage(k, i) ==
  /\ pc = "idle" /\ kind' = k /\ id' = i /\ attempt' = 0
  /\ i.gen = box.gen => i.uid < box.next
  /\ pc' = IF decodeMessageID(i) THEN "examine" ELSE "done"
  /\ reply' = [NoReply EXCEPT !.err = IF decodeMessageID(i) THEN "none" ELSE "stale_message_id"]
  /\ truthful' = TRUE /\ judged' = TRUE
  /\ UNCHANGED <<box, selected, locals>>

-----------------------------------------------------------------------------
(* SearchMailPage, from EXAMINE to the page.                               *)

\* A bug of LoopHead: the page says whether a window left matches out.
LoopHeadForgetsRest(rem, won, msgs, out) ==
  IF rem > 1 /\ won < MaxWindows /\ Len(msgs) < MaxResults
  THEN pc' = "search" /\ UNCHANGED reply
  ELSE pc' = "done" /\ reply' = [err |-> "none", messages |-> msgs, truncated |-> out]

\* The loop condition, and the page when it ends.
LoopHead(rem, won, msgs, out) ==
  IF rem > 1 /\ won < MaxWindows /\ Len(msgs) < MaxResults
  THEN pc' = "search" /\ UNCHANGED reply
  ELSE pc' = "done" /\ reply' = [err |-> "none", messages |-> msgs,
                                 truncated |-> out \/ rem > 1]

\* A bug of ExaminePage: results of the lost attempt are kept.
ExaminePageKeepsResults ==
  /\ snapshot' = [gen |-> box.gen, next |-> box.next]
  /\ remaining' = box.next /\ windows' = 0 /\ omitted' = FALSE /\ uids' = <<>>
  /\ UNCHANGED <<page, bytes>>
  /\ LoopHead(box.next, 0, page, FALSE)

\* Every attempt starts with results of its own.
ExaminePage ==
  /\ snapshot' = [gen |-> box.gen, next |-> box.next]
  /\ remaining' = box.next /\ windows' = 0 /\ omitted' = FALSE /\ uids' = <<>>
  /\ page' = <<>> /\ bytes' = 2
  /\ LoopHead(box.next, 0, <<>>, FALSE)

\* A bug of ExamineMessage: the generation was checked by the first attempt.
ExamineMessageOnce ==
  /\ snapshot' = [gen |-> box.gen, next |-> box.next]
  /\ UNCHANGED <<remaining, windows, page, bytes, omitted, uids>>
  /\ IF attempt = 0 /\ box.gen # id.gen
     THEN pc' = "done" /\ reply' = [NoReply EXCEPT !.err = "stale_message_id"]
     ELSE pc' = "search" /\ UNCHANGED reply

\* A read goes on only in the generation its identifier names.
ExamineMessage ==
  /\ snapshot' = [gen |-> box.gen, next |-> box.next]
  /\ UNCHANGED <<remaining, windows, page, bytes, omitted, uids>>
  /\ IF box.gen # id.gen
     THEN pc' = "done" /\ reply' = [NoReply EXCEPT !.err = "stale_message_id"]
     ELSE pc' = "search" /\ UNCHANGED reply

Examine ==
  /\ pc = "examine" /\ selected' = TRUE /\ truthful' = TRUE
  /\ IF kind = "page" THEN ExaminePage ELSE ExamineMessage
  /\ UNCHANGED <<box, op, attempt, judged>>

\* A command fails: NO, a lost transport, a deadline, a selected mailbox that is gone.
CommandFails(code) ==
  /\ pc \in {"examine", "search", "fetch"}
  /\ Fail(code) /\ UNCHANGED <<truthful, judged>>

\* The next window, or the one UID of a read.
NextWindow ==
  IF kind = "page"
  THEN Window(IF remaining > Width THEN remaining - Width ELSE 1, remaining - 1)
  ELSE Window(id.uid, id.uid)

\* sort.Slice by descending UID: the elements of S, each at the place that
\* counts those not below it.
NewestFirst(S, uid) ==
  [i \in 1 .. Cardinality(S) |-> CHOOSE x \in S : Cardinality({y \in S : uid[y] >= uid[x]}) = i]

\* selectHighestUIDs: newest first, within what the page has room for.
selectHighestUIDs(found) ==
  LET sorted == NewestFirst(found, [u \in found |-> u])
      room == MaxResults - Len(page)
  IN IF Len(sorted) > room THEN SubSeq(sorted, 1, room) ELSE sorted

\* A window was searched: its highest UIDs are fetched, an empty one is passed.
PageWindow(found) ==
  LET chosen == selectHighestUIDs(found)
  IN /\ omitted' = (omitted \/ Len(chosen) < Cardinality(found))
     /\ uids' = chosen
     /\ IF chosen = <<>>
        THEN /\ remaining' = NextWindow.Start /\ windows' = windows + 1
             /\ LoopHead(NextWindow.Start, windows + 1, page, omitted)
        ELSE pc' = "fetch" /\ UNCHANGED <<remaining, windows, reply>>
     /\ UNCHANGED <<box, selected, op, attempt, snapshot, page, bytes>>

\* requireMessageUID.
requireMessageUID(r) ==
  CASE r.err = "bounds_exceeded" -> "imap_protocol_error"
    [] r.err = "none" /\ r.uids = {} -> "stale_message_id"
    [] r.err = "none" /\ r.uids # {} /\ r.uids # {id.uid} -> "imap_protocol_error"
    [] OTHER -> r.err

\* The answer to one UID SEARCH, and what the operation makes of it.
Search(wire) ==
  /\ pc = "search" /\ selected
  /\ \E r \in {UIDSearchWindow(wire, NextWindow, width(NextWindow), LineBudget)} :
       /\ truthful' = (truthful /\ Truthful(wire, NextWindow, box.mail))
       /\ judged' = (judged /\ (r.err = "none" <=> Unambiguous(wire, NextWindow, LineBudget)))
       /\ CASE kind = "page" /\ r.err = "none" -> PageWindow(r.uids)
            [] kind = "page" /\ r.err # "none" -> Fail(r.err)
            [] kind # "page" /\ requireMessageUID(r) = "none" ->
                 /\ pc' = "fetch"
                 /\ UNCHANGED <<box, selected, op, attempt, locals, reply>>
            [] OTHER -> Fail(requireMessageUID(r))

-----------------------------------------------------------------------------
(* FETCH.                                                                  *)

\* One message of a FETCH answer: its UID items, how many FLAGS and header or
\* body sections it has, what is wrong with the section, and what it says.
Message(u) == [uids |-> <<u>>, flags |-> 1, sections |-> 1, flaw |-> "none", of |-> <<box.gen, u>>]

\* What UIDFetchMetadata finds in one message.
FetchedMessage(m) ==
  CASE Len(m.uids) # 1 \/ 0 \in {m.uids[i] : i \in DOMAIN m.uids} \/ m.flags > 1
         \/ m.sections # 1 \/ m.flaw \in {"foreign", "unparsable"} -> "imap_protocol_error"
    [] m.flaw = "oversized" /\ m.sections = 1 /\ Len(m.uids) = 1 /\ m.flags <= 1 -> "bounds_exceeded"
    [] OTHER -> "none"

\* validateFetchedMetadataUIDs: what was asked for, each once.
validateFetchedMetadataUIDs(requested, answer) ==
  /\ Len(answer) = Len(requested)
  /\ {answer[i].uids[1] : i \in DOMAIN answer} = {requested[i] : i \in DOMAIN requested}

\* UIDFetchMetadata: the first flaw, or the answer as a whole.
UIDFetchMetadata(requested, answer) ==
  LET flawed == SelectInSeq(answer, LAMBDA m : FetchedMessage(m) # "none")
  IN CASE flawed > 0 -> FetchedMessage(answer[flawed])
       [] flawed = 0 /\ ~validateFetchedMetadataUIDs(requested, answer) -> "imap_protocol_error"
       [] OTHER -> "none"

\* UIDFetchBody and UIDFetchHeaders: one message, with the UID asked for.
UIDFetchBody(uid, answer) ==
  CASE answer = <<>> -> "imap_protocol_error"
    [] Len(answer) > 0 /\ FetchedMessage(answer[1]) # "none" -> FetchedMessage(answer[1])
    [] Len(answer) > 0 /\ FetchedMessage(answer[1]) = "none"
         /\ (Len(answer) > 1 \/ answer[1].uids[1] # uid) -> "imap_protocol_error"
    [] OTHER -> "none"

\* The items of a window, newest first, under the identity of the snapshot.
Items(answer) ==
  LET order == NewestFirst(DOMAIN answer, [k \in DOMAIN answer |-> answer[k].uids[1]])
  IN [i \in DOMAIN answer |->
        [gen |-> snapshot.gen, uid |-> answer[order[i]].uids[1], of |-> answer[order[i]].of]]

\* Encoded items and separators are charged to the output bound.
PageItems(answer, size) ==
  LET msgs == page \o Items(answer)
      charged == bytes + Len(answer) * size + Len(msgs) - (IF page = <<>> THEN 1 ELSE Len(page))
  IN IF charged > MaxOutputBytes THEN Fail("bounds_exceeded")
     ELSE /\ page' = msgs /\ bytes' = charged
          /\ remaining' = NextWindow.Start /\ windows' = windows + 1
          /\ LoopHead(NextWindow.Start, windows + 1, msgs, omitted)
          /\ UNCHANGED <<box, selected, op, attempt, snapshot, omitted, uids>>

Requested == IF kind = "page" THEN uids ELSE <<id.uid>>

\* The answer to one FETCH; a flawed one closes the connection (abortFetch).
Fetch(answer, size) ==
  /\ pc = "fetch" /\ selected
  /\ LET code == IF kind \in {"page", "metadata"} THEN UIDFetchMetadata(Requested, answer)
                 ELSE UIDFetchBody(id.uid, answer)
     IN CASE code # "none" -> Fail(code)
          [] code = "none" /\ kind = "page" -> PageItems(answer, size)
          [] OTHER -> Return([NoReply EXCEPT !.messages =
                               <<[gen |-> id.gen, uid |-> id.uid, of |-> answer[1].of]>>])
  /\ UNCHANGED <<truthful, judged>>

-----------------------------------------------------------------------------
(* The caller takes the reply; other clients.                              *)

Take ==
  /\ pc = "done" /\ pc' = "idle" /\ reply' = NoReply /\ attempt' = 0
  /\ snapshot' = [gen |-> 0, next |-> 0] /\ remaining' = 0 /\ windows' = 0
  /\ page' = <<>> /\ bytes' = 2 /\ omitted' = FALSE /\ uids' = <<>>
  /\ UNCHANGED <<box, selected, op, truthful, judged>>

Deliver ==
  /\ box.next <= MaxUID
  /\ box' = [box EXCEPT !.next = @ + 1, !.mail = @ \cup {box.next}]
  /\ UNCHANGED <<selected, pc, op, attempt, locals, reply, truthful, judged>>

Expunge(u) ==
  /\ box' = [box EXCEPT !.mail = @ \ {u}]
  /\ UNCHANGED <<selected, pc, op, attempt, locals, reply, truthful, judged>>

\* The mailbox is deleted and created again: the selected session is over.
Recreate(m) ==
  /\ box.gen < MaxGenerations
  /\ box' = [gen |-> box.gen + 1, next |-> MaxUID, mail |-> m] /\ selected' = FALSE
  /\ UNCHANGED <<pc, op, attempt, locals, reply, truthful, judged>>

-----------------------------------------------------------------------------
(* What the server sends.                                                  *)

Only(u) == <<u, u>>

FirstOf(s) == IF s = <<>> THEN s ELSE <<Head(s)>>
RestOf(s) == IF s = <<>> THEN s ELSE Tail(s)

\* The matches of a window, each once.
Matches(w) ==
  LET there == box.mail \cap (w.Start .. w.End)
      listed == NewestFirst(there, [u \in there |-> u])
  IN [i \in DOMAIN listed |-> Only(listed[i])]

\* Answers to a SEARCH: one response or several, SEARCH or ESEARCH, among
\* other data; and answers that repeat, misplace or hide a number.
Wires(w) ==
  LET all == Matches(w)
      outside == <<Only(w.End + 1)>>
      search(nums) == Response("search", nums)
      esearch(nums) == Response("esearch", nums)
      stale(nums) == [esearch(nums) EXCEPT !.applied = FALSE]
      lookalike == <<Line("search", outside, TRUE, 0)>>
      data == [Response("data", <<>>) EXCEPT !.content = lookalike]
      text == [Response("text", <<>>) EXCEPT !.content = lookalike]
      cut == [Response("esearch", <<>>) EXCEPT !.content = lookalike, !.tail = all, !.all = all # <<>>]
      broken(r) == [r EXCEPT !.whole = FALSE]
      counted == [esearch(<<>>) EXCEPT !.counts = all # <<>>]
  IN {<<search(all)>>, <<esearch(all)>>, <<counted>>, <<>>, <<cut>>,
      <<search(FirstOf(all)), search(RestOf(all))>>,
      <<esearch(FirstOf(all)), esearch(RestOf(all))>>,
      <<data, search(all)>>, <<text, search(all)>>, <<stale(all), search(all)>>,
      <<stale(all)>>, <<stale(outside), search(all)>>,
      <<search(all), search(all)>>, <<search(all \o outside)>>, <<esearch(all \o all)>>,
      <<search(<<Only(0)>> \o all)>>, <<esearch(<<<<w.Start, w.End + 1>>>>)>>,
      <<broken(search(all))>>, <<broken(esearch(all))>>,
      <<Response("unclassified", <<>>), search(all)>>,
      <<data, data, search(all)>>}

\* Answers to a FETCH: the messages that are still there, in any order; and
\* answers with a message missing, repeated, unasked for or flawed.
FetchAnswers(requested) ==
  LET there == Range(requested) \cap box.mail
      present == NewestFirst(there, [u \in there |-> u])
      whole == [i \in DOMAIN present |-> Message(present[i])]
      flawed(m) == {[m EXCEPT !.uids = <<>>, !.sections = 0], [m EXCEPT !.uids = @ \o @],
                    [m EXCEPT !.uids = <<0>>], [m EXCEPT !.uids = <<@[1] + 1>>],
                    [m EXCEPT !.flags = 0], [m EXCEPT !.flags = 2], [m EXCEPT !.sections = 2],
                    [m EXCEPT !.flaw = "foreign"], [m EXCEPT !.flaw = "unparsable"],
                    [m EXCEPT !.flaw = "oversized"]}
      other == Message(IF box.mail = {} THEN 1 ELSE CHOOSE u \in box.mail : \A v \in box.mail : v <= u)
  IN {whole, Reverse(whole), whole \o <<other>>, <<other>> \o RestOf(whole),
      RestOf(whole)}
       \cup (IF whole = <<>> THEN {} ELSE {<<m>> \o Tail(whole) : m \in flawed(whole[1])})

FailureCodes == {"bridge_unreachable", "imap_command_failed", "command_timed_out"}

Next ==
  \/ \E q \in {"ok", "unnamed", "oversized"} : SearchMailPage(q)
  \/ \E k \in Kinds \ {"page"}, i \in Ids : GetMessage(k, i)
  \/ Examine
  \/ \E code \in FailureCodes : CommandFails(code)
  \/ pc = "search" /\ \E wire \in Wires(NextWindow) : Search(wire)
  \/ pc = "fetch" /\ \E answer \in FetchAnswers(Requested), size \in ItemBytes : Fetch(answer, size)
  \/ Take
  \/ Deliver
  \/ \E u \in box.mail : Expunge(u)
  \/ \E m \in SUBSET (1 .. MaxUID - 1) : Recreate(m)

Spec == Init /\ [][Next]_vars

-----------------------------------------------------------------------------
(* Properties.                                                             *)

Returned == pc = "done" /\ reply.err = "none"

\* A page leaves no match out silently: of a server that tells the truth, each
\* message that was in the mailbox from the EXAMINE of the last attempt on is
\* in the page, or the page is truncated and the message is older than all of
\* it (windows meet without a gap, the highest UIDs are chosen).
PageIsWhole ==
  Returned /\ kind = "page" /\ truthful /\ box.gen = snapshot.gen =>
    \A u \in box.mail : u < snapshot.next =>
      \/ \E i \in DOMAIN reply.messages : reply.messages[i].uid = u
      \/ /\ reply.truncated
         /\ \A i \in DOMAIN reply.messages : u < reply.messages[i].uid

\* A page is of one snapshot, whatever the server sends and however often it
\* was started over: strictly descending UIDs below its UIDNEXT, under its
\* UIDVALIDITY, each with the metadata of that very message.
PageIsOneSnapshot ==
  Returned /\ kind = "page" =>
    \A i \in DOMAIN reply.messages :
      /\ reply.messages[i].of = <<snapshot.gen, reply.messages[i].uid>>
      /\ reply.messages[i].uid < snapshot.next
      /\ i > 1 => reply.messages[i].uid < reply.messages[i - 1].uid

\* An answer to UID SEARCH is accepted exactly when it is unambiguous, though
\* go-imap merges and replaces what the observer has to tell apart: a literal
\* that looks like a response, text that looks like a literal, a stale ESEARCH.
AnswersAreJudged == judged

\* A message read returns the message its identifier names, of that mailbox
\* generation; and of a truthful server it says the identifier is stale only
\* when that message is gone.
ReadsAreTrue ==
  pc = "done" /\ kind # "page" /\ id.signed =>
    /\ reply.err = "none" => reply.messages[1].of = <<id.gen, id.uid>>
    /\ reply.err = "stale_message_id" /\ truthful => ~(box.gen = id.gen /\ id.uid \in box.mail)
=============================================================================
