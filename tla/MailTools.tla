------------------------------ MODULE MailTools ------------------------------
(***************************************************************************)
(* The tools of the mail MCP server, as sequences of adapter operations on *)
(* a mailbox that others change between any two of them.  Each operation   *)
(* is one step: what it promises is checked in MailReads and Triage.       *)
(*                                                                         *)
(* An identifier is the mailbox generation and the UID it was signed for.  *)
(* A letter is what the tools tell apart of a message: its subject without *)
(* reply prefixes, in its envelope and in its decoded headers (0: none),   *)
(* the headers that link it, and whether they decode.  A result weighs one *)
(* unit per item; room is what fits.                                       *)
(***************************************************************************)
EXTENDS Threads, Mime, BridgeErrors

CONSTANTS
  Letters,            \* possible mailboxes: functions from UIDs to letters
  LocalThreads,       \* messages given to BuildThread directly
  LocalDocuments,     \* trees and headers given to the readings of a message
  MaxSubjectMatches,  \* bound: candidates of one search page
  DefaultLimit, LimitCeiling,         \* default and ceiling of limit arguments
  MaxThreadDepth,     \* normalizedLimits
  Limits,             \* limit arguments callers pass
  Rooms               \* bound: how much of a result may fit

ASSUME ToolAssumption ==
  /\ {MaxSubjectMatches, DefaultLimit, LimitCeiling, MaxThreadDepth} \subseteq Nat
  /\ DefaultLimit \in 1 .. LimitCeiling /\ Limits \subseteq Int /\ Rooms \subseteq Nat \cup {-1, -2}

\* UIDs start at 1; documents are sequences of fields and trees of entities.
ASSUME MailAssumption ==
  /\ Letters # {} /\ LocalThreads \subseteq Seq(ThreadMessages)
  /\ \A mailbox \in Letters :
       mailbox \in Seq([subject : Nat, decoded : Nat, mid : Nat, refs : Seq(Nat), reply : Nat,
                        malformed : BOOLEAN, tree : {mailbox[u].tree : u \in DOMAIN mailbox}])
  /\ \A mailbox \in Letters : mailbox # <<>> /\ \A u \in DOMAIN mailbox : IsTree(mailbox[u].tree)
  /\ \A d \in LocalDocuments : IsTree(d.tree) /\ d.header \in Seq(Range(d.header))

VARIABLES
  box,       \* generation, UIDNEXT and the UIDs present
  letters,   \* what the message of each UID says
  document,  \* a message read outside any mailbox
  pc, call,  \* where the call is, and its arguments
  searched,  \* generation and UIDNEXT of the search, if there was one
  result,    \* what the handler has put together
  left,      \* candidates of get_thread not looked at yet
  attempts,  \* header reads of siblings
  thread,    \* what BuildThread returned, and on which messages
  moved,     \* history: UIDs a triage tool really changed
  reply      \* what the client gets

mail == <<letters, document>>
locals == <<searched, result, left, attempts, thread>>
vars == <<box, mail, pc, call, locals, moved, reply>>

UIDs == DOMAIN letters
Issued == {id \in [gen : 1 .. box.gen, uid : UIDs] : id.gen < box.gen \/ id.uid < box.next}
NoCall == [tool |-> "none", id |-> [gen |-> 0, uid |-> 0], limit |-> 0, uids |-> <<>>]
NoSearch == [gen |-> 0, next |-> 0]
NoDocument == [tree |-> <<>>, header |-> <<>>]
NoThread == [of |-> <<>>, built |-> BuildThread(<<>>, 1, 1, 1)]

\* items: what the result lists; extras: content, or unavailableMembers;
\* truncated: any reason.
NoResult == [items |-> <<>>, extras |-> 0, truncated |-> FALSE]
Answer(r) == [err |-> "none", items |-> r.items, extras |-> r.extras, truncated |-> r.truncated]
NoReply == Answer(NoResult)

\* The server starts; or another program calls BuildThread or NormalizeMessage
\* on messages of its own.
Init ==
  /\ letters \in Letters
  /\ box \in {[gen |-> 1, next |-> n, mail |-> 1 .. n - 1] : n \in {Cardinality(UIDs), Cardinality(UIDs) + 1}}
  /\ call = NoCall /\ searched = NoSearch /\ result = NoResult
  /\ left = <<>> /\ attempts = 0 /\ moved = {} /\ reply = NoReply
  /\ \/ pc = "idle" /\ thread = NoThread /\ document = NoDocument
     \/ /\ pc = "local" /\ letters = CHOOSE l \in Letters : TRUE
        /\ document \in LocalDocuments /\ thread = NoThread
     \/ /\ pc = "local" /\ letters = CHOOSE l \in Letters : TRUE
        /\ document = NoDocument
        /\ \E messages \in LocalThreads, limit \in 2 .. 4 :
             thread = [of |-> messages,
                       built |-> BuildThread(messages, limit, MaxReferenceCount, MaxThreadDepth)]

-----------------------------------------------------------------------------
(* Errors and arguments.                                                   *)

\* mapAdapterError: the closed vocabulary of the tools.
mapAdapterError(code) ==
  CASE code \in {"mailbox_not_found", "message_not_found"} -> "not_found"
    [] code = "invalid_request" -> "invalid_argument"
    [] code = "unsupported" -> "unsupported"
    [] code = "stale_message_id" -> "stale_id"
    [] code = "bounds_exceeded" -> "bounds_exceeded"
    [] code \in {"command_timed_out", "credential_command_timed_out"} -> "timed_out"
    [] code = "operation_canceled" -> "canceled"
    [] code \in {"invalid_config", "invalid_endpoint", "tls_trust_required", "tls_mismatch",
                 "tls_negotiation_failed", "credential_command_failed", "credential_command_invalid_output",
                 "credential_command_output_too_large", "bridge_unreachable", "authentication_failed",
                 "imap_command_failed", "imap_protocol_error", "adapter_closed"} -> "unavailable"
    [] OTHER -> "internal"

\* The call ends with a code.
Refuse(code) ==
  /\ pc' = "done" /\ reply' = [NoReply EXCEPT !.err = code]
  /\ UNCHANGED <<box, mail, call, locals, moved>>

\* clampLimit: 0 stands for an absent argument, negative for a refused one.
clampLimit(value) ==
  IF value = 0 THEN DefaultLimit ELSE IF value > LimitCeiling THEN LimitCeiling ELSE value

\* validTriageInput: distinct nonzero UIDs, at least one.
validTriageInput(uids) ==
  /\ uids # <<>>
  /\ \A i, j \in DOMAIN uids : uids[i] # 0 /\ (uids[i] = uids[j] => i = j)

\* The first step of each tool once its arguments are valid.
FirstStep(tool) ==
  CASE tool = "search_mail" -> "search"
    [] tool = "select_digest_candidates" -> "status"
    [] tool = "get_message" -> "metadata"
    [] tool = "get_thread" -> "target"
    [] tool = "list_attachments" -> "structure"
    [] tool = "list_folders" -> "list"
    [] tool = "triage" -> "triage"

\* A tool is called: arguments are checked before the adapter is.
Call(tool, id, limit, uids) ==
  /\ pc = "idle"
  /\ call' = [tool |-> tool, id |-> id, limit |-> clampLimit(limit), uids |-> uids]
  /\ IF limit >= 0 /\ (tool = "triage" => validTriageInput(uids))
     THEN pc' = FirstStep(tool) /\ UNCHANGED reply
     ELSE pc' = "done" /\ reply' = [NoReply EXCEPT !.err = "invalid_argument"]
  /\ searched' = NoSearch /\ result' = NoResult /\ left' = <<>> /\ attempts' = 0
  /\ thread' = NoThread /\ moved' = {}
  /\ UNCHANGED <<box, mail>>

-----------------------------------------------------------------------------
(* Adapter operations.                                                     *)

Present(id) == box.gen = id.gen /\ id.uid \in box.mail

Item(id) == [id |-> id, of |-> <<id.gen, id.uid>>]

\* The kth newest of some messages.
Newest(uids, k) == CHOOSE u \in uids : Cardinality({v \in uids : v > u}) = k - 1

\* A search page: the n newest of the messages that match.
SearchPage(matching, n) ==
  LET most == IF n < Cardinality(matching) THEN n ELSE Cardinality(matching)
  IN [messages |-> [i \in 1 .. most |-> [gen |-> box.gen, uid |-> Newest(matching, i)]],
      truncated |-> most < Cardinality(matching)]

\* An operation fails; the handlers give up, except for a sibling that is gone.
OperationFails(code) ==
  /\ pc \in {"search", "status", "metadata", "body", "target", "candidates", "structure", "list", "triage"}
     \/ (pc = "siblings" /\ left # <<>>)
  /\ Refuse(mapAdapterError(code))

\* A read of an identifier that is not there (any more).
Stale ==
  /\ pc \in {"metadata", "body", "target", "structure"} /\ ~Present(call.id)
  /\ Refuse("stale_id")

Encodes(r) ==
  /\ pc' = "encode" /\ result' = r
  /\ UNCHANGED <<box, mail, call, left, attempts, moved, reply>>

-----------------------------------------------------------------------------
(* search_mail, select_digest_candidates, list_folders.                    *)

\* A bug of flatMessageResults: the cut to the limit is not reported.
flatMessageResultsSilent(page, limit) ==
  [items |-> [i \in 1 .. (IF Len(page.messages) > limit THEN limit ELSE Len(page.messages)) |->
                Item(page.messages[i])],
   extras |-> 0, truncated |-> page.truncated]

\* flatMessageResults: at most limit of the page, and whether that cut it.
flatMessageResults(page, limit) ==
  [items |-> [i \in 1 .. (IF Len(page.messages) > limit THEN limit ELSE Len(page.messages)) |->
                Item(page.messages[i])],
   extras |-> 0, truncated |-> page.truncated \/ Len(page.messages) > limit]

\* Status, before the search of select_digest_candidates.
Status ==
  /\ pc = "status" /\ pc' = "search"
  /\ UNCHANGED <<box, mail, call, locals, moved, reply>>

\* runSearchMail and runSelectDigestCandidates after their one search.
SearchMail(n) ==
  /\ pc = "search"
  /\ searched' = [gen |-> box.gen, next |-> box.next]
  /\ Encodes(flatMessageResults(SearchPage(box.mail, n), call.limit))
  /\ UNCHANGED thread

\* runListFolders: n folders.
ListFolders(n) ==
  /\ pc = "list"
  /\ Encodes([NoResult EXCEPT !.items = [i \in 1 .. n |-> [id |-> i, of |-> i]]])
  /\ UNCHANGED <<searched, thread>>

-----------------------------------------------------------------------------
(* get_message and list_attachments.                                       *)

\* fetchNormalizedMessage: metadata, then the body, two operations apart.
GetMessageMetadata ==
  /\ pc = "metadata" /\ Present(call.id)
  /\ pc' = "body" /\ result' = [NoResult EXCEPT !.items = <<Item(call.id)>>]
  /\ UNCHANGED <<box, mail, call, searched, left, attempts, thread, moved, reply>>

\* What get_message makes of the body it has read.
Normalized(uid) ==
  LET w == normalizeMessage(letters[uid].tree)
  IN IF letters[uid].malformed \/ w.err # "none" THEN Refuse("internal")
     ELSE /\ Encodes([items |-> <<[result.items[1] EXCEPT !.of = <<box.gen, uid>>]>>,
                      extras |-> Len(w.attachments) + (IF w.source = "none" THEN 0 ELSE 1),
                      truncated |-> w.flags # {}])
          /\ UNCHANGED <<searched, thread>>

\* A bug of GetMessageBody: the UID is read in the generation there is now.
GetMessageBodyAnyGeneration ==
  pc = "body" /\ call.id.uid \in box.mail /\ Normalized(call.id.uid)

\* The body, in the same generation; one that cannot be normalized is an
\* internal error.
GetMessageBody ==
  pc = "body" /\ Present(call.id) /\ Normalized(call.id.uid)

\* runListAttachments: one structure read and its projection.
GetMessageAttachmentStructure ==
  /\ pc = "structure" /\ Present(call.id)
  /\ LET w == projectAttachmentStructure(letters[call.id.uid].tree)
     IN IF w.err # "none" THEN Refuse("internal")
        ELSE /\ Encodes([items |-> <<Item(call.id)>>, extras |-> Len(w.attachments),
                         truncated |-> w.flags # {}])
             /\ UNCHANGED <<searched, thread>>

-----------------------------------------------------------------------------
(* get_thread.                                                             *)

KeyOf(id) == 2 * id.uid + id.gen

HeadersOf(id) ==
  LET m == letters[id.uid]
  IN ThreadMessage(KeyOf(id), m.mid, m.refs, m.reply, 0)

\* runGetThread: the target, whose malformed headers make it unavailable.
ReadTarget ==
  /\ pc = "target" /\ Present(call.id)
  /\ IF letters[call.id.uid].malformed THEN Refuse("unavailable")
     ELSE /\ pc' = IF letters[call.id.uid].subject = 0 THEN "resolve" ELSE "candidates"
          /\ result' = [NoResult EXCEPT !.items = <<Item(call.id)>>]
          /\ UNCHANGED <<box, mail, call, searched, left, attempts, thread, moved, reply>>

\* appendThreadSiblings: one search for the base subject; related subjects match too.
SearchSiblings(n) ==
  /\ pc = "candidates"
  /\ LET subject == letters[call.id.uid].subject
         page == SearchPage({u \in box.mail : letters[u].subject >= subject}, n)
     IN /\ left' = page.messages
        /\ result' = [result EXCEPT !.truncated = page.truncated]
  /\ searched' = [gen |-> box.gen, next |-> box.next] /\ pc' = "siblings"
  /\ UNCHANGED <<box, mail, call, attempts, thread, moved, reply>>

\* A candidate is passed over: the target itself, or another subject.
SkipCandidate ==
  /\ pc = "siblings" /\ left # <<>>
  /\ Head(left) = call.id \/ letters[Head(left).uid].subject # letters[call.id.uid].subject
  /\ left' = Tail(left)
  /\ UNCHANGED <<box, mail, pc, call, searched, result, attempts, thread, moved, reply>>

Eligible ==
  /\ pc = "siblings" /\ left # <<>> /\ Head(left) # call.id
  /\ letters[Head(left).uid].subject = letters[call.id.uid].subject

\* The reads the limit leaves are spent.
StopCandidates ==
  /\ Eligible /\ attempts = call.limit - 1
  /\ left' = <<>> /\ result' = [result EXCEPT !.truncated = TRUE]
  /\ UNCHANGED <<box, mail, pc, call, searched, attempts, thread, moved, reply>>

\* One header read: a sibling that is stale or malformed is left out and noted,
\* one whose decoded subject is another is passed over.
ReadSibling ==
  /\ Eligible /\ attempts < call.limit - 1
  /\ attempts' = attempts + 1 /\ left' = Tail(left)
  /\ LET m == letters[Head(left).uid]
         read == Present(Head(left)) /\ ~m.malformed
     IN result' = CASE ~read -> [result EXCEPT !.extras = @ + 1, !.truncated = TRUE]
                    [] read /\ m.decoded = letters[call.id.uid].subject ->
                         [result EXCEPT !.items = Append(@, Item(Head(left)))]
                    [] OTHER -> result
  /\ UNCHANGED <<box, mail, pc, call, searched, thread, moved, reply>>

\* identities: the member a node stands for, by its key.
MemberOf(items, key) == items[SelectInSeq(items, LAMBDA m : KeyOf(m.id) = key)]

\* BuildThread on the members, its nodes under the identities they were read with.
ResolveThread ==
  /\ pc = "resolve" \/ (pc = "siblings" /\ left = <<>>)
  /\ \E members \in {[i \in DOMAIN result.items |-> HeadersOf(result.items[i].id)]} :
     \E t \in {BuildThread(members, call.limit, MaxReferenceCount, MaxThreadDepth)} :
       /\ thread' = [of |-> members, built |-> t]
       /\ Encodes([result EXCEPT
            !.items = [i \in DOMAIN t.nodes |-> MemberOf(result.items, t.nodes[i].key[1])],
            !.truncated = @ \/ TruncatedThread(t)])
  /\ UNCHANGED searched

-----------------------------------------------------------------------------
(* mark_read, mark_unread, move_mail, archive_mail, trash_mail.            *)

\* The adapter's outcomes: a prefix attempted, the rest not; an unknown one
\* may or may not have been executed.
Outcomes(uids) ==
  {o \in [DOMAIN uids -> {"applied", "refused", "unknown", "not_attempted"}] :
     \A i, j \in DOMAIN uids : i < j /\ o[i] \in {"unknown", "not_attempted"} => o[j] = "not_attempted"}

\* triageResults: each outcome under the UID it was asked for.
triageResults(uids, outcomes) ==
  [NoResult EXCEPT !.items = [i \in DOMAIN uids |->
     [id |-> uids[i], of |-> IF outcomes[i] \in {"applied", "refused", "not_attempted"}
                             THEN outcomes[i] ELSE "unknown"]]]

\* The batch runs in the generation the caller named, or not at all.
RunTriage(outcomes, executed) ==
  /\ pc = "triage" /\ call.id.gen = box.gen
  /\ LET done == {call.uids[i] : i \in {j \in DOMAIN call.uids :
                    outcomes[j] = "applied" \/ (outcomes[j] = "unknown" /\ executed)}}
     IN /\ done \subseteq box.mail
        /\ box' = [box EXCEPT !.mail = @ \ done] /\ moved' = done
  /\ pc' = "encode" /\ result' = triageResults(call.uids, outcomes)
  /\ UNCHANGED <<mail, call, searched, left, attempts, thread, reply>>

-----------------------------------------------------------------------------
(* Output.                                                                 *)

Identity == call.tool \in {"get_message", "list_attachments"}

\* What n becomes as it is halved again and again, rounded up or down.
Halves(n, up) ==
  {m \in 0 .. n : \E k \in 0 .. n : m = (IF up THEN n + 2 ^ k - 1 ELSE n) \div (2 ^ k)}

\* The first of these that is at most most, or least.
Halved(n, up, most, least) ==
  IF n <= least THEN n ELSE Max({least} \cup {m \in Halves(n, up) : m <= most})

\* shrinkForOutput until it fits: extras (content, unavailable members) halve
\* to none first, then the nodes of a thread to one, other lists to none.
Shrunk(r, room) ==
  LET isThread == call.tool = "get_thread"
      extras == Halved(r.extras, FALSE, room - Len(r.items), 0)
      count == IF Identity THEN Len(r.items)
               ELSE Halved(Len(r.items), isThread, room - extras, IF isThread THEN 1 ELSE 0)
      items == [i \in 1 .. count |-> r.items[i]]
  IN [items |-> items, extras |-> extras,
      truncated |-> r.truncated \/ items # r.items \/ extras # r.extras]

\* encodeBounded: what cannot shrink enough is replaced by a fallback, which
\* for one message keeps its identity; -2 leaves no room even for that.
encodeBounded(r, room) ==
  LET s == Shrunk(r, room)
      fits == Len(s.items) + s.extras <= room
  IN CASE call.tool = "triage" -> Answer(r)
       [] call.tool # "triage" /\ fits -> Answer(s)
       [] Identity /\ ~fits /\ room > -2 -> Answer([r EXCEPT !.extras = 0, !.truncated = TRUE])
       [] Identity /\ ~fits /\ room = -2 -> [NoReply EXCEPT !.err = "bounds_exceeded"]
       [] OTHER -> [NoReply EXCEPT !.truncated = TRUE]

\* makeHandler: the result is encoded, or the code that replaces it.
Encode(room) ==
  /\ pc = "encode" /\ pc' = "done"
  /\ reply' = encodeBounded(result, room)
  /\ UNCHANGED <<box, mail, call, locals, moved>>

Take ==
  /\ pc = "done" /\ pc' = "idle" /\ call' = NoCall /\ reply' = NoReply
  /\ searched' = NoSearch /\ result' = NoResult /\ left' = <<>> /\ attempts' = 0
  /\ thread' = NoThread /\ moved' = {}
  /\ UNCHANGED <<box, mail>>

-----------------------------------------------------------------------------
(* Other clients of the mailbox.                                           *)

Others(changed) ==
  /\ pc # "local" /\ box' = changed
  /\ UNCHANGED <<mail, pc, call, locals, moved, reply>>

Deliver ==
  /\ box.next \in UIDs
  /\ Others([box EXCEPT !.next = @ + 1, !.mail = @ \cup {box.next}])

Expunge(u) == Others([box EXCEPT !.mail = @ \ {u}])

Recreate ==
  /\ box.gen = 1
  /\ Others([gen |-> 2, next |-> Cardinality(UIDs) + 1, mail |-> UIDs])

FailureCodes == {"bridge_unreachable", "operation_canceled", "bounds_exceeded"}

Next ==
  \/ \E tool \in {"search_mail", "select_digest_candidates", "list_folders"}, limit \in Limits :
       Call(tool, NoCall.id, limit, <<>>)
  \/ \E tool \in {"get_message", "list_attachments"}, id \in Issued : Call(tool, id, 0, <<>>)
  \/ \E id \in Issued, limit \in Limits : Call("get_thread", id, limit, <<>>)
  \/ \E g \in 1 .. 2, uids \in {<<>>, <<1>>, <<0>>, <<1, 1>>, <<2, 1>>} :
       Call("triage", [gen |-> g, uid |-> 1], 0, uids)
  \/ \E code \in FailureCodes : OperationFails(code)
  \/ Stale
  \/ Status
  \/ \E n \in 0 .. MaxSubjectMatches : SearchMail(n)
  \/ \E n \in 0 .. 2 : ListFolders(n)
  \/ GetMessageMetadata
  \/ GetMessageBody
  \/ GetMessageAttachmentStructure
  \/ ReadTarget
  \/ \E n \in 0 .. MaxSubjectMatches : SearchSiblings(n)
  \/ SkipCandidate
  \/ StopCandidates
  \/ ReadSibling
  \/ ResolveThread
  \/ pc = "triage" /\ \E outcomes \in Outcomes(call.uids), executed \in BOOLEAN : RunTriage(outcomes, executed)
  \/ \E room \in Rooms : Encode(room)
  \/ Take
  \/ Deliver
  \/ \E u \in box.mail : Expunge(u)
  \/ Recreate

Spec == Init /\ [][Next]_vars

-----------------------------------------------------------------------------
(* Properties.                                                             *)

Replied == pc = "done" /\ reply.err = "none"

Listed == {reply.items[i].id : i \in DOMAIN reply.items}

\* What get_message and list_attachments have to show of a message.
Contents(tree, tool) ==
  Cardinality(Attachments(tree)) +
    (IF tool = "get_message" /\ \E kind \in {"plain", "html"} : Texts(tree, kind) # {} THEN 1 ELSE 0)

\* A result without the truncated mark leaves nothing out: every message that
\* was there when search_mail, select_digest_candidates or get_thread searched,
\* is still there and belongs in the result, is listed; limits, spent reads,
\* siblings lost on the way and output that did not fit all show.  A message
\* without the mark comes with every attachment it has, and its text.
UntruncatedIsComplete ==
  Replied /\ ~reply.truncated =>
    /\ Identity => reply.extras >= Contents(letters[call.id.uid].tree, call.tool)
    /\ searched.gen = box.gen => \A u \in box.mail :
      /\ u < searched.next
      /\ call.tool = "get_thread" => {letters[u].subject, letters[u].decoded} = {letters[call.id.uid].subject}
      => [gen |-> box.gen, uid |-> u] \in Listed

\* Every item a read tool returns is the message its identity names, though the
\* mailbox may be recreated between the reads that make it up, a message tool
\* keeps the identity asked for however little fits, and a triage row says
\* applied only of a UID that was changed.
ItemsAreWhatTheyName ==
  Replied =>
    /\ call.tool \in {"search_mail", "select_digest_candidates", "get_message", "get_thread", "list_attachments"} =>
         \A i \in DOMAIN reply.items : reply.items[i].of = <<reply.items[i].id.gen, reply.items[i].id.uid>>
    /\ call.tool \in {"get_message", "list_attachments"} => Listed = {call.id}
    /\ call.tool = "triage" =>
         \A i \in DOMAIN reply.items : reply.items[i].of = "applied" => reply.items[i].id \in moved

\* NormalizeMessage, the attachment projection and selectedHeaderRecord promise
\* the same selection and the same thread fields though they count parts and
\* header fields differently: nothing is missing without a flag, and no list
\* of a structure names an attachment that the body would not.
ReadingsAgree ==
  pc = "local" => WalksAreHonest(document.tree) /\ HeadersAreHonest(document.header)

\* What BuildThread returns is a forest within the depth limit, whatever the
\* headers claim; and without a flag it keeps every message and every link.
\* On the members of get_thread, and on messages with shared keys and dates.
ThreadIsForest ==
  /\ IsForest(thread.built, MaxThreadDepth)
  /\ KeepsLinks(thread.built, thread.of)
=============================================================================
