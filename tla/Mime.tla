-------------------------------- MODULE Mime --------------------------------
(***************************************************************************)
(* What is made of one message: NormalizeMessage walks its body,           *)
(* projectAttachmentStructure its BODYSTRUCTURE, selectedHeaderRecord its  *)
(* header.  The two walks promise the same selection of attachments, the   *)
(* two readings of the header the same thread fields.                      *)
(*                                                                         *)
(* A tree is the sequence of its entities in the order they are met, each  *)
(* with its depth; a header is the sequence of its fields.  Text is its    *)
(* length; a field is the identifiers it holds.                            *)
(***************************************************************************)
EXTENDS Integers, Sequences, FiniteSets, SequencesExt

CONSTANTS
  MaxMIMEParts, MaxMIMEDepth, MaxAttachmentCount, MaxDecodedTextBytes,
  MaxHeaderCount, MaxReferenceCount   \* normalizedLimits: none is zero

ASSUME MimeAssumption ==
  {MaxMIMEParts, MaxMIMEDepth, MaxAttachmentCount, MaxDecodedTextBytes,
   MaxHeaderCount, MaxReferenceCount} \subseteq Nat \ {0}

-----------------------------------------------------------------------------
(* Entities.                                                               *)

\* kind: "multipart", "rfc822", "global", "plain", "html" or "other".
\* attached: its disposition or a file name make it an attachment.
\* long: one of the listed fields exceeds its limit.  bytes: of decoded text.
\* bad: "type" (media type or disposition does not parse), "boundary" (none or
\* too long), "text" (unknown encoding or charset, or undecodable), or "none".
Entity(depth, kind, attached, long, bytes, bad) ==
  [depth |-> depth, kind |-> kind, attached |-> attached, long |-> long,
   bytes |-> bytes, bad |-> bad]

Entities ==
  [depth : Nat, kind : {"multipart", "rfc822", "global", "plain", "html", "other"},
   attached : BOOLEAN, long : BOOLEAN, bytes : Nat, bad : {"none", "type", "boundary", "text"}]

\* One root, and no entity deeper than a part of the one before it.
IsTree(tree) ==
  /\ tree \in Seq(Entities)
  /\ \A i \in DOMAIN tree : tree[i].depth \in (IF i = 1 THEN {0} ELSE 1 .. tree[i - 1].depth + 1)

\* A walk: open is the depth to which the next entity may belong to it.
NewWalk ==
  [parts |-> 0, open |-> 0, attachments |-> <<>>, text |-> 0, source |-> "none",
   flags |-> {}, err |-> "none", stopped |-> FALSE]

Visits(w, e) == w.err = "none" /\ ~w.stopped /\ e.depth <= w.open

\* appendAttachment, the same for both walks.
appendAttachment(w, e, i) ==
  IF Len(w.attachments) >= MaxAttachmentCount THEN [w EXCEPT !.flags = @ \cup {"Attachments"}]
  ELSE [w EXCEPT !.attachments = Append(@, i),
                 !.flags = @ \cup (IF e.long THEN {"Attachments"} ELSE {})]

-----------------------------------------------------------------------------
(* mimeCollector: the body.                                                *)

\* The first plain text, else the first HTML.  applyText, ahead of time.
takeText(w, e) ==
  LET kept == IF e.bytes > MaxDecodedTextBytes THEN MaxDecodedTextBytes ELSE e.bytes
      flagged == [w EXCEPT !.flags = @ \cup (IF e.bytes > MaxDecodedTextBytes THEN {"Text"} ELSE {})]
  IN IF w.source = "none" \/ (e.kind = "plain" /\ w.source = "html")
     THEN [flagged EXCEPT !.source = e.kind, !.text = kept] ELSE flagged

\* The entity itself, counted before.
collect(w, e, i) ==
  CASE e.bad = "type" -> [w EXCEPT !.err = "malformed_mime"]
    [] e.bad # "type" /\ e.attached -> appendAttachment(w, e, i)
    [] e.bad # "type" /\ ~e.attached /\ e.kind = "multipart" ->
         IF e.bad = "boundary" THEN [w EXCEPT !.err = "malformed_mime"] ELSE [w EXCEPT !.open = e.depth + 1]
    [] e.bad # "type" /\ ~e.attached /\ e.kind = "rfc822" -> [w EXCEPT !.flags = @ \cup {"MIMEDepth"}]
    [] e.bad # "type" /\ ~e.attached /\ e.kind \in {"plain", "html"} ->
         IF e.bad = "text" THEN [w EXCEPT !.err = "malformed_encoding"] ELSE takeText(w, e)
    [] OTHER -> w

\* Back in the loop over the parts of a container: no part may follow.
PartsSpent(w, e) ==
  /\ w.err = "none" /\ w.parts >= MaxMIMEParts
  /\ e.depth > 0 \/ w.open > e.depth

\* parseEntity.
parseEntity(w, e, i) ==
  IF ~Visits(w, e) THEN w
  ELSE LET seen == IF e.depth > MaxMIMEDepth
                   THEN [w EXCEPT !.open = e.depth, !.flags = @ \cup {"MIMEDepth"}]
                   ELSE collect([w EXCEPT !.open = e.depth, !.parts = @ + 1], e, i)
       IN IF PartsSpent(seen, e)
          THEN [seen EXCEPT !.stopped = TRUE, !.flags = @ \cup {"MIMEParts"}] ELSE seen

normalizeMessage(tree) == FoldLeft(LAMBDA w, i : parseEntity(w, tree[i], i), NewWalk, [i \in DOMAIN tree |-> i])

-----------------------------------------------------------------------------
(* attachmentProjector: the structure.                                     *)

project(w, e, i) ==
  CASE e.depth > MaxMIMEDepth -> [w EXCEPT !.flags = @ \cup {"MIMEDepth"}]
    [] e.depth <= MaxMIMEDepth /\ e.bad = "type" -> [w EXCEPT !.err = "malformed_mime"]
    [] e.depth <= MaxMIMEDepth /\ e.bad # "type" /\ e.attached -> appendAttachment(w, e, i)
    [] e.depth <= MaxMIMEDepth /\ e.bad # "type" /\ ~e.attached /\ e.kind = "multipart" ->
         [w EXCEPT !.open = e.depth + 1]
    [] e.depth <= MaxMIMEDepth /\ e.bad # "type" /\ ~e.attached /\ e.kind \in {"rfc822", "global"} ->
         [w EXCEPT !.flags = @ \cup {"MIMEDepth"}]
    [] OTHER -> w

\* visit: a child is counted before it is looked at.
visit(w, e, i) ==
  IF ~Visits(w, e) THEN w
  ELSE IF e.depth > 0 /\ w.parts >= MaxMIMEParts
  THEN [w EXCEPT !.stopped = TRUE, !.flags = @ \cup {"MIMEParts"}]
  ELSE project([w EXCEPT !.open = e.depth, !.parts = @ + 1], e, i)

projectAttachmentStructure(tree) ==
  FoldLeft(LAMBDA w, i : visit(w, tree[i], i), NewWalk, [i \in DOMAIN tree |-> i])

-----------------------------------------------------------------------------
(* Headers.                                                                *)

\* bad: an encoded word in it does not decode; long: cut to its limit.
HeaderField(name, ids, bad, long) == [name |-> name, ids |-> ids, bad |-> bad, long |-> long]

CanonicalFields == {"Date", "From", "To", "Subject", "Message-ID", "In-Reply-To", "References"}

\* mail.Header.Get: the first of that name; Absent when there is none.
Absent == HeaderField("none", <<>>, FALSE, FALSE)
Get(header, name) ==
  LET i == SelectInSeq(header, LAMBDA f : f.name = name)
  IN IF i = 0 THEN Absent ELSE header[i]

\* boundedHeaderCount.
boundedHeaderCount(header) ==
  [fields |-> [i \in 1 .. (IF Len(header) > MaxHeaderCount THEN MaxHeaderCount ELSE Len(header)) |-> header[i]],
   cut |-> Len(header) > MaxHeaderCount]

\* threadFieldBlock: the first of each thread field, wherever it stands.
threadField(header, name) == IF Get(header, name) = Absent THEN <<>> ELSE <<Get(header, name)>>
threadFieldBlock(header) ==
  threadField(header, "Subject") \o threadField(header, "Message-ID")
    \o threadField(header, "In-Reply-To") \o threadField(header, "References")

\* canonicalHeaders: all that is taken decodes; the last references are kept.
canonicalHeaders(header) ==
  LET used == {Get(header, n) : n \in CanonicalFields}
      refs == Get(header, "References").ids
      kept == IF Len(refs) > MaxReferenceCount
              THEN [i \in 1 .. MaxReferenceCount |-> refs[Len(refs) - MaxReferenceCount + i]] ELSE refs
  IN [err |-> IF \E f \in used : f.bad THEN "malformed_header" ELSE "none",
      subject |-> Get(header, "Subject").ids, mid |-> Get(header, "Message-ID").ids,
      reply |-> Get(header, "In-Reply-To").ids, refs |-> kept, from |-> Get(header, "From").ids,
      flags |-> (IF \E f \in used : f.long THEN {"Headers"} ELSE {})
                  \cup (IF Len(refs) > MaxReferenceCount THEN {"References"} ELSE {})]

\* The header of get_message.
messageHeaders(header) ==
  LET b == boundedHeaderCount(header)
      h == canonicalHeaders(b.fields)
  IN [h EXCEPT !.flags = @ \cup (IF b.cut THEN {"HeaderCount"} ELSE {})]

\* A bug of selectedHeaderRecord: thread fields only within the count.
selectedHeaderRecordCounted(header) == messageHeaders(header)

\* selectedHeaderRecord: the header of get_thread.
selectedHeaderRecord(header) ==
  LET h == messageHeaders(header)
      t == canonicalHeaders(threadFieldBlock(header))
  IN [h EXCEPT !.err = IF h.err # "none" THEN h.err ELSE t.err,
               !.subject = t.subject, !.mid = t.mid, !.reply = t.reply, !.refs = t.refs,
               !.flags = @ \cup t.flags]

-----------------------------------------------------------------------------
(* What the readings have to be, stated without the walks.                 *)

Parent(tree, i) ==
  LET above == {j \in 1 .. i - 1 : tree[j].depth < tree[i].depth}
  IN IF above = {} THEN 0 ELSE CHOOSE j \in above : \A k \in above : k <= j

\* In the tree proper: not inside an attachment or an embedded message.
InTree(tree) ==
  LET in[i \in DOMAIN tree] ==
        LET p == Parent(tree, i)
        IN p = 0 \/ (tree[p].kind = "multipart" /\ ~tree[p].attached /\ in[p])
  IN {i \in DOMAIN tree : in[i]}

Attachments(tree) == {i \in InTree(tree) : tree[i].attached}

Hidden(tree) == {i \in InTree(tree) : ~tree[i].attached /\ tree[i].kind \in {"rfc822", "global"}}

Texts(tree, kind) == {i \in InTree(tree) : ~tree[i].attached /\ tree[i].kind = kind}

\* A walk without a flag lists every attachment there is; a structure without
\* one hides no embedded message either.  Whatever the flags, entries are
\* attachments in order, and no list of structure names one that the list of
\* the body would not.
WalksAreHonest(tree) ==
  LET body == normalizeMessage(tree)
      structure == projectAttachmentStructure(tree)
  IN /\ body.err = "none" /\ body.flags = {} =>
          /\ Range(body.attachments) = Attachments(tree)
          /\ body.source = (CASE Texts(tree, "plain") # {} -> "plain"
                              [] Texts(tree, "plain") = {} /\ Texts(tree, "html") # {} -> "html"
                              [] OTHER -> "none")
     /\ structure.err = "none" /\ structure.flags = {} =>
          Range(structure.attachments) = Attachments(tree) /\ Hidden(tree) = {}
     /\ body.err = "none" /\ structure.err = "none" => IsPrefix(structure.attachments, body.attachments)
     /\ body.err = "none" /\ structure.err = "none" /\ structure.flags = {} =>
          structure.attachments = body.attachments

\* A message keeps its place in a thread however many header fields stand
\* before its thread fields, and the flags say when anything else is missing.
HeadersAreHonest(header) ==
  LET h == selectedHeaderRecord(header)
      whole == canonicalHeaders(header)
  IN h.err = "none" =>
       /\ <<h.subject, h.mid, h.reply, h.refs>> = <<whole.subject, whole.mid, whole.reply, whole.refs>>
       /\ h.flags = {} => h = whole
=============================================================================
