----------------------------- MODULE MCMailTools -----------------------------
(* Three messages: shared and different subjects, references in a chain, in a *)
(* cycle, to itself, to a message that is not there; malformed headers.       *)
EXTENDS MailTools

Multipart(depth) == Entity(depth, "multipart", FALSE, FALSE, 0, "none")
Leaf(depth, kind) == Entity(depth, kind, FALSE, FALSE, 1, "none")
Attached(depth) == Entity(depth, "other", TRUE, FALSE, 0, "none")

\* By message id: with attachments, plain, with a message inside.
Trees == <<<<Multipart(0), Leaf(1, "html"), Leaf(1, "plain"), Attached(1)>>,
           <<Multipart(0), Leaf(1, "plain"), Attached(1)>>,
           <<Multipart(0), Attached(1), Leaf(1, "global")>>>>

Letter(subject, mid, refs, answers, malformed) ==
  [subject |-> subject, decoded |-> IF malformed THEN 0 ELSE subject, mid |-> mid,
   refs |-> refs, reply |-> answers, malformed |-> malformed, tree |-> Trees[mid]]

RefChoices == {<<>>, <<2>>, <<9, 1>>, <<1, 9, 9>>}

MCLetters ==
  {<<Letter(1, 1, a, 0, FALSE), Letter(1, 2, b, 0, FALSE), Letter(1, 3, c, 0, FALSE)>> :
     a \in {<<>>, <<1>>, <<2>>}, b \in {<<>>, <<1>>, <<3>>}, c \in RefChoices}
  \cup {<<[Letter(1, 1, <<>>, 2, FALSE) EXCEPT !.decoded = d], Letter(s, 2, <<>>, 1, bad), Letter(t, 2, <<1>>, 0, FALSE)>> :
          d \in {1, 2}, s \in {0, 1}, t \in {1, 2}, bad \in BOOLEAN}

MCLocalThreads ==
  {<<ThreadMessage(k, 1, <<>>, 0, x), ThreadMessage(5, 2, <<1>>, 0, y),
     ThreadMessage(5, 0, <<>>, 2, 1), ThreadMessage(0, m, <<2>>, 0, 0)>> :
     k \in {0, 5}, m \in {0, 1, 3}, x \in 0 .. 2, y \in 0 .. 2}

\* Entities that differ in what the walks do with them.
Variants(d) ==
  {Multipart(d), [Multipart(d) EXCEPT !.attached = TRUE], [Multipart(d) EXCEPT !.bad = "boundary"],
   Leaf(d, "rfc822"), [Leaf(d, "rfc822") EXCEPT !.attached = TRUE], Leaf(d, "global"),
   Leaf(d, "plain"), [Leaf(d, "plain") EXCEPT !.bad = "text"], [Leaf(d, "html") EXCEPT !.bytes = 3],
   Attached(d), [Attached(d) EXCEPT !.long = TRUE], [Leaf(d, "other") EXCEPT !.bad = "type"]}

FewVariants(d) == {Multipart(d), Leaf(d, "rfc822"), Leaf(d, "plain"), Attached(d)}

\* Entities below the first one: only containers and messages have parts.
Below(trees, variants(_)) ==
  {Append(t, e) : t \in trees, e \in UNION {variants(d) : d \in 1 .. 3}}

Shaped(t) ==
  \A i \in 2 .. Len(t) :
    \/ t[i].depth <= t[i - 1].depth
    \/ t[i].depth = t[i - 1].depth + 1 /\ t[i - 1].kind \in {"multipart", "rfc822"}

Shape(trees) == {t \in trees : Shaped(t)}

MCTrees ==
  LET one == {<<e>> : e \in Variants(0)}
      two == Shape(Below(one, Variants))
      three == Shape(Below(two, Variants))
      four == Shape(Below(three, FewVariants))
      five == Shape(Below({t \in four : \A i \in DOMAIN t : t[i] \in FewVariants(t[i].depth)}, FewVariants))
      six == Shape(Below(five, FewVariants))
  IN one \cup two \cup three \cup four \cup five \cup {t \in six : t[2] = Multipart(1)}

Fields ==
  {HeaderField(n, <<5>>, b, FALSE) : n \in {"Subject", "From"}, b \in BOOLEAN}
  \cup {HeaderField("Subject", <<6>>, FALSE, TRUE), HeaderField("References", <<1, 2, 3>>, FALSE, FALSE),
        HeaderField("Message-ID", <<4>>, FALSE, FALSE), HeaderField("X-Other", <<>>, FALSE, FALSE)}

MCLocalDocuments ==
  {[tree |-> t, header |-> <<>>] : t \in MCTrees}
  \cup {[tree |-> <<>>, header |-> h] : h \in UNION {[1 .. n -> Fields] : n \in 1 .. 4}}

MCLimits == {-1, 0, 1, 9}

MCRooms == {-2, -1, 0, 2, 9}
=============================================================================
