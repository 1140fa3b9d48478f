------------------------------- MODULE Threads -------------------------------
(***************************************************************************)
(* Local thread resolution: headers already fetched are put in order,      *)
(* given distinct keys and linked to parents by References or In-Reply-To, *)
(* without cycles and without chains deeper than the limit.                *)
(*                                                                         *)
(* A string is a number, 0 the empty one; a key is a string and a suffix,  *)
(* 1 for none.  Indexes are 1-based, 0 is "no parent".                     *)
(***************************************************************************)
EXTENDS Integers, Sequences, FiniteSets, SequencesExt

ThreadMessages ==
  [Key : Nat, MessageID : Nat, References : Seq(Nat), InReplyTo : Nat, ReceivedAt : Nat]

ThreadMessage(key, mid, refs, reply, received) ==
  [Key |-> key, MessageID |-> mid, References |-> refs, InReplyTo |-> reply,
   ReceivedAt |-> received]

-----------------------------------------------------------------------------
(* Order and keys.                                                         *)

\* threadMessageBefore, on messages with their input index.
threadMessageBefore(l, r) ==
  LET a == l.message
      b == r.message
  IN CASE a.ReceivedAt # b.ReceivedAt -> a.ReceivedAt < b.ReceivedAt
       [] a.ReceivedAt = b.ReceivedAt /\ a.Key # b.Key -> a.Key < b.Key
       [] a.ReceivedAt = b.ReceivedAt /\ a.Key = b.Key /\ a.MessageID # b.MessageID ->
            a.MessageID < b.MessageID
       [] OTHER -> l.inputIndex < r.inputIndex

\* earliestThreadMessages: what the bounded heap keeps, sorted.
earliestThreadMessages(messages, limit) ==
  LET indexed == [i \in DOMAIN messages |-> [message |-> messages[i], inputIndex |-> i]]
      before(i) == {j \in DOMAIN messages : threadMessageBefore(indexed[j], indexed[i])}
  IN [k \in 1 .. (IF Len(messages) > limit THEN limit ELSE Len(messages)) |->
        messages[CHOOSE i \in DOMAIN messages : Cardinality(before(i)) = k - 1]]

\* stableThreadKey: the first suffix not taken.
stableThreadKey(m, taken) ==
  LET base == IF m.Key # 0 THEN m.Key ELSE m.MessageID
      used == {taken[i][2] : i \in {j \in DOMAIN taken : taken[j][1] = base}}
  IN <<base, CHOOSE s \in 1 .. Len(taken) + 1 :
               s \notin used /\ \A t \in 1 .. s - 1 : t \in used>>

ThreadKeys(ordered) == FoldLeft(LAMBDA ks, m : Append(ks, stableThreadKey(m, ks)), <<>>, ordered)

-----------------------------------------------------------------------------
(* Parents.                                                                *)

\* identifiers: the first message with the identifier, 0 when there is none.
Identified(ordered, mid) ==
  IF mid = 0 THEN 0 ELSE SelectInSeq(ordered, LAMBDA m : m.MessageID = mid)

LastRefs(refs, max) == IF Len(refs) > max THEN SubSeq(refs, Len(refs) - max + 1, Len(refs)) ELSE refs

\* parentFor: the last reference that is here; In-Reply-To without references.
parentFor(m, ordered, maxRefs) ==
  LET refs == LastRefs(m.References, maxRefs)
      named == IF refs = <<>> THEN <<m.InReplyTo>> ELSE refs
      here == SelectLastInSeq(named, LAMBDA r : Identified(ordered, r) > 0)
  IN IF here = 0 THEN 0 ELSE Identified(ordered, named[here])

\* wouldCycle: child is parent or above it, so in every set that has both.
wouldCycle(child, parent, parents) ==
  \A above \in SUBSET DOMAIN parents :
    parent \in above /\ (\A i \in above : parents[i] # 0 => parents[i] \in above) => child \in above

\* One parent is looked for; later ones see it.
linkParent(s, i, ordered, maxRefs) ==
  LET p == parentFor(ordered[i], ordered, maxRefs)
      cyclic == p > 0 /\ wouldCycle(i, p, s.parents)
  IN [parents |-> [s.parents EXCEPT ![i] = IF cyclic THEN 0 ELSE p],
      cycle |-> s.cycle \/ cyclic]

\* The loop over parents.
Linked(ordered, maxRefs) ==
  FoldLeft(LAMBDA s, i : linkParent(s, i, ordered, maxRefs),
           [parents |-> [i \in DOMAIN ordered |-> 0], cycle |-> FALSE],
           [i \in DOMAIN ordered |-> i])

-----------------------------------------------------------------------------
(* Depths.                                                                 *)

\* resolveThreadDepth: a depth found before is used again.
resolveThreadDepth(index, parents, depths) ==
  LET depth[i \in DOMAIN parents] ==
        IF parents[i] = 0 THEN 0
        ELSE (IF depths[parents[i]] > 0 THEN depths[parents[i]] ELSE depth[parents[i]]) + 1
  IN depth[index]

\* A bug of boundDepth: a message cut off stays below its parent.
boundDepthKeepsParent(s, i, maxDepth) ==
  LET d == resolveThreadDepth(i, s.parents, s.depths)
  IN [s EXCEPT !.depths[i] = IF d > maxDepth THEN 0 ELSE d, !.deep = @ \/ d > maxDepth]

\* One depth is found; a message that is too deep becomes a root.
boundDepth(s, i, maxDepth) ==
  LET d == resolveThreadDepth(i, s.parents, s.depths)
  IN [parents |-> IF d > maxDepth THEN [s.parents EXCEPT ![i] = 0] ELSE s.parents,
      depths |-> [s.depths EXCEPT ![i] = IF d > maxDepth THEN 0 ELSE d],
      deep |-> s.deep \/ d > maxDepth]

\* The loop over depths.
Bounded(parents, maxDepth) ==
  FoldLeft(LAMBDA s, i : boundDepth(s, i, maxDepth),
           [parents |-> parents, depths |-> [i \in DOMAIN parents |-> 0], deep |-> FALSE],
           [i \in DOMAIN parents |-> i])

-----------------------------------------------------------------------------

\* BuildThread.  missing keeps only whether a message has a parent elsewhere.
BuildThread(messages, maxMessages, maxRefs, maxDepth) ==
  LET ordered == earliestThreadMessages(messages, maxMessages)
      keys == ThreadKeys(ordered)
      linked == Linked(ordered, maxRefs)
      bounded == Bounded(linked.parents, maxDepth)
  IN [nodes |-> [i \in DOMAIN ordered |->
                   [key |-> keys[i], message |-> ordered[i], depth |-> bounded.depths[i],
                    parent |-> IF bounded.parents[i] = 0 THEN <<>> ELSE keys[bounded.parents[i]]]],
      messages |-> Len(messages) > maxMessages,
      references |-> \E i \in DOMAIN ordered : Len(ordered[i].References) > maxRefs,
      cycle |-> linked.cycle,
      depth |-> bounded.deep]

TruncatedThread(t) == t.messages \/ t.references \/ t.cycle \/ t.depth

-----------------------------------------------------------------------------
(* What a thread has to be, stated without the loops.                      *)

\* Distinct keys; every parent a node one level up that the message names,
\* and no level beyond the limit: so a forest.
IsForest(t, maxDepth) ==
  \A i \in DOMAIN t.nodes :
    LET n == t.nodes[i]
        above == {j \in DOMAIN t.nodes : t.nodes[j].key = n.parent}
    IN /\ \A j \in DOMAIN t.nodes : t.nodes[j].key = n.key => j = i
       /\ n.depth <= maxDepth
       /\ n.parent = <<>> <=> n.depth = 0
       /\ n.parent # <<>> =>
            \E j \in above :
              /\ n.depth = t.nodes[j].depth + 1
              /\ t.nodes[j].message.MessageID \in
                   {n.message.InReplyTo} \cup {n.message.References[k] : k \in DOMAIN n.message.References}

\* Without a flag nothing is lost: every message is a node, and every one that
\* names another message of the thread in what it refers to has a parent.
KeepsLinks(t, messages) ==
  ~TruncatedThread(t) =>
    /\ Len(t.nodes) = Len(messages)
    /\ \A i, j \in DOMAIN t.nodes :
         LET m == t.nodes[i].message
             other == t.nodes[j].message.MessageID
         IN other # 0 /\ (\/ \E k \in DOMAIN m.References : m.References[k] = other
                          \/ m.References = <<>> /\ m.InReplyTo = other)
              => t.nodes[i].parent # <<>>
=============================================================================
