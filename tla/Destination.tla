---------------------------- MODULE Destination ----------------------------
(***************************************************************************)
(* Where a move may go: the destination is resolved from one folder        *)
(* listing, by name or by protocol attribute, or it is refused.            *)
(*                                                                         *)
(* A name is told apart only by what the code asks of it: whether it folds *)
(* to INBOX, lies below Folders/, has no slash in it, or is the name of an *)
(* aggregate view.                                                         *)
(***************************************************************************)
EXTENDS Naturals, FiniteSets

CONSTANTS
  InboxNames,      \* spellings of INBOX
  FolderNames,     \* names that go on after "Folders/"
  RootNames,       \* names without "/"
  AggregateNames,  \* spellings of "All Mail" and "Starred"
  Unresolved       \* the listing supports no destination

\* listedMailbox.  slash: its delimiter is "/"; split: another delimiter occurs
\* in its name.
Mailbox(name, slash, split, attributes) ==
  [Name |-> name, slash |-> slash, split |-> split, Attributes |-> attributes]

rootSystemAttributes == {"Sent", "Drafts", "Junk", "Archive", "Trash"}

refusedDestinationAttributes == {"Noselect", "NonExistent", "All", "Flagged"}

mailboxIdentityMatches(requested, actual) ==
  IF requested \in InboxNames THEN actual \in InboxNames ELSE requested = actual

isHierarchyRoot(m) == m.Name \in RootNames /\ ~m.split

Matching(listing, name) == {i \in DOMAIN listing : mailboxIdentityMatches(name, listing[i].Name)}

Holders(listing, attribute) == {i \in DOMAIN listing : attribute \in listing[i].Attributes}

\* One match, selectable and not virtual, that is INBOX, a user folder or a
\* system mailbox at the root.
resolveMoveDestination(listing, destination) ==
  LET matches == Matching(listing, destination)
      m == listing[CHOOSE i \in matches : TRUE]
  IN IF Cardinality(matches) # 1 THEN Unresolved
     ELSE CASE m.Attributes \cap refusedDestinationAttributes # {} -> Unresolved
            [] m.Attributes \cap refusedDestinationAttributes = {} /\ m.Name \in InboxNames -> "INBOX"
            [] m.Attributes \cap refusedDestinationAttributes = {} /\ m.Name \notin InboxNames
                 /\ (\/ m.slash /\ m.Name \in FolderNames
                     \/ isHierarchyRoot(m) /\ m.Attributes \cap rootSystemAttributes # {}) -> m.Name
            [] OTHER -> Unresolved

\* The one holder of the attribute, if it is no aggregate view and would do as
\* a destination by its name.
resolveAttributeDestination(listing, attribute) ==
  LET holders == Holders(listing, attribute)
      holder == listing[CHOOSE i \in holders : TRUE].Name
  IN IF Cardinality(holders) # 1 THEN Unresolved
     ELSE IF holder \in AggregateNames THEN Unresolved
     ELSE resolveMoveDestination(listing, holder)
=============================================================================
