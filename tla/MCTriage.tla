------------------------------ MODULE MCTriage ------------------------------
(* Folder lists with one, two or no holder of the attribute, a holder that    *)
(* cannot be selected, is an aggregate view or the source, and a name that    *)
(* is listed twice.                                                           *)
EXTENDS Triage, Sequences

Box(name, attributes) == Mailbox(name, TRUE, FALSE, attributes)

MCListings ==
  {<<Box("INBOX", {}), Box("Archive", {"Archive"}), Box("All Mail", {"All"}), Box("Folders/Work", {})>>,
   <<Box("Inbox", {}), Box("inbox", {}), Box("Archive", {"Archive"}), Box("Folders/Old", {"Archive"})>>,
   <<Box("inbox", {"Noselect"}), Box("All Mail", {"Archive"}), Box("Archive", {})>>,
   <<Box("inbox", {}), Box("Folders/Work", {"Archive"}), Mailbox("Archive", FALSE, TRUE, {"Sent"})>>}

MCRequests ==
  {[kind |-> "seen", goal |-> "none"], [kind |-> "attribute", goal |-> "Archive"]}
  \cup [kind : {"move"}, goal : {"inBox", "Archive", "Folders/Work"}]
=============================================================================
