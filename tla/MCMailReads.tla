----------------------------- MODULE MCMailReads -----------------------------
(* Four to five messages, windows of two, pages of three, two windows a page. *)
EXTENDS MailReads
=============================================================================
