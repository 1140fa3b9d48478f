--------------------------- MODULE TriageContract ---------------------------
(***************************************************************************)
(* What a triage batch promises its caller (docs/MCP.md, triage tools), in *)
(* terms of the mailbox alone: no sessions, retries, contexts or replies.  *)
(*                                                                         *)
(* A write is exposed once it has left the process; from then on it may    *)
(* take effect until its verdict says otherwise.                           *)
(***************************************************************************)
EXTENDS Naturals

CONSTANT N

VARIABLES verdict,  \* "pending", the reported outcome, or "failed"
          exposed,  \* UIDs whose write has been sent
          effect    \* how often each UID was written

UID == 1 .. N

Init ==
  /\ verdict = [u \in UID |-> "pending"]
  /\ exposed = {}
  /\ effect = [u \in UID |-> 0]

\* The turn of u: every earlier UID has a definite verdict.
Turn(u) ==
  /\ verdict[u] = "pending"
  /\ \A v \in UID : v < u => verdict[v] \in {"applied", "refused"}

\* Verdicts when all UIDs from u on get the same one.
From(u, v) == [w \in UID |-> IF w >= u THEN v ELSE verdict[w]]

Expose(u) ==
  /\ Turn(u) /\ u \notin exposed
  /\ exposed' = exposed \cup {u}
  /\ UNCHANGED <<verdict, effect>>

\* An exposed write takes effect, at most once, while it is not settled.
TakeEffect(u) ==
  /\ u \in exposed /\ verdict[u] \in {"pending", "unknown"} /\ effect[u] = 0
  /\ effect' = [effect EXCEPT ![u] = 1]
  /\ UNCHANGED <<verdict, exposed>>

Apply(u) ==
  /\ Turn(u) /\ u \in exposed
  /\ verdict' = [verdict EXCEPT ![u] = "applied"]
  /\ UNCHANGED <<exposed, effect>>

Refuse(u) ==
  /\ Turn(u) /\ effect[u] = 0
  /\ verdict' = [verdict EXCEPT ![u] = "refused"]
  /\ UNCHANGED <<exposed, effect>>

\* An uncertain write ends the batch.
Uncertain(u) ==
  /\ Turn(u)
  /\ verdict' = [From(u, "not_attempted") EXCEPT ![u] = "unknown"]
  /\ UNCHANGED <<exposed, effect>>

\* The batch stops before u is sent: abandoned, or refused as a whole.
Stop(u) ==
  /\ Turn(u) /\ u \notin exposed
  /\ verdict' \in {From(u, "not_attempted"), From(u, "refused")}
  /\ UNCHANGED <<exposed, effect>>

\* The whole request fails, with no result per UID and nothing written.
Fail ==
  /\ \E u \in UID : Turn(u) /\ u \notin exposed
  /\ \A u \in UID : effect[u] = 0
  /\ verdict' = [u \in UID |-> "failed"]
  /\ UNCHANGED <<exposed, effect>>

Next ==
  \/ \E u \in UID : \/ Expose(u) \/ TakeEffect(u) \/ Apply(u) \/ Refuse(u)
                    \/ Uncertain(u) \/ Stop(u)
  \/ Fail

Spec == Init /\ [][Next]_<<verdict, exposed, effect>>

\* The caller is answered for every UID (operationContext bounds every step).
Settles == <>(\A u \in UID : verdict[u] # "pending")
=============================================================================
