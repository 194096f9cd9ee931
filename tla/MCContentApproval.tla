------------------------- MODULE MCContentApproval -------------------------
(***************************************************************************)
(* Two sessions and two speakers: the first presents one session, the      *)
(* second presents with them and has a session of their own.               *)
(***************************************************************************)
EXTENDS ContentScreens

CONSTANTS s1, s2, p1, p2, q1, release, slides

MCPresenter == {<<s1, p1>>, <<s1, p2>>, <<s2, p2>>}
MCPrimary == [s \in {s1, s2} |-> IF s = s1 THEN p1 ELSE p2]
MCAddressed == {<<s1, p2>>}
MCSessionOf == [q \in {q1} |-> s1]

(***************************************************************************)
(* States that differ only in what changes nothing are the same to TLC:    *)
(* whether an inactive request was required, which the edit that activates *)
(* it says anew; and, once the latest version has been reviewed, whether   *)
(* there are older ones, since a review of one of those does at most what  *)
(* Unapprove does as long as DeliverablesCurrent holds.                    *)
(* Nor does `complete' count: Headshot alone asks for it, and writes what  *)
(* OwnProfile may write whatever it says.  (A run that checks a property   *)
(* of `complete' takes no view.)                                           *)
(***************************************************************************)
LiveRequest(row) ==
    <<row.state, row.latest, row.state = "active" /\ row.required,
      row.latest = "unreviewed" /\ row.older>>

LiveState ==
    << accepted, approved, deliverables, confirmed, ready, signed, published, task,
       [q \in Request |-> LiveRequest(request[q])] >>
=============================================================================
