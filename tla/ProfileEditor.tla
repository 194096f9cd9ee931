--------------------------- MODULE ProfileEditor ---------------------------
(***************************************************************************)
(* One speaker profile, edited in two browsers: the speaker's portal       *)
(* (apps/web/src/ConnectedSpeakerPortal.tsx) and the organizers' roster    *)
(* (apps/web/src/ConnectedSpeakerContentAdmin.tsx).  A form keeps the last *)
(* profile it was given (canonicalDraft) and what its user typed (draft,   *)
(* with the revision a save will name).  Reloads, answers and typing meet  *)
(* in any order; the server takes a save only at its current revision.     *)
(*                                                                         *)
(* Every write of the server names the revision it read or was sent, so a  *)
(* request is one step here: being overtaken inside it only refuses it.    *)
(***************************************************************************)
EXTENDS Naturals

CONSTANTS
  Fields,        \* what the editable fields may hold
  FirstFields,   \* what they hold at first
  MaxRevision    \* bound: no write is sent once the profile has this revision

Forms == {"portal", "roster"}
Slots == {"save", "meta"}      \* a save, and a change of anything else
Idle == [kind |-> "idle"]
NotAsked == [kind |-> "not asked"]
Asked == [kind |-> "asked"]
Refused == [kind |-> "refused"]

VARIABLES
  row,        \* the profile at the server: fields, visibility, workflow, revision
  past,       \* what the history of the profile offers to restore
  shown,      \* by form: the profile its page was last given
  canonical,  \* by form: canonicalDraft.current
  draft,      \* by form: the fields typed and the revision a save names
  base,       \* by form: the fields the user last saw before starting to type
  call,       \* by form and slot: the request under way, or its answer
  load        \* by form: the reload under way, or its answer

vars == <<row, past, shown, canonical, draft, base, call, load>>

----------------------------------------------------------------------------
(* The form's idea of a profile.                                           *)

ToDraft(profile) ==
  [fields |-> profile.fields, public |-> profile.public, revision |-> profile.revision]

\* The portal's form has no visibility; the roster's compares it as well.
SameDraft(f, d, e) == d.fields = e.fields /\ (f = "roster" => d.public = e.public)

\* setDraft(next): the user sees what the server sent.
Show(f, next) ==
  /\ draft' = [draft EXCEPT ![f] = next]
  /\ base' = [base EXCEPT ![f] = next.fields]

\* A page starts a load of its own, and gives up the one before it.
Reload(f) == load' = [load EXCEPT ![f] = Asked]

FirstRow == [fields |-> FirstFields, public |-> FALSE, confirmed |-> FALSE, revision |-> 1]

Init ==
  /\ row = FirstRow
  /\ past = {}
  /\ shown = [f \in Forms |-> FirstRow]
  /\ canonical = [f \in Forms |-> ToDraft(FirstRow)]
  /\ draft = [f \in Forms |-> ToDraft(FirstRow)]
  /\ base = [f \in Forms |-> FirstFields]
  /\ call = [f \in Forms |-> [s \in Slots |-> Idle]]
  /\ load = [f \in Forms |-> NotAsked]

----------------------------------------------------------------------------
(* The user.  The roster disables every control while one request is under *)
(* way; the portal only the control that was used.                         *)

Enabled(f, slot) ==
  \A s \in Slots : (f = "roster" \/ s = slot) => call[f][s] = Idle

Type(f, fields) ==
  /\ fields # draft[f].fields
  /\ draft' = [draft EXCEPT ![f].fields = fields]
  /\ UNCHANGED <<row, past, shown, canonical, base, call, load>>

Send(f, slot, request) ==
  /\ Enabled(f, slot)
  /\ row.revision < MaxRevision
  /\ call' = [call EXCEPT ![f][slot] = request]
  /\ UNCHANGED <<row, past, shown, canonical, draft, base, load>>

\* base goes along only for the property below.
Save(f) == Send(f, "save", [kind |-> "save", sent |-> draft[f], base |-> base[f]])

Headshot(f) == Send(f, "meta", [kind |-> "headshot", canonical |-> canonical[f]])

\* The roster toggles what its page shows, at the revision its page shows.
ToggleVisibility ==
  Send("roster", "meta", [kind |-> "visibility", canonical |-> canonical["roster"],
                          value |-> ~shown["roster"].public, revision |-> shown["roster"].revision])

ToggleWorkflow ==
  Send("roster", "meta", [kind |-> "workflow", canonical |-> canonical["roster"],
                          value |-> ~shown["roster"].confirmed, revision |-> shown["roster"].revision])

Restore ==
  \E prior \in past : Send("roster", "meta", [kind |-> "restore", value |-> prior])

\* A task, a file, a comment or the button of an error reloads the page.
PageReload(f) ==
  /\ Reload(f)
  /\ UNCHANGED <<row, past, shown, canonical, draft, base, call>>

----------------------------------------------------------------------------
(* The server.                                                             *)

\* The row a request leaves; the row itself when there is nothing to do.
Written(f, request) ==
  CASE request.kind = "save" ->
         [row EXCEPT !.fields = request.sent.fields,
                     !.public = IF f = "roster" THEN request.sent.public ELSE row.public]
    [] request.kind = "visibility" -> [row EXCEPT !.public = request.value]
    [] request.kind = "workflow" -> [row EXCEPT !.confirmed = request.value]
    [] request.kind = "restore" ->
         [row EXCEPT !.fields = request.value.fields, !.public = request.value.public]
    [] request.kind = "headshot" -> row

\* The revision a request names; a headshot and a restoration read the row's.
Named(request) ==
  CASE request.kind = "save" -> request.sent.revision
    [] request.kind \in {"visibility", "workflow"} -> request.revision
    [] OTHER -> row.revision

\* Already so, at the revision named or at the next: answered without a write.
Settled(f, request) ==
  /\ request.kind # "headshot"
  /\ Written(f, request) = row
  /\ row.revision \in {Named(request), Named(request) + 1}

Answer(f, slot, request, answer) ==
  call' = [call EXCEPT ![f][slot] = [kind |-> "answer", to |-> request, profile |-> answer]]

Take(f, slot) ==
  LET request == call[f][slot] IN
  /\ request.kind \notin {"idle", "answer"}
  /\ \/ /\ Settled(f, request)
        /\ Answer(f, slot, request, row)
        /\ UNCHANGED <<row, past>>
     \/ /\ ~Settled(f, request)
        /\ Named(request) = row.revision
        /\ row' = [Written(f, request) EXCEPT !.revision = row.revision + 1]
        /\ past' = IF request.kind \in {"save", "restore"}
                     THEN past \union {[fields |-> row.fields, public |-> row.public]}
                     ELSE past
        \* The answer may be lost, or spoilt by a write that follows before it is read back.
        /\ \E answer \in {row', Refused} : Answer(f, slot, request, answer)
     \* Out of date, or refused for a reason of its own, such as an incomplete profile.
     \/ /\ Answer(f, slot, request, Refused)
        /\ UNCHANGED <<row, past>>
  /\ UNCHANGED <<shown, canonical, draft, base, load>>

Read(f) ==
  /\ load[f] = Asked
  /\ load' = [load EXCEPT ![f] = [kind |-> "read", profile |-> row]]
  /\ UNCHANGED <<row, past, shown, canonical, draft, base, call>>

----------------------------------------------------------------------------
(* What comes back to a form.                                              *)

\* The effect on a new profile: a form nobody touched follows it.
Loaded(f) ==
  /\ load[f].kind = "read"
  /\ LET profile == load[f].profile
         next == ToDraft(profile) IN
     /\ shown' = [shown EXCEPT ![f] = profile]
     /\ canonical' = [canonical EXCEPT ![f] = next]
     /\ IF SameDraft(f, draft[f], canonical[f])
          THEN Show(f, next)
          ELSE UNCHANGED <<draft, base>>
  /\ load' = [load EXCEPT ![f] = NotAsked]
  /\ UNCHANGED <<row, past, call>>

\* What was typed while the save was under way stands on what was saved.
SaveAnswered(f, request, next) ==
  /\ base' = [base EXCEPT ![f] = next.fields]
  /\ draft' = [draft EXCEPT ![f] =
       IF SameDraft(f, draft[f], request.sent)
         THEN next
         ELSE [draft[f] EXCEPT !.revision = next.revision]]

\* mutateProfileMetadata and the portal's uploadHeadshot.
OnlyThisMutationAdvancedCanonical(request, next) ==
  /\ next.revision = request.canonical.revision + 1
  /\ next.fields = request.canonical.fields

MetaAnswered(f, request, next) ==
  IF SameDraft(f, draft[f], canonical[f])
    THEN Show(f, next)
    ELSE /\ draft' = [draft EXCEPT ![f] =
              IF OnlyThisMutationAdvancedCanonical(request, next)
                THEN [draft[f] EXCEPT !.revision = next.revision,
                                      !.public = IF f = "roster" THEN next.public ELSE @]
                ELSE draft[f]]
         /\ UNCHANGED base

Answered(f, slot) ==
  LET answer == call[f][slot] IN
  /\ answer.kind = "answer"
  /\ IF answer.profile = Refused
       THEN UNCHANGED <<canonical, draft, base, load>>
       ELSE LET next == ToDraft(answer.profile) IN
            /\ canonical' = [canonical EXCEPT ![f] = next]
            /\ CASE answer.to.kind = "save" -> SaveAnswered(f, answer.to, next)
                 [] answer.to.kind = "restore" -> Show(f, next)
                 [] OTHER -> MetaAnswered(f, answer.to, next)
            /\ Reload(f)
  /\ call' = [call EXCEPT ![f][slot] = Idle]
  /\ UNCHANGED <<row, past, shown>>

Next ==
  \/ ToggleVisibility \/ ToggleWorkflow \/ Restore
  \/ \E f \in Forms :
       \/ \E fields \in Fields : Type(f, fields)
       \/ Save(f) \/ Headshot(f) \/ PageReload(f)
       \/ Read(f) \/ Loaded(f)
       \/ \E slot \in Slots : Take(f, slot) \/ Answered(f, slot)

Spec == Init /\ [][Next]_vars

----------------------------------------------------------------------------
(* The form's promise, in the words it shows after a headshot              *)
(* (ConnectedSpeakerPortal.tsx) and after a change of visibility or        *)
(* workflow (ConnectedSpeakerContentAdmin.tsx): when the profile changed   *)
(* elsewhere, "any unsaved edits keep their original revision so they      *)
(* cannot overwrite that change".  A save under way that the server would  *)
(* take replaces the very fields its user had seen before typing.          *)
UnsavedEditsOverwriteNothing ==
  \A f \in Forms :
    LET request == call[f]["save"] IN
    (request.kind = "save" /\ request.sent.revision = row.revision) =>
      request.base = row.fields

=============================================================================
