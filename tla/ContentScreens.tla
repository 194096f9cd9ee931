--------------------------- MODULE ContentScreens ---------------------------
(***************************************************************************)
(* The screens over the pages of ContentPages: the organizers' dossiers    *)
(* and speaker roster (apps/web/src/ConnectedSpeakerContentAdmin.tsx) and  *)
(* the speakers' own desk (ConnectedSpeakerPortal.tsx).  The operators are *)
(* what a screen offers right after it has loaded, and what it then sends. *)
(* A page that has grown old sends what it showed; the revision in the     *)
(* request is what ContentApproval has such a request fail by.             *)
(***************************************************************************)
EXTENDS ContentPages

(***************************************************************************)
(* The organizers' dossiers.                                               *)
(***************************************************************************)
ContentOperations == accepted

\* The status that the approval button of a dossier sends, if it can be pressed.
ContentDossier(s) ==
    IF s \in approved THEN {"pending"}
    ELSE {status \in {"approved"} : OrganizerContent[s] = {}}

\* "Deactivate" or "Activate" beside each request of the session, whose other
\* fields go back to the server as they came.
toggleRequest(q) ==
    UpdateRequest(q, IF request[q].state = "active" THEN "inactive" ELSE "active",
                  request[q].required)

\* The form creates required requests only.
RequestCreator(q) == CreateRequest(q, TRUE)

\* Both outcomes are offered, of the latest version of each request that has one,
\* an inactive request included.
ReviewControls(s) == {q \in Request : SessionOf[q] = s /\ request[q].latest # "none"}

(***************************************************************************)
(* The roster, and the speaker selected in it.                             *)
(***************************************************************************)

\* The filter "Ready".  The picture, which nothing else asks for, counts there too;
\* these are the speakers who have one, or would be listed with one.
SpeakerRoster ==
    {p \in Speaker : \A column \in DOMAIN RosterReadiness(p) : RosterReadiness(p)[column]}

SpeakerTaskDeadlinePanel(p) == TaskReminder(p)

visibility(p) == Visibility(p, p \notin published)
workflow(p) == Workflow(p, p \notin confirmed)

\* "Waive" or "Reopen" beside each task.
ledgerTask(t) == SetTask(t, IF task[t] = "waived" THEN "open" ELSE "waived")

(***************************************************************************)
(* The speakers' desk.                                                     *)
(***************************************************************************)
\* The tasks with a button.
TaskList(p) == {t \in Workspace(p).tasks : task[t] # "waived"}

Toggled(t) == IF task[t] = "complete" THEN "open" ELSE "complete"

toggleTask(t) == SetTask(t, Toggled(t))

\* The requests with an upload form.
UploadRequest(p) == {q \in Workspace(p).requests : request[q].state = "active"}

\* The number beside "Your tasks", over all sessions.
DueWork(p) == {t \in Workspace(p).tasks : task[t] = "open"}

(***************************************************************************)
(* Properties.                                                             *)
(***************************************************************************)

\* What a screen offers is what the handler behind it takes of its user: the dossier
\* works its causes out by itself, the approval is refused by a trigger; the review
\* form and the upload form go by what the session and the presenter were given, the
\* handlers by the request alone; the desk lists the tasks of accepted sessions, the
\* handler takes any task of the speaker's.
ButtonsAreTaken ==
    /\ \A s \in ContentOperations : "approved" \in ContentDossier(s) <=> MayApprove(s)
    /\ \A q \in Request :
          /\ MayReview(q) <=> \E s \in ContentOperations : q \in ReviewControls(s)
          /\ MayUpload(q) <=> \E p \in Speaker : q \in UploadRequest(p)
    /\ \A p \in Speaker : \A t \in SpeakerState(p).tasks :
          (MaySetOwn(t) /\ MaySet(t, Toggled(t))) <=> t \in TaskList(p)

\* No approval is stuck: for each cause the dossier names, some screen has a button.
\* A deliverable can be uploaded by a presenter and what was uploaded reviewed, an
\* open task is on the desk of its speaker, and an unsigned presenter has an open
\* release task of that very session there.
NothingIsStuck ==
    \A s \in ContentOperations :
        /\ \A q \in Needed(s) : Unapproved(q) =>
              /\ \E p \in PresentersOf(s) : q \in UploadRequest(p)
              /\ request[q].latest # "none" => q \in ReviewControls(s)
        /\ \A t \in OpenTasks : t[1] = s => t \in TaskList(t[2])
        /\ \A p \in PresentersOf(s) \ signed :
              \E t \in TaskList(p) : t[1] = s /\ t[3] = Release /\ task[t] = "open"

\* The number on a speaker's desk, the deadline panel and the roster tell of the
\* same open tasks; and a speaker under "Ready" holds nothing back but, as other
\* columns say, participation and visibility.
RosterIsTrue ==
    \A p \in Speaker :
        /\ DueWork(p) = SpeakerTaskDeadlinePanel(p)
        /\ RosterReadiness(p).requiredTasksReady <=> SpeakerTaskDeadlinePanel(p) = {}
        /\ p \in SpeakerRoster => \A s \in SpeakerSessions(p) :
              /\ "deliverables" \notin OrganizerContent[s]
              /\ PresentersOf(s) = {p} /\ p \in confirmed => OrganizerContent[s] \subseteq {"primary"}

\* Pages, screens and handlers agree.
ContentScreensOffer ==
    /\ WorkspacesAgree
    /\ ButtonsAreTaken
    /\ NothingIsStuck
    /\ RosterIsTrue

\* A button does what the dossier asks for.  When one thing is left, pressing the
\* button that does it clears the dossier's list: the last deliverable is approved or
\* no longer asked for, the last task done or waived, the last presenter confirmed,
\* the profile of the primary one made public, and the last task signs when it is the
\* release.  And a request that is added is named as a cause at once.
LastButtonClears ==
    [][/\ \A s \in ContentOperations :
            LET causes == OrganizerContent[s]
                cleared == unmetGates(s)' = {}
            IN  /\ causes = {"deliverables"} =>
                      \A q \in Needed(s) :
                          /\ {r \in Needed(s) : Unapproved(r)} = {q}
                          /\ ReviewLatest(q, "approved") \/ toggleRequest(q)
                          => cleared
                /\ causes \in {{"tasks"}, {"tasks", "presenters"}} =>
                      \A t \in OpenTasks :
                          /\ {u \in OpenTasks : u[1] = s} = {t}
                          /\ "presenters" \in causes =>
                                /\ t[3] = Release
                                /\ PresentersOf(s) \ (confirmed \intersect ready \intersect signed) = {t[2]}
                                /\ t[2] \in confirmed \intersect ready
                          /\ toggleTask(t) \/ ledgerTask(t)
                          => cleared
                /\ causes = {"presenters"} =>
                      \A p \in PresentersOf(s) :
                          /\ PresentersOf(s) \ (confirmed \intersect ready \intersect signed) = {p}
                          /\ p \in ready \intersect signed
                          /\ workflow(p)
                          => cleared
                /\ causes = {"primary"} /\ visibility(Primary[s]) => cleared
       /\ \A q \in Request : RequestCreator(q) => "deliverables" \in unmetGates(SessionOf[q])']_vars
=============================================================================
