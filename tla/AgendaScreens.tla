---------------------------- MODULE AgendaScreens ----------------------------
(***************************************************************************)
(* The screens over the pages of PublicPages: the organizers' agenda board *)
(* (apps/web/src/ConnectedAgendaAdmin.tsx), the readiness cockpit          *)
(* (ConnectedReadinessCockpit.tsx) and the public program with a visitor's *)
(* own schedule (ConnectedProgram.tsx, personalSchedule.ts).  They work    *)
(* out in the browser, from the page they loaded, what the server works    *)
(* out from its rows: the starts of a day, the cells of the board, the     *)
(* sessions a filter selects, whether the agenda can be published.         *)
(***************************************************************************)
EXTENDS PublicPages

(***************************************************************************)
(* The agenda board.                                                       *)
(***************************************************************************)

\* The starts of a day at which something of that length ends before it closes.
slotStarts(window, n) ==
    {t \in window.opens .. window.closes :
        (t - window.opens) % window.slot = 0 /\ t + n <= window.closes}

FirstDaySetup == days = {}
SetupPanel == Room \ rooms

\* The rows the dialog of a session lets choose.
SessionPlacementDialog(s) ==
    UNION {{[session |-> s, day |-> d.number, room |-> r, starts |-> t, ends |-> t + length[s]] :
               r \in rooms, t \in slotStarts(d.window, length[s])} : d \in days}

\* Saving it creates the session's placement or moves it.
MaySave(row) ==
    IF Placed(row.session) THEN MayMove(PlacementOf(row.session), row) ELSE MayCreate(row)

\* The cells of a placement on the board of its day: the column of its room, and from
\* the row it starts in as many rows as it takes; nothing is drawn of a placement whose
\* row is not on the board, and one that starts between two rows is marked.
AgendaBoard(row) ==
    LET window == (CHOOSE d \in days : d.number = row.day).window
        offset == row.starts - window.opens
        first == offset \div window.slot
        within == offset - first * window.slot
        span == (within + length[row.session] + window.slot - 1) \div window.slot
    IN  IF first \in 0 .. Cardinality(slotStarts(window, 0)) - 1
        THEN [drawn |-> {<<row.day, row.room, n>> : n \in first .. first + span - 1}, offGrid |-> within # 0]
        ELSE [drawn |-> {}, offGrid |-> TRUE]

unplaced == {s \in accepted : ~Placed(s)}

\* The workspace's publish button, and the placed sessions it warns of.
AgendaWorkspace == AgendaConflicts = {} /\ accepted # unplaced
placedNotPublic ==
    {s \in accepted : \E class \in {"contentNotApproved", "primarySpeakerNotPublic",
                                    "readinessBlocked", "awaitingPublication"} : CountedAs(s, class)}

awaitingPublication == {s \in accepted : CountedAs(s, "awaitingPublication")}

\* "Auto-place" says that there is nothing to schedule, or asks for all without a
\* place.
autoPlace == unplaced # {} /\ \E asked \in SetToSeqs(unplaced) : AutoPlace(asked)

(***************************************************************************)
(* The cockpit: what it lists as next actions.                             *)
(***************************************************************************)
Cockpit == UNION {Blockers(s) : s \in accepted}

publicationPending == {s \in accepted : <<"publication_pending", s>> \in Blockers(s)}

(***************************************************************************)
(* The public program in a browser.  It filters once more what the server  *)
(* has filtered; the organizers' preview of an embed has only the browser's *)
(* filter.                                                                 *)
(***************************************************************************)
matchesFixedFilters(s, filter) == filter = {} \/ PlacementOf(s).room \in filter

ProgramSurface(page, filter) ==
    LET fixed == {s \in page.sessions : matchesFixedFilters(s, filter)}
    IN  [sessions |-> fixed,
         speakers |-> {p \in page.speakers : \E s \in fixed : p \in page.speakersOf[s]}]

\* What is left of the sessions a visitor has saved.
loadPersonalSchedule(saved) == saved \intersect getPublicProgram({}).sessions

(***************************************************************************)
(* Properties.                                                             *)
(***************************************************************************)

\* Every placement is drawn, on the grid, and no two over each other; and the dialog
\* offers just the rows that the server would take if the room is free, so that who
\* finds none must first add a room or has no day long enough.
BoardIsTrue ==
    /\ \A row \in placements : AgendaBoard(row).drawn # {} /\ ~AgendaBoard(row).offGrid
    /\ \A a, b \in placements :
          a # b => AgendaBoard(a).drawn \intersect AgendaBoard(b).drawn = {}
    /\ \A s \in accepted :
          /\ \A row \in Candidates(s) \ placements :
                MaySave(row) <=>
                    /\ row \in SessionPlacementDialog(s)
                    /\ RoomFree(row, {other \in placements : other.session # s})
          /\ SessionPlacementDialog(s) = {} =>
                \/ SetupPanel # {} \/ FirstDaySetup
                \/ \A d \in days : length[s] > d.window.closes - d.window.opens
    /\ FirstDaySetup => placements = {} /\ Program = {}

\* Publication is offered whenever it would publish, and only while it would not be
\* refused for a conflict; whatever the page counts as waiting for it can be
\* published; and the counts of the header add up.
PublishIsOffered ==
    /\ MayPublish => AgendaWorkspace
    /\ AgendaWorkspace => NoSpeakerConflict
    /\ awaitingPublication # {} /\ AgendaWorkspace => MayPublish
    /\ Cardinality(placedNotPublic) + Cardinality(AgendaPublic) = Cardinality(accepted \ unplaced)

\* The cockpit's actions lead somewhere: an approval it asks for and nothing else is
\* one the server grants; a publication it asks for is offered and taken, unless some
\* other session is in a conflict; and when it lists nothing, everything accepted is
\* in the public program.
CockpitLeadsOn ==
    /\ \A s \in accepted :
          /\ <<"content_approval_pending", s>> \in Blockers(s) =>
                MayApprove(s) \/ SpeakerBlockers(s) \union DeliverableBlockers(s) # {}
          /\ s \in publicationPending /\ NoSpeakerConflict => AgendaWorkspace /\ MayPublish
    /\ Cockpit = {} => accepted \subseteq Program

\* A browser shows what the server would: the preview of an embed is what the embed
\* will show, filtering a filtered program takes nothing away, and the calendar of a
\* visitor's own schedule is never refused to who has just loaded it.
BrowserAgrees ==
    \A filter \in SUBSET Room :
        LET page == getPublicProgram(filter)
            preview == ProgramSurface(getPublicProgram({}), filter)
        IN  /\ preview.sessions = page.sessions /\ preview.speakers = page.speakers
            /\ ProgramSurface(page, filter) = preview
            /\ public => preview.sessions = getPublicEmbed([enabled |-> TRUE, filter |-> filter])
            /\ ~SESSIONS_CHANGED(loadPersonalSchedule(page.sessions \union unplaced))

\* Pages, screens and handlers agree.
AgendaScreensOffer ==
    /\ PublicPagesAgree
    /\ BoardIsTrue
    /\ PublishIsOffered
    /\ CockpitLeadsOn
    /\ BrowserAgrees

\* The buttons do what the pages said they would: publishing leaves nothing waiting
\* for publication and shows every session the cockpit wanted published, and after
\* "auto-place" only sessions that fit nowhere are without a place.
ButtonsKeepTheirWord ==
    [][/\ Publish => awaitingPublication' = {} /\ publicationPending \subseteq Program'
       /\ autoPlace => \A s \in accepted : Placed(s)' \/ Available(s, placements)' = {}]_programVars

\* The public program changes by what is published and by nothing else: drafts leave
\* it as it is, and the buttons put into it what they were said to.
PublicationDecides == ProgramIgnoresDrafts /\ ButtonsKeepTheirWord
=============================================================================
