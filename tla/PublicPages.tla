---------------------------- MODULE PublicPages ----------------------------
(***************************************************************************)
(* What the public and the organizers are shown of the agenda: the program *)
(* with its speakers, an embed of a part of it, the calendars, and the     *)
(* agenda page with its conflicts, its counts and the answer of an         *)
(* automatic placement.                                                    *)
(*                                                                         *)
(* The rows are ProgramAgenda's.  Of the filters of an embed (days, tracks, *)
(* formats, rooms), which all work alike, the rooms stand for all; its     *)
(* look, titles, initials and the order of the lists are left out.  The    *)
(* program is read in three statements: a page here is one whose           *)
(* statements saw one state.                                               *)
(***************************************************************************)
EXTENDS ProgramReadiness

PlacementOf(s) == CHOOSE row \in placements : row.session = s

(***************************************************************************)
(* The public program.  A filter without rooms selects every session.      *)
(***************************************************************************)
sessionMatchesFilters(s, filter) == filter = {} \/ PlacementOf(s).room \in filter

PublicPresenters(s) == PresentersOf(s) \intersect published

getPublicProgram(filter) ==
    LET selected == {s \in Program : sessionMatchesFilters(s, filter)}
    IN  [sessions |-> selected,
         speakersOf |-> [s \in selected |-> PublicPresenters(s)],
         speakers |-> UNION {PublicPresenters(s) : s \in selected}]

\* An embed shows its part of the program while it is enabled.
getPublicEmbed(embed) ==
    IF public /\ embed.enabled THEN getPublicProgram(embed.filter).sessions ELSE {}

\* An event of the calendar: it names what the placement says, and the page what
\* the session says.
serializeICalendar(sessions) ==
    {[session |-> s, starts |-> PlacementOf(s).starts, ends |-> PlacementOf(s).ends,
      location |-> PlacementOf(s).room] : s \in sessions}

\* A visitor's own choice of sessions gets a calendar as long as every one of them
\* is still public.
SESSIONS_CHANGED(chosen) == ~(chosen \subseteq getPublicProgram({}).sessions)

\* The pictures are served by a query of their own, which asks for less than the
\* program does.
PublicHeadshot(p) == public /\ p \in published

(***************************************************************************)
(* The agenda page.                                                        *)
(***************************************************************************)
\* Each speaker's placements in the order of their starts, compared with those that
\* start before they end.
AgendaConflicts ==
    {c \in Speaker \X SUBSET Session : \E a, b \in placements :
        /\ a # b /\ c[2] = {a.session, b.session}
        /\ c[1] \in PresentersOf(a.session) \intersect PresentersOf(b.session)
        /\ a.starts <= b.starts /\ b.starts < a.ends}

\* Why an accepted session is not public, as the counts of the page have it.
CountedAs(s, class) ==
    CASE class = "unplaced" -> ~Placed(s)
      [] class = "contentNotApproved" -> Placed(s) /\ s \notin approved
      [] class = "primarySpeakerNotPublic" -> Placed(s) /\ s \in approved /\ ~PrimaryPublic(s)
      [] class = "readinessBlocked" -> /\ Placed(s) /\ s \in approved /\ PrimaryPublic(s)
                                       /\ ~(PresentersReady(s) /\ TasksClosed(s) /\ Readiness(s) = "ready")
      [] class = "awaitingPublication" -> /\ Placed(s) /\ s \in approved /\ PrimaryPublic(s)
                                          /\ PresentersReady(s) /\ TasksClosed(s) /\ Readiness(s) = "ready"
                                          /\ ~(public /\ publication[s] = "published")
      [] class = "public" -> s \in AgendaPublic

Classes == {"unplaced", "contentNotApproved", "primarySpeakerNotPublic", "readinessBlocked",
            "awaitingPublication", "public"}

\* The answer of an automatic placement for a session it was asked to place.
AutoPlaceResult(s) ==
    IF s \notin accepted THEN "SESSION_NOT_ACCEPTED"
    ELSE IF Placed(s) THEN "SESSION_ALREADY_PLACED"
    ELSE IF Placed(s)' THEN "placed" ELSE "NO_AVAILABLE_SLOT"

(***************************************************************************)
(* Properties.                                                             *)
(***************************************************************************)

\* Whoever looks, and wherever, sees the same program: the readiness page, the
\* counts and the program agree; an embed shows a part of the program, every
\* session with its primary speaker, and no speaker whose picture is withheld; no
\* calendar has a speaker in two places, two sessions in a room or an event longer
\* or shorter than its session; each accepted session is counted once, and the
\* agenda page lists a conflict exactly when publication would be refused for one.
PublicPagesAgree ==
    /\ ViewsAgree
    /\ \A filter \in SUBSET Room :
          LET page == getPublicProgram(filter)
          IN  /\ page.sessions \subseteq getPublicProgram({}).sessions
              /\ \A s \in page.sessions : Primary[s] \in page.speakersOf[s]
              /\ \A p \in page.speakers : PublicHeadshot(p)
              /\ ~SESSIONS_CHANGED(page.sessions)
    /\ \A e, f \in serializeICalendar(getPublicEmbed([enabled |-> TRUE, filter |-> {}])) :
          /\ e.ends - e.starts = length[e.session]
          /\ e # f /\ Overlap(e, f) => /\ e.location # f.location
                                       /\ ~SharePresenter(e.session, f.session)
    /\ \A s \in accepted : \E class \in Classes : \A other \in Classes :
          CountedAs(s, other) <=> other = class
    /\ AgendaConflicts = {} <=> NoSpeakerConflict

\* An automatic placement makes no conflict of rooms or speakers, and what it leaves
\* without a place has none: no room, day and time is free for it afterwards.
AutoPlacementSound ==
    [][/\ (\E a, b \in placements' : a # b /\ Clash(a, b) /\ ~({a, b} \subseteq placements)) =>
              \A asked \in Orders : ~AutoPlace(asked)
       /\ \A s \in accepted : ~Placed(s)' /\ Available(s, placements)' # {} =>
              \A asked \in Orders : s \in ToSet(asked) /\ AutoPlace(asked) =>
                  AutoPlaceResult(s) # "NO_AVAILABLE_SLOT"]_programVars
=============================================================================
