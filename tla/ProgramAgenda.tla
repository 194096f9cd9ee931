--------------------------- MODULE ProgramAgenda ---------------------------
(***************************************************************************)
(* The agenda of an event and what the public sees of it, on top of the    *)
(* sessions and speakers of ContentApproval.                               *)
(*                                                                         *)
(* A placement gives an accepted session a day, a room and a time.  Rooms  *)
(* are protected by triggers, speakers are not: an organizer may place two *)
(* sessions of one speaker at one time and gets a diagnostic.  Automatic   *)
(* placement avoids both, publication refuses an agenda with a conflict,   *)
(* and the public program leaves out every session in one.                 *)
(*                                                                         *)
(* Times count in slots of the finest grid.  Tracks, names, colours and    *)
(* capacities decide nothing; the order of the rooms is the organizers' to *)
(* change at any time, so automatic placement takes any free room.         *)
(***************************************************************************)
EXTENDS ContentApproval, Integers, SequencesExt

CONSTANTS
    Day,       \* the day numbers an event may come to have
    Room,      \* the rooms it may come to have
    Window,    \* the operating windows organizers choose: [opens, closes, slot]
    Length     \* the lengths a session may have

AgendaAssumption ==
    /\ IsFiniteSet(Session)
    /\ Day \subseteq Nat
    /\ Window \subseteq [opens : Nat, closes : Nat, slot : Nat \ {0}]
    /\ Length \subseteq Nat \ {0}
    /\ Room # {}

ASSUME AgendaAssumption

VARIABLES
    days,        \* the rows of event_days: at most one per number
    rooms,       \* the rooms that exist
    length,      \* session |-> duration_minutes
    placements,  \* the rows of schedule_placements
    publication, \* session |-> its publication_status
    public       \* the event's status is 'published'

agendaVars == <<days, rooms, length, placements, publication, public>>
programVars == <<vars, agendaVars>>

DayRow == [number : Day, window : Window]
Placement == [session : Session, day : Day, room : Room, starts : Nat, ends : Nat]

AgendaTypeOK ==
    /\ TypeOK
    /\ days \subseteq DayRow
    /\ rooms \subseteq Room
    /\ length \in [Session -> Length]
    /\ placements \subseteq Placement
    /\ publication \in [Session -> {"private", "ready", "published"}]
    /\ public \in BOOLEAN
    /\ \A s \in Session : s \notin accepted => publication[s] = "private"

\* An installation begins with a published event, the console creates drafts.
AgendaInit ==
    /\ Init
    /\ days = {}
    /\ rooms = {}
    /\ length \in [Session -> Length]
    /\ placements = {}
    /\ publication = [s \in Session |-> "private"]
    /\ public \in BOOLEAN

Placed(s) == \E row \in placements : row.session = s

(***************************************************************************)
(* Days, rooms and lengths.  What placements rest on cannot be taken away: *)
(* days and rooms are never deleted, a day with placements keeps its       *)
(* window, a placed session its length.                                    *)
(***************************************************************************)
CreateDay(number, window) ==
    /\ \A d \in days : d.number < number
    /\ \A n \in Day : n < number => \E d \in days : d.number = n
    /\ days' = days \union {[number |-> number, window |-> window]}
    /\ UNCHANGED <<vars, rooms, length, placements, publication, public>>

\* Mutant of EditDay: the window changes under the placements.
EditDayAnyway(d, window) ==
    /\ d \in days
    /\ window # d.window
    /\ days' = (days \ {d}) \union {[number |-> d.number, window |-> window]}
    /\ UNCHANGED <<vars, rooms, length, placements, publication, public>>

EditDay(d, window) ==
    /\ d \in days
    /\ window # d.window
    /\ \A row \in placements : row.day # d.number
    /\ days' = (days \ {d}) \union {[number |-> d.number, window |-> window]}
    /\ UNCHANGED <<vars, rooms, length, placements, publication, public>>

CreateRoom(r) ==
    /\ r \notin rooms
    /\ rooms' = rooms \union {r}
    /\ UNCHANGED <<vars, days, length, placements, publication, public>>

\* An edit of a session's content, or a return to an earlier one.
EditLength(s, n) ==
    /\ s \in accepted
    /\ n # length[s]
    /\ ~Placed(s)
    /\ length' = [length EXCEPT ![s] = n]
    /\ UNCHANGED <<vars, days, rooms, placements, publication, public>>

(***************************************************************************)
(* Placements by hand.                                                     *)
(***************************************************************************)
Overlap(a, b) == a.starts < b.ends /\ b.starts < a.ends

RoomFree(row, others) == \A other \in others : other.room = row.room => ~Overlap(row, other)

Fits(row) ==
    /\ row.ends = row.starts + length[row.session]
    /\ \E d \in days : /\ d.number = row.day
                       /\ d.window.opens <= row.starts
                       /\ row.ends <= d.window.closes
                       /\ (row.starts - d.window.opens) % d.window.slot = 0

Placeable(row, others) ==
    /\ row.session \in accepted
    /\ row.room \in rooms
    /\ Fits(row)
    /\ RoomFree(row, others)

\* The rows a request can name: a day, a room and a start; the end follows.
Candidates(s) ==
    {[session |-> s, day |-> d.number, room |-> r, starts |-> t, ends |-> t + length[s]] :
        d \in days, r \in rooms, t \in UNION {w.opens .. w.closes : w \in Window}}

MayCreate(row) == ~Placed(row.session) /\ Placeable(row, placements)

CreatePlacement(row) ==
    /\ MayCreate(row)
    /\ placements' = placements \union {row}
    /\ UNCHANGED <<vars, days, rooms, length, publication, public>>

MayMove(old, row) ==
    row.session = old.session /\ row # old /\ Placeable(row, placements \ {old})

MovePlacement(old, row) ==
    /\ MayMove(old, row)
    /\ placements' = (placements \ {old}) \union {row}
    /\ UNCHANGED <<vars, days, rooms, length, publication, public>>

DeletePlacement(old) ==
    /\ placements' = placements \ {old}
    /\ publication' = [publication EXCEPT
           ![old.session] = IF @ = "published" THEN "ready" ELSE @]
    /\ UNCHANGED <<vars, days, rooms, length, public>>

(***************************************************************************)
(* Automatic placement: one batch with a statement for each session that   *)
(* was asked for, each seeing the placements of those before it.  It takes *)
(* the first day and start at which the presenters are free and some room  *)
(* is, and leaves the session alone when there is none.                    *)
(***************************************************************************)
SharePresenter(s, t) == PresentersOf(s) \intersect PresentersOf(t) # {}

Clash(a, b) == SharePresenter(a.session, b.session) /\ Overlap(a, b)

\* Mutant of Available: the presenters may be elsewhere.
AvailableRooms(s, rows) == {row \in Candidates(s) : Fits(row) /\ RoomFree(row, rows)}

Available(s, rows) ==
    {row \in Candidates(s) : /\ Fits(row)
                             /\ RoomFree(row, rows)
                             /\ \A other \in rows : ~Clash(row, other)}

Earlier(a, b) == a.day < b.day \/ (a.day = b.day /\ a.starts < b.starts)

First(options) == {row \in options : \A other \in options : ~Earlier(other, row)}

AutoPlaceOne(outcomes, s) ==
    UNION {IF s \notin accepted \/ (\E row \in rows : row.session = s) \/ Available(s, rows) = {}
           THEN {rows}
           ELSE {rows \union {row} : row \in First(Available(s, rows))} : rows \in outcomes}

\* The sessions a request names, sorted by identifiers that mean nothing; none is
\* short for all that have no place.
Orders == UNION {SetToSeqs(asked) : asked \in SUBSET Session}

\* What the batch may have made of the placements after each of its statements.
AfterStatements(asked) ==
    LET after[n \in 0 .. Len(asked)] ==
            IF n = 0 THEN {placements} ELSE AutoPlaceOne(after[n - 1], asked[n])
    IN  after

AutoPlace(asked) ==
    /\ placements' \in AfterStatements(asked)[Len(asked)]
    /\ UNCHANGED <<vars, days, rooms, length, publication, public>>

(***************************************************************************)
(* Publication.                                                            *)
(***************************************************************************)
NoSpeakerConflict == \A a, b \in placements : a # b => ~Clash(a, b)

Publishable(s) == s \in accepted /\ s \in approved /\ Placed(s) /\ Gates(s)

MayPublish == NoSpeakerConflict /\ \E s \in Session : Publishable(s)

Publish ==
    /\ MayPublish
    /\ public' = TRUE
    /\ publication' = [s \in Session |-> IF Publishable(s) THEN "published" ELSE publication[s]]
    /\ UNCHANGED <<vars, days, rooms, length, placements>>

AgendaStep ==
    \/ \E window \in Window :
          \/ \E number \in Day : CreateDay(number, window)
          \/ \E d \in days : EditDay(d, window)
    \/ \E r \in Room : CreateRoom(r)
    \/ \E s \in Session :
          \/ \E n \in Length : EditLength(s, n)
          \/ \E row \in Candidates(s) :
                \/ CreatePlacement(row)
                \/ \E old \in placements : MovePlacement(old, row)
    \/ \E old \in placements : DeletePlacement(old)
    \/ \E asked \in Orders : AutoPlace(asked)
    \/ Publish

AgendaNext == AgendaStep \/ (Next /\ UNCHANGED agendaVars)

AgendaSpec == AgendaInit /\ [][AgendaNext]_programVars

(***************************************************************************)
(* What is shown: the program, and the counts of the two consoles.         *)
(***************************************************************************)
Live(s) == public /\ publication[s] = "published" /\ Publishable(s)

InConflict(s, others) ==
    \E a, b \in placements : a.session = s /\ b.session \in others \ {s} /\ Clash(a, b)

\* Mutant of Program: any placement in the way hides a session.
ProgramOfAll == {s \in Session : Live(s) /\ ~InConflict(s, Session)}

Program == {s \in Session : Live(s) /\ ~InConflict(s, {t \in Session : Live(t)})}

\* publicSessionCount of the agenda, the sessions it counts.
AgendaPublic == {s \in accepted : /\ public
                                  /\ publication[s] = "published"
                                  /\ Placed(s)
                                  /\ s \in approved
                                  /\ Gates(s)}

(***************************************************************************)
(* Properties.                                                             *)
(***************************************************************************)

\* The rows keep their types; no room holds two sessions at once, and each placement lies in the window of
\* its day, on its grid, and lasts as long as the session does, however days,
\* lengths and placements are edited; what counts as published has a place.
AgendaSound ==
    /\ AgendaTypeOK
    /\ \A a, b \in placements : a # b => a.session # b.session
    /\ \A row \in placements : Placeable(row, placements \ {row})
    /\ \A s \in Session : publication[s] = "published" => Placed(s)

\* The days of an event are told apart by their numbers.
OneRowPerDay == \A d, e \in days : d.number = e.number => d = e

\* What is not published cannot change the public program: drafts of sessions, of
\* placements and of days leave it as it is.
ProgramIgnoresDrafts ==
    [][(/\ \A row \in placements \union placements' :
              publication[row.session] = "published" => row \in placements \intersect placements'
        /\ \A s \in Session : Live(s)' = Live(s)) => Program' = Program]_programVars
=============================================================================
