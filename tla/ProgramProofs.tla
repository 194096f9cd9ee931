--------------------------- MODULE ProgramProofs ---------------------------
(***************************************************************************)
(* Proofs about the program of an event, from acceptance to the public     *)
(* page, for every set of sessions, speakers, presenters, tasks, requests, *)
(* days and rooms.                                                         *)
(*                                                                         *)
(* ContentApproval: the types, that an approval never outlives the gates   *)
(* it passed, that an agreement is exactly a released task, that the       *)
(* stored status of the deliverables is the view's; and from these what    *)
(* the pages and desks of organizers and speakers say.  ApprovedMeetsGates *)
(* is inductive together with the types.  Each gate of a session depends   *)
(* on rows of one kind, so the argument is split by the kind of row a step *)
(* writes: a speaker's row (SpeakerWrite), a request (RequestWrite),       *)
(* tasks, or only the approval.                                            *)
(*                                                                         *)
(* ProgramAgenda: AgendaSound is inductive; its steps are those of the     *)
(* ground (days, rooms, lengths), those of the placements, publication,    *)
(* and ContentApproval's.  Automatic placement is a recursive function,    *)
(* and what it leaves follows by induction over its statements.            *)
(* The screens need, besides, that a day has one row (OneRowPerDay), and   *)
(* the board a little arithmetic: a placement on the grid starts in a row  *)
(* that exists, and what starts after it ends starts in a later row.       *)
(***************************************************************************)
EXTENDS AgendaScreens, ContentScreens, FiniteSetTheorems, SequenceTheorems, WellFoundedInduction, TLAPS

USE ProgramAssumption

(***************************************************************************)
(* Types.                                                                  *)
(***************************************************************************)

\* Taking or adding one speaker leaves a set of speakers.
LEMMA WithType ==
    ASSUME NEW set \in SUBSET Speaker, NEW p \in Speaker, NEW in
    PROVE  With(set, p, in) \in SUBSET Speaker
BY DEF With

LEMMA TypeInit == Init => TypeOK
BY DEF Init, TypeOK, TaskState, RequestRow, Outcome

LEMMA TypeSpeaker ==
    ASSUME TypeOK, NEW p \in Speaker, SpeakerStep(p)
    PROVE  TypeOK'
<1> USE DEF TypeOK
<1> PICK yes \in BOOLEAN :
            \/ OwnProfile(p, yes) \/ Headshot(p)
            \/ \E shown \in BOOLEAN : OrganizerProfile(p, yes, shown) \/ RestoreProfile(p, yes, shown)
            \/ Visibility(p, yes)
            \/ Workflow(p, yes)
            \/ ProposalBio(p, yes)
  BY DEF SpeakerStep
<1>1. CASE OwnProfile(p, yes) \/ Headshot(p)
  BY <1>1, WithType DEF OwnProfile, Headshot
<1>2. CASE \E shown \in BOOLEAN : OrganizerProfile(p, yes, shown) \/ RestoreProfile(p, yes, shown)
  BY <1>2, WithType DEF OrganizerProfile, RestoreProfile
<1>3. CASE Visibility(p, yes)
  BY <1>3, WithType DEF Visibility
<1>4. CASE Workflow(p, yes)
  BY <1>4, WithType DEF Workflow
<1>5. CASE ProposalBio(p, yes)
  BY <1>5 DEF ProposalBio
<1> QED BY <1>1, <1>2, <1>3, <1>4, <1>5

LEMMA TypeTask ==
    ASSUME TypeOK, NEW t \in Task, NEW state \in {"open", "complete", "waived"}, SetTask(t, state)
    PROVE  TypeOK'
<1>1. t[2] \in Speaker
  BY DEF Task
<1>2. signed' \in SUBSET Speaker
  BY <1>1, WithType DEF TypeOK, SetTask
<1>3. task' \in [Task -> TaskState]
  BY DEF TypeOK, SetTask, TaskState
<1>4. approved' \subseteq approved
  BY DEF SetTask
<1> QED BY <1>2, <1>3, <1>4 DEF TypeOK, SetTask

LEMMA TypeRequest ==
    ASSUME TypeOK, NEW q \in Request, RequestStep(q)
    PROVE  TypeOK'
<1>1. SessionOf[q] \in Session
  OBVIOUS
<1>2. ASSUME NEW row \in RequestRow, request' = [request EXCEPT ![q] = row]
      PROVE  request' \in [Request -> RequestRow]
  BY <1>2 DEF TypeOK
<1>3. request[q] \in RequestRow
  BY DEF TypeOK
<1>4. request' \in [Request -> RequestRow]
  <2>1. ASSUME NEW required \in BOOLEAN, CreateRequest(q, required)
        PROVE  request' \in [Request -> RequestRow]
    BY <1>2, <2>1 DEF CreateRequest, RequestRow
  <2>2. ASSUME NEW required \in BOOLEAN, NEW state \in {"active", "inactive"},
               UpdateRequest(q, state, required)
        PROVE  request' \in [Request -> RequestRow]
    BY <1>2, <1>3, <2>2 DEF UpdateRequest, RequestRow
  <2>3. ASSUME Upload(q)
        PROVE  request' \in [Request -> RequestRow]
    BY <1>2, <1>3, <2>3 DEF Upload, RequestRow
  <2>4. ASSUME NEW outcome \in Outcome, ReviewLatest(q, outcome)
        PROVE  request' \in [Request -> RequestRow]
    BY <1>2, <1>3, <2>4 DEF ReviewLatest, RequestRow
  <2>5. ASSUME NEW outcome \in Outcome, ReviewOlder(q, outcome)
        PROVE  request' \in [Request -> RequestRow]
    BY <2>5 DEF ReviewOlder, TypeOK
  <2> QED BY <2>1, <2>2, <2>3, <2>4, <2>5 DEF RequestStep
<1>5. \E demotes \in BOOLEAN : Refresh(SessionOf[q], demotes)
  BY DEF RequestStep, CreateRequest, UpdateRequest, Upload, ReviewLatest, ReviewOlder
<1>6. PICK demotes \in BOOLEAN : Refresh(SessionOf[q], demotes)
  BY <1>5
<1>7. Readiness(SessionOf[q])' \in {"missing", "submitted", "ready"}
  BY DEF Readiness
<1>8. deliverables' \in [Session -> {"missing", "submitted", "ready"}]
  BY <1>1, <1>6, <1>7 DEF Refresh, TypeOK
<1>9. approved' \subseteq approved
  BY <1>6 DEF Refresh
<1> QED BY <1>4, <1>6, <1>8, <1>9 DEF Refresh, TypeOK, speakerVars

LEMMA TypeNext == TypeOK /\ [Next]_vars => TypeOK'
<1> SUFFICES ASSUME TypeOK, [Next]_vars PROVE TypeOK'
  OBVIOUS
<1>1. ASSUME NEW s \in Session, Accept(s) PROVE TypeOK'
  BY <1>1 DEF TypeOK, Accept, PresentersOf, TaskState
<1>2. ASSUME NEW s \in Session, Approve(s) \/ Unapprove(s) PROVE TypeOK'
  BY <1>2 DEF TypeOK, Approve, MayApprove, Unapprove, speakerVars
<1>3. ASSUME NEW t \in Task, SpeakerTask(t) \/ OrganizerTask(t) PROVE TypeOK'
  BY <1>3, TypeTask DEF SpeakerTask, OrganizerTask
<1>4. ASSUME NEW targets \in SUBSET Addressed, NEW key \in TaskKey, AddTasks(targets, key)
      PROVE  TypeOK'
  BY <1>4 DEF TypeOK, AddTasks, TaskState, speakerVars
<1>5. CASE UNCHANGED vars
  BY <1>5 DEF TypeOK, vars, speakerVars
<1> QED BY <1>1, <1>2, <1>3, <1>4, <1>5, TypeSpeaker, TypeRequest DEF Next

\* Every variable keeps its type, and only accepted sessions are approved.
THEOREM TypeCorrect == Spec => []TypeOK
BY TypeInit, TypeNext, PTL DEF Spec

(***************************************************************************)
(* The gates of an approved session.                                       *)
(***************************************************************************)

\* Whoever loses nothing, or holds nothing back, still lets every session through
\* that stays approved.
LEMMA SpeakerWrite ==
    ASSUME ApprovedMeetsGates, NEW p \in Speaker,
           confirmed' \ {p} = confirmed \ {p}, ready' \ {p} = ready \ {p},
           signed' \ {p} = signed \ {p}, published' \ {p} = published \ {p},
           UNCHANGED request,
           NEW s \in Session, s \in approved, s \notin HeldBack(p),
           TasksClosed(s)'
    PROVE  Gates(s)'
<1>1. Gates(s)
  BY DEF ApprovedMeetsGates
<1>2. DeliverablesApproved(s)'
  BY <1>1 DEF Gates, DeliverablesApproved, Needed
<1>3. ASSUME NEW r \in PresentersOf(s)
      PROVE  r \in confirmed' \intersect ready' \intersect signed'
  <2>1. r \in confirmed \intersect ready \intersect signed
    BY <1>1, <1>3 DEF Gates, PresentersReady
  <2>2. CASE r # p
    BY <2>1, <2>2
  <2>3. CASE r = p
    <3>1. s \in SessionsOf(p)
      BY <1>3, <2>3 DEF PresentersOf, SessionsOf
    <3>2. CASE Lost(p)
      BY <2>3, <3>1, <3>2 DEF HeldBack
    <3>3. CASE ~Lost(p)
      BY <2>1, <2>3, <3>3 DEF Lost
    <3> QED BY <3>2, <3>3
  <2> QED BY <2>2, <2>3
<1>4. PresentersReady(s)'
  BY <1>3 DEF PresentersReady, PresentersOf
<1>5. PrimaryPublic(s)'
  <2>1. Primary[s] \in published
    BY <1>1 DEF Gates, PrimaryPublic
  <2>2. CASE Primary[s] # p
    BY <2>1, <2>2 DEF PrimaryPublic
  <2>3. CASE Primary[s] = p
    <3>1. s \in SessionsOf(p)
      BY <2>3 DEF SessionsOf
    <3>2. CASE Lost(p)
      BY <2>3, <3>1, <3>2 DEF HeldBack, PrimaryPublic
    <3>3. CASE ~Lost(p)
      BY <2>1, <2>3, <3>3 DEF Lost, PrimaryPublic
    <3> QED BY <3>2, <3>3
  <2> QED BY <2>2, <2>3
<1> QED BY <1>2, <1>4, <1>5 DEF Gates

\* A step that leaves the speakers and the tasks alone keeps all gates but the one
\* of the deliverables.
LEMMA RequestWrite ==
    ASSUME ApprovedMeetsGates, UNCHANGED <<speakerVars, task>>,
           NEW s \in approved, DeliverablesApproved(s)'
    PROVE  Gates(s)'
BY DEF ApprovedMeetsGates, Gates, TasksClosed, PresentersReady, PresentersOf, PrimaryPublic, speakerVars

LEMMA GatesInit == Init => ApprovedMeetsGates
BY DEF Init, ApprovedMeetsGates

\* No write of a speaker's own row.
LEMMA GatesSpeaker ==
    ASSUME TypeOK, ApprovedMeetsGates, NEW p \in Speaker, SpeakerStep(p)
    PROVE  ApprovedMeetsGates'
<1> SUFFICES ASSUME NEW s \in approved' PROVE Gates(s)'
  BY DEF ApprovedMeetsGates
<1> PICK yes \in BOOLEAN :
            \/ OwnProfile(p, yes) \/ Headshot(p)
            \/ \E shown \in BOOLEAN : OrganizerProfile(p, yes, shown) \/ RestoreProfile(p, yes, shown)
            \/ Visibility(p, yes)
            \/ Workflow(p, yes)
            \/ ProposalBio(p, yes)
  BY DEF SpeakerStep
<1>1. CASE ProposalBio(p, yes)
  BY <1>1 DEF ProposalBio, ApprovedMeetsGates, Gates, DeliverablesApproved, Needed, TasksClosed,
              PresentersReady, PresentersOf, PrimaryPublic
<1>2. CASE ~ProposalBio(p, yes)
  <2>1. approved' = approved \ HeldBack(p) /\ UNCHANGED <<task, request>>
    BY <1>2 DEF OwnProfile, Headshot, OrganizerProfile, RestoreProfile, Visibility, Workflow
  <2>2. /\ confirmed' \ {p} = confirmed \ {p} /\ ready' \ {p} = ready \ {p}
        /\ signed' \ {p} = signed \ {p} /\ published' \ {p} = published \ {p}
    BY <1>2 DEF OwnProfile, Headshot, OrganizerProfile, RestoreProfile, Visibility, Workflow, With
  <2>3. s \in Session /\ s \in approved /\ s \notin HeldBack(p)
    BY <2>1 DEF TypeOK
  <2>4. TasksClosed(s)'
    BY <2>1, <2>3 DEF ApprovedMeetsGates, Gates, TasksClosed
  <2> QED BY <2>1, <2>2, <2>3, <2>4, SpeakerWrite
<1> QED BY <1>1, <1>2

\* A task that is opened takes the approval of its own session, an agreement that
\* is lost the approval of every session of the speaker.
LEMMA GatesTask ==
    ASSUME TypeOK, ApprovedMeetsGates,
           NEW t \in Task, NEW state \in {"open", "complete", "waived"}, SetTask(t, state)
    PROVE  ApprovedMeetsGates'
<1> SUFFICES ASSUME NEW s \in approved' PROVE Gates(s)'
  BY DEF ApprovedMeetsGates
<1> DEFINE p == t[2]
<1>1. p \in Speaker
  BY DEF Task
<1>2. s \in Session /\ s \in approved /\ s \notin HeldBack(p) /\ ~(s = t[1] /\ state = "open")
  BY DEF SetTask, TypeOK
<1>3. TasksClosed(s)'
  <2>1. TasksClosed(s)
    BY <1>2 DEF ApprovedMeetsGates, Gates
  <2> QED BY <1>2, <2>1 DEF TasksClosed, SetTask, TypeOK
<1>4. /\ confirmed' \ {p} = confirmed \ {p} /\ ready' \ {p} = ready \ {p}
      /\ signed' \ {p} = signed \ {p} /\ published' \ {p} = published \ {p}
      /\ UNCHANGED request
  BY DEF SetTask, With
<1> QED BY <1>1, <1>2, <1>3, <1>4, SpeakerWrite

LEMMA Refreshed ==
    ASSUME NEW s, NEW demotes \in BOOLEAN, Refresh(s, demotes)
    PROVE  /\ demotes => s \notin approved'
           /\ approved' \subseteq approved
           /\ UNCHANGED <<accepted, speakerVars, task>>
BY DEF Refresh

\* A request, version or review that can unsettle the deliverables of an approved
\* session takes its approval.
LEMMA GatesRequest ==
    ASSUME TypeOK, ApprovedMeetsGates, NEW q \in Request, RequestStep(q)
    PROVE  ApprovedMeetsGates'
<1> SUFFICES ASSUME NEW s \in approved' PROVE Gates(s)'
  BY DEF ApprovedMeetsGates
<1>1. PICK demotes \in BOOLEAN : Refresh(SessionOf[q], demotes)
  BY DEF RequestStep, CreateRequest, UpdateRequest, Upload, ReviewLatest, ReviewOlder
<1>2. s \in approved /\ UNCHANGED <<speakerVars, task>>
  BY <1>1 DEF Refresh
<1>3. DeliverablesApproved(s)
  BY <1>2 DEF ApprovedMeetsGates, Gates
<1>4. \A r \in Request : r # q => request'[r] = request[r]
  BY DEF RequestStep, CreateRequest, UpdateRequest, Upload, ReviewLatest, ReviewOlder, TypeOK
<1>5. ASSUME SessionOf[q] = s, q \in Needed(s)'
      PROVE  request'[q].latest = "approved"
  <2>1. ASSUME NEW required \in BOOLEAN, CreateRequest(q, required)
        PROVE  FALSE
    <3>1. request'[q].required = required
      BY <2>1 DEF CreateRequest, TypeOK
    <3>2. s \notin approved' \/ ~required
      BY <1>5, <2>1, Refreshed DEF CreateRequest
    <3> QED BY <1>5, <3>1, <3>2 DEF Needed
  <2>2. ASSUME NEW required \in BOOLEAN, NEW new \in {"active", "inactive"},
               UpdateRequest(q, new, required)
        PROVE  FALSE
    <3>1. request'[q].required = required /\ request'[q].state = new
      BY <2>2 DEF UpdateRequest, TypeOK
    <3>4. Refresh(s, new = "active" /\ required)
      BY <1>5, <2>2 DEF UpdateRequest
    <3>2. s \notin approved' \/ ~(new = "active" /\ required)
      BY <3>4, Refreshed
    <3> QED BY <1>5, <3>1, <3>2 DEF Needed
  <2>3. ASSUME Upload(q)
        PROVE  FALSE
    BY <1>5, <2>3, Refreshed DEF Upload
  <2>4. ASSUME NEW outcome \in Outcome, ReviewLatest(q, outcome)
        PROVE  request'[q].latest = "approved"
    <3>1. request'[q].latest = outcome
      BY <2>4 DEF ReviewLatest, TypeOK
    <3>2. Refresh(s, outcome = "changes_requested")
      BY <1>5, <2>4 DEF ReviewLatest
    <3>3. outcome # "changes_requested"
      BY <3>2, Refreshed
    <3> QED BY <3>1, <3>3 DEF Outcome
  <2>5. ASSUME NEW outcome \in Outcome, ReviewOlder(q, outcome)
        PROVE  request'[q].latest = "approved"
    BY <1>3, <1>5, <2>5 DEF ReviewOlder, DeliverablesApproved, Needed
  <2> QED BY <2>1, <2>2, <2>3, <2>4, <2>5 DEF RequestStep
<1>6. DeliverablesApproved(s)'
  BY <1>3, <1>4, <1>5 DEF DeliverablesApproved, Needed
<1> QED BY <1>2, <1>6, RequestWrite

LEMMA GatesNext == TypeOK /\ ApprovedMeetsGates /\ [Next]_vars => ApprovedMeetsGates'
<1> SUFFICES ASSUME TypeOK, ApprovedMeetsGates, [Next]_vars PROVE ApprovedMeetsGates'
  OBVIOUS
<1> USE DEF ApprovedMeetsGates
<1>1. ASSUME NEW s \in Session, Accept(s) PROVE ApprovedMeetsGates'
  <2> SUFFICES ASSUME NEW r \in approved' PROVE Gates(r)'
    OBVIOUS
  <2>1. r \in approved /\ r # s /\ Gates(r)
    BY <1>1 DEF Accept, TypeOK
  <2>2. TasksClosed(r)'
    BY <1>1, <2>1 DEF Accept, Gates, TasksClosed
  <2>3. DeliverablesApproved(r)' /\ PresentersReady(r)' /\ PrimaryPublic(r)'
    BY <1>1, <2>1 DEF Accept, Gates, DeliverablesApproved, Needed, PresentersReady, PresentersOf, PrimaryPublic
  <2> QED BY <2>2, <2>3 DEF Gates
<1>2. ASSUME NEW s \in Session, Approve(s) \/ Unapprove(s) PROVE ApprovedMeetsGates'
  <2> SUFFICES ASSUME NEW r \in approved' PROVE Gates(r)'
    OBVIOUS
  <2>1. Gates(r)
    BY <1>2 DEF Approve, MayApprove, Unapprove
  <2> QED BY <1>2, <2>1 DEF Approve, MayApprove, Unapprove, speakerVars, Gates, DeliverablesApproved, Needed, TasksClosed,
               PresentersReady, PresentersOf, PrimaryPublic
<1>3. ASSUME NEW t \in Task, SpeakerTask(t) \/ OrganizerTask(t) PROVE ApprovedMeetsGates'
  BY <1>3, GatesTask DEF SpeakerTask, OrganizerTask
<1>4. ASSUME NEW targets \in SUBSET Addressed, NEW key \in TaskKey, AddTasks(targets, key)
      PROVE  ApprovedMeetsGates'
  <2> SUFFICES ASSUME NEW r \in approved' PROVE Gates(r)'
    OBVIOUS
  <2>1. r \in approved /\ Gates(r) /\ \A x \in targets : x[1] # r
    BY <1>4 DEF AddTasks
  <2>2. TasksClosed(r)'
    BY <1>4, <2>1 DEF AddTasks, Gates, TasksClosed
  <2>3. DeliverablesApproved(r)' /\ PresentersReady(r)' /\ PrimaryPublic(r)'
    BY <1>4, <2>1 DEF AddTasks, speakerVars, Gates, DeliverablesApproved, Needed, PresentersReady, PresentersOf, PrimaryPublic
  <2> QED BY <2>2, <2>3 DEF Gates
<1>5. CASE UNCHANGED vars
  BY <1>5 DEF vars, speakerVars, Gates, DeliverablesApproved, Needed, TasksClosed,
              PresentersReady, PresentersOf, PrimaryPublic
<1> QED BY <1>1, <1>2, <1>3, <1>4, <1>5, GatesSpeaker, GatesRequest DEF Next

\* An approved session meets, at every moment, the gates its approval passed.
THEOREM GatesHold == Spec => []ApprovedMeetsGates
<1>1. Init => TypeOK /\ ApprovedMeetsGates
  BY TypeInit, GatesInit
<1>2. TypeOK /\ ApprovedMeetsGates /\ [Next]_vars => (TypeOK /\ ApprovedMeetsGates)'
  BY TypeNext, GatesNext
<1> QED BY <1>1, <1>2, PTL DEF Spec

(***************************************************************************)
(* Agreements.  An acceptance opens the default tasks of its session, and  *)
(* would overwrite a released one; that there is none needs the fact that  *)
(* only accepted sessions have tasks.                                      *)
(***************************************************************************)
TasksOfAccepted == \A t \in Task : t[1] \notin accepted => task[t] = "none"

AgreementInv == AgreementFollowsRelease /\ TasksOfAccepted

LEMMA AgreementInit == Init => AgreementInv
BY DEF Init, AgreementInv, AgreementFollowsRelease, TasksOfAccepted, Released

\* A step that opens tasks where there were none releases and takes back nothing.
LEMMA OpeningReleasesNothing ==
    ASSUME AgreementFollowsRelease, UNCHANGED signed,
           \A t \in Task : \/ task'[t] = task[t]
                           \/ task[t] = "none" /\ task'[t] = "open"
    PROVE  AgreementFollowsRelease'
<1>1. \A p \in Speaker : Released(p)' <=> Released(p)
  BY DEF Released
<1> QED BY <1>1 DEF AgreementFollowsRelease

LEMMA AgreementTask ==
    ASSUME TypeOK, AgreementInv,
           NEW t \in Task, NEW state \in {"open", "complete", "waived"}, SetTask(t, state)
    PROVE  AgreementInv'
<1>1. TasksOfAccepted'
  BY DEF SetTask, MaySet, TypeOK, AgreementInv, TasksOfAccepted
<1>2. \A u \in Task : u # t => task'[u] = task[u]
  BY DEF SetTask, TypeOK
<1>3. \A p \in Speaker : p # t[2] => (p \in signed' <=> p \in signed)
  BY DEF SetTask, With
<1>4. \A p \in Speaker : p # t[2] => (Released(p)' <=> Released(p))
  BY <1>2 DEF Released
<1>5. t[2] \in signed' <=> Released(t[2])'
  <2>1. CASE t[3] = Release
    BY <2>1 DEF SetTask, With
  <2>2. CASE t[3] # Release
    <3>1. Released(t[2])' <=> Released(t[2])
      BY <1>2, <2>2 DEF Released
    <3> QED BY <2>2, <3>1 DEF SetTask, AgreementInv, AgreementFollowsRelease, Task
  <2> QED BY <2>1, <2>2
<1>6. AgreementFollowsRelease'
  BY <1>3, <1>4, <1>5 DEF AgreementInv, AgreementFollowsRelease
<1> QED BY <1>1, <1>6 DEF AgreementInv

LEMMA AgreementNext == TypeOK /\ AgreementInv /\ [Next]_vars => AgreementInv'
<1> SUFFICES ASSUME TypeOK, AgreementInv, [Next]_vars PROVE AgreementInv'
  OBVIOUS
<1> USE DEF AgreementInv
<1>1. ASSUME NEW s \in Session, Accept(s) PROVE AgreementInv'
  <2>1. TasksOfAccepted'
    BY <1>1 DEF Accept, TasksOfAccepted
  <2>2. \A t \in Task : \/ task'[t] = task[t]
                        \/ task[t] = "none" /\ task'[t] = "open"
    BY <1>1 DEF Accept, TasksOfAccepted
  <2>3. UNCHANGED signed
    BY <1>1 DEF Accept
  <2> QED BY <2>1, <2>2, <2>3, OpeningReleasesNothing
<1>2. ASSUME NEW targets \in SUBSET Addressed, NEW key \in TaskKey, AddTasks(targets, key)
      PROVE  AgreementInv'
  <2>1. \A t \in Task : t = <<t[1], t[2], t[3]>>
    BY DEF Task
  <2>2. \A t \in Task : \/ task'[t] = task[t]
                        \/ t[1] \in accepted /\ task[t] = "none" /\ task'[t] = "open"
    <3> SUFFICES ASSUME NEW t \in Task
                 PROVE  \/ task'[t] = task[t]
                        \/ t[1] \in accepted /\ task[t] = "none" /\ task'[t] = "open"
      OBVIOUS
    <3>1. CASE <<t[1], t[2]>> \in targets /\ t[3] = key
      <4>1. t[1] \in accepted /\ task[<<t[1], t[2], key>>] = "none"
        BY <1>2, <3>1 DEF AddTasks
      <4>2. t = <<t[1], t[2], key>>
        BY <2>1, <3>1
      <4>3. task'[t] = "open"
        BY <1>2, <3>1 DEF AddTasks
      <4> QED BY <4>1, <4>2, <4>3
    <3>2. CASE ~(<<t[1], t[2]>> \in targets /\ t[3] = key)
      BY <1>2, <3>2 DEF AddTasks
    <3> QED BY <3>1, <3>2
  <2>3. UNCHANGED <<accepted, signed>>
    BY <1>2 DEF AddTasks, speakerVars
  <2>4. TasksOfAccepted'
    BY <2>2, <2>3 DEF TasksOfAccepted
  <2> QED BY <2>2, <2>3, <2>4, OpeningReleasesNothing
<1>3. ASSUME NEW t \in Task, SpeakerTask(t) \/ OrganizerTask(t) PROVE AgreementInv'
  BY <1>3, AgreementTask DEF SpeakerTask, OrganizerTask
<1>4. CASE UNCHANGED <<accepted, signed, task>>
  BY <1>4 DEF AgreementFollowsRelease, TasksOfAccepted, Released
<1>5. ASSUME NEW s \in Session, Approve(s) \/ Unapprove(s)
      PROVE  UNCHANGED <<accepted, signed, task>>
  BY <1>5 DEF Approve, Unapprove, speakerVars
<1>6. ASSUME NEW p \in Speaker, SpeakerStep(p)
      PROVE  UNCHANGED <<accepted, signed, task>>
  BY <1>6 DEF SpeakerStep, OwnProfile, Headshot, OrganizerProfile, RestoreProfile, Visibility,
              Workflow, ProposalBio
<1>7. ASSUME NEW q \in Request, RequestStep(q)
      PROVE  UNCHANGED <<accepted, signed, task>>
  <2>1. PICK demotes \in BOOLEAN : Refresh(SessionOf[q], demotes)
    BY <1>7 DEF RequestStep, CreateRequest, UpdateRequest, Upload, ReviewLatest, ReviewOlder
  <2> QED BY <2>1 DEF Refresh, speakerVars
<1>8. CASE UNCHANGED vars
  BY <1>8 DEF vars, speakerVars, AgreementFollowsRelease, TasksOfAccepted, Released
<1> QED BY <1>1, <1>2, <1>3, <1>4, <1>5, <1>6, <1>7, <1>8 DEF Next

(***************************************************************************)
(* Deliverables.  The view of a session reads its own requests and nothing *)
(* else, and every write of a request, version or review ends in Refresh.  *)
(***************************************************************************)
LEMMA ReadinessFrame ==
    ASSUME NEW s \in Session,
           \A q \in Request : SessionOf[q] = s => request'[q] = request[q]
    PROVE  Readiness(s)' = Readiness(s)
<1>1. \A q \in Request : q \in Needed(s)' <=> q \in Needed(s)
  BY DEF Needed
<1>2. Needed(s)' = Needed(s)
  BY <1>1 DEF Needed
<1>3. \A q \in Needed(s) : request'[q] = request[q]
  BY DEF Needed
<1>4. (\E q \in Needed(s) : request[q].latest = "none")' <=>
          \E q \in Needed(s) : request[q].latest = "none"
  BY <1>2, <1>3
<1>5. (\E q \in Needed(s) : request[q].latest # "approved")' <=>
          \E q \in Needed(s) : request[q].latest # "approved"
  BY <1>2, <1>3
<1> QED BY <1>4, <1>5 DEF Readiness

LEMMA DeliverablesRequest ==
    ASSUME TypeOK, DeliverablesCurrent, NEW q \in Request, RequestStep(q)
    PROVE  DeliverablesCurrent'
<1> SUFFICES ASSUME NEW r \in Request, request'[r].state # "absent"
             PROVE  deliverables'[SessionOf[r]] = Readiness(SessionOf[r])'
  BY DEF DeliverablesCurrent
<1>1. PICK demotes \in BOOLEAN : Refresh(SessionOf[q], demotes)
  BY DEF RequestStep, CreateRequest, UpdateRequest, Upload, ReviewLatest, ReviewOlder
<1>2. \A x \in Request : x # q => request'[x] = request[x]
  BY DEF RequestStep, CreateRequest, UpdateRequest, Upload, ReviewLatest, ReviewOlder, TypeOK
<1>3. CASE SessionOf[r] = SessionOf[q]
  BY <1>1, <1>3 DEF Refresh, TypeOK
<1>4. CASE SessionOf[r] # SessionOf[q]
  <2>1. deliverables'[SessionOf[r]] = deliverables[SessionOf[r]]
    BY <1>1, <1>4 DEF Refresh, TypeOK
  <2>2. Readiness(SessionOf[r])' = Readiness(SessionOf[r])
    BY <1>2, <1>4, ReadinessFrame
  <2>3. request[r].state # "absent"
    BY <1>2, <1>4
  <2> QED BY <2>1, <2>2, <2>3 DEF DeliverablesCurrent
<1> QED BY <1>3, <1>4

LEMMA DeliverablesNext == TypeOK /\ DeliverablesCurrent /\ [Next]_vars => DeliverablesCurrent'
<1> SUFFICES ASSUME TypeOK, DeliverablesCurrent, [Next]_vars PROVE DeliverablesCurrent'
  OBVIOUS
<1>1. CASE UNCHANGED <<deliverables, request>>
  BY <1>1 DEF DeliverablesCurrent, Readiness, Needed
<1>2. ASSUME NEW s \in Session, Accept(s) \/ Approve(s) \/ Unapprove(s)
      PROVE  UNCHANGED <<deliverables, request>>
  BY <1>2 DEF Accept, Approve, Unapprove
<1>3. ASSUME NEW p \in Speaker, SpeakerStep(p)
      PROVE  UNCHANGED <<deliverables, request>>
  BY <1>3 DEF SpeakerStep, OwnProfile, Headshot, OrganizerProfile, RestoreProfile, Visibility,
              Workflow, ProposalBio
<1>4. ASSUME NEW t \in Task, SpeakerTask(t) \/ OrganizerTask(t)
      PROVE  UNCHANGED <<deliverables, request>>
  <2>1. PICK state \in {"open", "complete", "waived"} : SetTask(t, state)
    BY <1>4 DEF SpeakerTask, OrganizerTask
  <2> QED BY <2>1 DEF SetTask
<1>5. ASSUME NEW targets \in SUBSET Addressed, NEW key \in TaskKey, AddTasks(targets, key)
      PROVE  UNCHANGED <<deliverables, request>>
  BY <1>5 DEF AddTasks
<1>6. CASE UNCHANGED vars
  BY <1>6 DEF vars, DeliverablesCurrent, Readiness, Needed
<1> QED BY <1>1, <1>2, <1>3, <1>4, <1>5, <1>6, DeliverablesRequest DEF Next

(***************************************************************************)
(* The history the screens rely on: an acceptance opens the default tasks, *)
(* no step takes a task away again, and whatever was requested of a        *)
(* session was requested after its acceptance.                             *)
(***************************************************************************)
TasksStay == \A t \in Task : t[1] \in accepted /\ t[3] \in DefaultTask => task[t] # "none"

LEMMA TasksStayNext == TypeOK /\ TasksStay /\ [Next]_vars => TasksStay'
<1> SUFFICES ASSUME TypeOK, TasksStay, [Next]_vars PROVE TasksStay'
  OBVIOUS
<1>1. ASSUME NEW s \in Session, Accept(s) PROVE TasksStay'
  BY <1>1 DEF Accept, TasksStay
<1>2. ASSUME NEW targets \in SUBSET Addressed, NEW key \in TaskKey, AddTasks(targets, key)
      PROVE  TasksStay'
  BY <1>2 DEF AddTasks, TasksStay
<1>3. ASSUME NEW t \in Task, NEW state \in {"open", "complete", "waived"}, SetTask(t, state)
      PROVE  TasksStay'
  BY <1>3 DEF SetTask, TasksStay, TypeOK
<1>4. ASSUME NEW t \in Task, SpeakerTask(t) \/ OrganizerTask(t) PROVE TasksStay'
  BY <1>3, <1>4 DEF SpeakerTask, OrganizerTask
<1>5. CASE UNCHANGED <<accepted, task>>
  BY <1>5 DEF TasksStay
<1>6. ASSUME NEW s \in Session, Approve(s) \/ Unapprove(s)
      PROVE  UNCHANGED <<accepted, task>>
  BY <1>6 DEF Approve, Unapprove
<1>7. ASSUME NEW p \in Speaker, SpeakerStep(p)
      PROVE  UNCHANGED <<accepted, task>>
  BY <1>7 DEF SpeakerStep, OwnProfile, Headshot, OrganizerProfile, RestoreProfile, Visibility,
              Workflow, ProposalBio
<1>8. ASSUME NEW q \in Request, RequestStep(q)
      PROVE  UNCHANGED <<accepted, task>>
  <2>1. PICK demotes \in BOOLEAN : Refresh(SessionOf[q], demotes)
    BY <1>8 DEF RequestStep, CreateRequest, UpdateRequest, Upload, ReviewLatest, ReviewOlder
  <2> QED BY <2>1 DEF Refresh
<1>9. CASE UNCHANGED vars
  BY <1>9 DEF vars, TasksStay
<1> QED BY <1>1, <1>2, <1>4, <1>5, <1>6, <1>7, <1>8, <1>9 DEF Next

RequestsBelong ==
    \A q \in Request :
        /\ request[q].state # "absent" => SessionOf[q] \in accepted
        /\ request[q].latest # "none" => request[q].state # "absent"

LEMMA RequestsBelongStep ==
    ASSUME TypeOK, RequestsBelong, NEW q \in Request, RequestStep(q)
    PROVE  RequestsBelong'
<1>1. UNCHANGED accepted
  <2>1. PICK demotes \in BOOLEAN : Refresh(SessionOf[q], demotes)
    BY DEF RequestStep, CreateRequest, UpdateRequest, Upload, ReviewLatest, ReviewOlder
  <2> QED BY <2>1 DEF Refresh
<1>2. \A r \in Request : r # q => request'[r] = request[r]
  BY DEF RequestStep, CreateRequest, UpdateRequest, Upload, ReviewLatest, ReviewOlder, TypeOK
<1>3. ASSUME NEW required \in BOOLEAN, CreateRequest(q, required) PROVE RequestsBelong'
  BY <1>1, <1>2, <1>3 DEF CreateRequest, RequestsBelong, TypeOK
<1>4. ASSUME NEW required \in BOOLEAN, NEW state \in {"active", "inactive"},
             UpdateRequest(q, state, required)
      PROVE  RequestsBelong'
  BY <1>1, <1>2, <1>4 DEF UpdateRequest, RequestsBelong, TypeOK
<1>5. CASE Upload(q)
  BY <1>1, <1>2, <1>5 DEF Upload, MayUpload, RequestsBelong, TypeOK
<1>6. ASSUME NEW outcome \in Outcome, ReviewLatest(q, outcome) PROVE RequestsBelong'
  BY <1>1, <1>2, <1>6 DEF ReviewLatest, MayReview, RequestsBelong, TypeOK
<1>7. ASSUME NEW outcome \in Outcome, ReviewOlder(q, outcome) PROVE RequestsBelong'
  BY <1>1, <1>7 DEF ReviewOlder, RequestsBelong
<1> QED BY <1>3, <1>4, <1>5, <1>6, <1>7 DEF RequestStep

LEMMA RequestsBelongNext == TypeOK /\ RequestsBelong /\ [Next]_vars => RequestsBelong'
<1> SUFFICES ASSUME TypeOK, RequestsBelong, [Next]_vars PROVE RequestsBelong'
  OBVIOUS
<1>1. CASE UNCHANGED request /\ accepted \subseteq accepted'
  BY <1>1 DEF RequestsBelong
<1>2. ASSUME NEW s \in Session, Accept(s) \/ Approve(s) \/ Unapprove(s)
      PROVE  UNCHANGED request /\ accepted \subseteq accepted'
  BY <1>2 DEF Accept, Approve, Unapprove
<1>3. ASSUME NEW p \in Speaker, SpeakerStep(p)
      PROVE  UNCHANGED request /\ accepted \subseteq accepted'
  BY <1>3 DEF SpeakerStep, OwnProfile, Headshot, OrganizerProfile, RestoreProfile, Visibility,
              Workflow, ProposalBio
<1>4. ASSUME NEW t \in Task, SpeakerTask(t) \/ OrganizerTask(t)
      PROVE  UNCHANGED request /\ accepted \subseteq accepted'
  <2>1. PICK state \in {"open", "complete", "waived"} : SetTask(t, state)
    BY <1>4 DEF SpeakerTask, OrganizerTask
  <2> QED BY <2>1 DEF SetTask
<1>5. ASSUME NEW targets \in SUBSET Addressed, NEW key \in TaskKey, AddTasks(targets, key)
      PROVE  UNCHANGED request /\ accepted \subseteq accepted'
  BY <1>5 DEF AddTasks
<1>6. CASE UNCHANGED vars
  BY <1>6 DEF vars, RequestsBelong
<1> QED BY <1>1, <1>2, <1>3, <1>4, <1>5, <1>6, RequestsBelongStep DEF Next

(***************************************************************************)
(* The pages of organizers and speakers.                                   *)
(***************************************************************************)
ContentInv ==
    /\ TypeOK
    /\ ApprovedMeetsGates
    /\ AgreementInv
    /\ DeliverablesCurrent
    /\ TasksStay
    /\ RequestsBelong

LEMMA ContentInvHolds == Spec => []ContentInv
<1>1. Init => ContentInv
  <2>1. Init => DeliverablesCurrent /\ TasksStay /\ RequestsBelong
    BY DEF Init, DeliverablesCurrent, TasksStay, RequestsBelong
  <2> QED BY <2>1, TypeInit, GatesInit, AgreementInit DEF ContentInv
<1>2. ContentInv /\ [Next]_vars => ContentInv'
  BY TypeNext, GatesNext, AgreementNext, DeliverablesNext, TasksStayNext, RequestsBelongNext
  DEF ContentInv
<1> QED BY <1>1, <1>2, PTL DEF Spec

\* What is stored as a copy is what it is a copy of, at every moment: a speaker's
\* agreement is signed exactly while a release task of theirs, in whichever session,
\* is complete or waived, and the stored status of the deliverables is the view's.
THEOREM StatusesFollowRows == Spec => []StatusesFollow
<1>1. ContentInv => StatusesFollow
  BY DEF ContentInv, AgreementInv, StatusesFollow
<1> QED BY <1>1, ContentInvHolds, PTL

\* A session whose deliverables are not all approved is one of which the stored
\* status says so.
LEMMA StatusTells ==
    ASSUME ContentInv, NEW q \in Request, q \in Needed(SessionOf[q]), Unapproved(q)
    PROVE  deliverables[SessionOf[q]] # "ready"
<1>1. deliverables[SessionOf[q]] = Readiness(SessionOf[q])
  BY DEF ContentInv, DeliverablesCurrent, Needed
<1> QED BY <1>1 DEF Readiness, Unapproved

\* The dossier's causes are the gates that are not met,
LEMMA CausesAreGates ==
    ASSUME NEW s
    PROVE  /\ "deliverables" \in unmetGates(s) <=> ~DeliverablesApproved(s)
           /\ "tasks" \in unmetGates(s) <=> ~TasksClosed(s)
           /\ "presenters" \in unmetGates(s) <=> ~PresentersReady(s)
           /\ "primary" \in unmetGates(s) <=> ~PrimaryPublic(s)
           /\ unmetGates(s) = {} <=> Gates(s)
<1>1. "deliverables" \in unmetGates(s) <=> ~DeliverablesApproved(s)
  BY DEF unmetGates, DeliverablesApproved, Unapproved
<1>2. "tasks" \in unmetGates(s) <=> ~TasksClosed(s)
  BY DEF unmetGates, TasksClosed, OpenTasks
<1>3. "presenters" \in unmetGates(s) <=> ~PresentersReady(s)
  BY DEF unmetGates, PresentersReady
<1>4. "primary" \in unmetGates(s) <=> ~PrimaryPublic(s)
  BY DEF unmetGates, PrimaryPublic
<1>5. unmetGates(s) \subseteq {"deliverables", "tasks", "presenters", "primary"}
  BY DEF unmetGates
<1> QED BY <1>1, <1>2, <1>3, <1>4, <1>5 DEF Gates

\* and so they are after a step.
LEMMA CausesAreGatesNext ==
    ASSUME NEW s
    PROVE  /\ "deliverables" \in unmetGates(s)' <=> ~DeliverablesApproved(s)'
           /\ "tasks" \in unmetGates(s)' <=> ~TasksClosed(s)'
           /\ "presenters" \in unmetGates(s)' <=> ~PresentersReady(s)'
           /\ "primary" \in unmetGates(s)' <=> ~PrimaryPublic(s)'
           /\ unmetGates(s)' = {} <=> Gates(s)'
<1>1. "deliverables" \in unmetGates(s)' <=> ~DeliverablesApproved(s)'
  BY DEF unmetGates, DeliverablesApproved, Unapproved
<1>2. "tasks" \in unmetGates(s)' <=> ~TasksClosed(s)'
  BY DEF unmetGates, TasksClosed, OpenTasks
<1>3. "presenters" \in unmetGates(s)' <=> ~PresentersReady(s)'
  BY DEF unmetGates, PresentersReady
<1>4. "primary" \in unmetGates(s)' <=> ~PrimaryPublic(s)'
  BY DEF unmetGates, PrimaryPublic
<1>5. unmetGates(s)' \subseteq {"deliverables", "tasks", "presenters", "primary"}
  BY DEF unmetGates
<1> QED BY <1>1, <1>2, <1>3, <1>4, <1>5 DEF Gates

\* A task that is open is one of a session its speaker presents and holds.
LEMMA OpenTaskOfSession ==
    ASSUME ContentInv, NEW t \in OpenTasks
    PROVE  /\ t \in Task /\ t[2] \in Speaker
           /\ t[1] \in SpeakerSessions(t[2]) /\ t[2] \in PresentersOf(t[1])
<1>1. t \in Task /\ task[t] = "open"
  BY DEF OpenTasks
<1>2. t[1] \in Session /\ t[2] \in Speaker /\ <<t[1], t[2]>> \in Presenter
  BY <1>1 DEF Task
<1>3. t[1] \in accepted
  BY <1>1 DEF ContentInv, AgreementInv, TasksOfAccepted
<1> QED BY <1>1, <1>2, <1>3 DEF SpeakerSessions, SessionsOf, PresentersOf

\* What the readiness reminder names.
LEMMA Reminded ==
    ASSUME NEW p \in Speaker
    PROVE  /\ Remindable(p) = {} <=> /\ p \in confirmed \intersect ready \intersect signed
                                     /\ TaskReminder(p) = {}
                                     /\ \A s \in SpeakerSessions(p) : deliverables[s] = "ready"
           /\ "speaker.task-reminder" \in Remindable(p) <=> TaskReminder(p) # {}
<1> DEFINE away == {p} \ confirmed
           bare == {p} \ ready
           unsigned == {p} \ signed
           due == TaskReminder(p)
           short == {s \in SpeakerSessions(p) : deliverables[s] # "ready"}
<1>1. ReadinessReminder(p) = {<<"participation", q>> : q \in away}
                             \union {<<"profile", q>> : q \in bare}
                             \union {<<"release", q>> : q \in unsigned}
                             \union {<<"task", t>> : t \in due}
                             \union {<<"deliverables", s>> : s \in short}
  BY DEF ReadinessReminder
<1>2. /\ away = {} <=> p \in confirmed
      /\ bare = {} <=> p \in ready
      /\ unsigned = {} <=> p \in signed
      /\ short = {} <=> \A s \in SpeakerSessions(p) : deliverables[s] = "ready"
  OBVIOUS
<1> HIDE DEF away, bare, unsigned, due, short
<1>3. {<<"participation", q>> : q \in away} = {} <=> away = {}
  OBVIOUS
<1>4. {<<"profile", q>> : q \in bare} = {} <=> bare = {}
  OBVIOUS
<1>5. {<<"release", q>> : q \in unsigned} = {} <=> unsigned = {}
  OBVIOUS
<1>6. {<<"task", t>> : t \in due} = {} <=> due = {}
  OBVIOUS
<1>7. {<<"deliverables", s>> : s \in short} = {} <=> short = {}
  OBVIOUS
<1>8. ReadinessReminder(p) = {} <=> away = {} /\ bare = {} /\ unsigned = {} /\ due = {} /\ short = {}
  BY <1>1, <1>3, <1>4, <1>5, <1>6, <1>7
<1>9. /\ "speaker.task-reminder" \in Remindable(p) <=> due # {}
      /\ "speaker.readiness-reminder" \in Remindable(p) <=> ReadinessReminder(p) # {}
      /\ Remindable(p) \subseteq {"speaker.readiness-reminder", "speaker.task-reminder"}
  BY DEF Remindable, due
<1> QED BY <1>2, <1>8, <1>9 DEF due

LEMMA SomebodyIsReminded ==
    ASSUME ContentInv, NEW s \in accepted, ~(OrganizerContent[s] \subseteq {"primary"})
    PROVE  \E p \in PresentersOf(s) : Remindable(p) # {}
<1>1. s \in Session
  BY DEF ContentInv, TypeOK
<1>2. OrganizerContent[s] = unmetGates(s)
  BY DEF OrganizerContent
<1>3. \A p \in PresentersOf(s) : p \in Speaker /\ s \in SpeakerSessions(p)
  BY <1>1 DEF PresentersOf, SpeakerSessions, SessionsOf
<1>4. Primary[s] \in PresentersOf(s)
  BY <1>1 DEF PresentersOf
<1>5. CASE "deliverables" \in unmetGates(s)
  <2>1. PICK q \in Needed(s) : Unapproved(q)
    BY <1>5 DEF unmetGates
  <2>2. deliverables[s] # "ready"
    BY <2>1, StatusTells DEF Needed
  <2> QED BY <1>3, <1>4, <2>2, Reminded
<1>6. CASE "tasks" \in unmetGates(s)
  <2>1. PICK t \in OpenTasks : t[1] = s
    BY <1>6 DEF unmetGates
  <2>2. t[2] \in PresentersOf(s) /\ t \in TaskReminder(t[2])
    BY <2>1, OpenTaskOfSession DEF TaskReminder
  <2> QED BY <1>3, <2>2, Reminded
<1>7. CASE "presenters" \in unmetGates(s)
  <2>1. PICK p \in PresentersOf(s) : p \notin confirmed \intersect ready \intersect signed
    BY <1>7 DEF unmetGates
  <2> QED BY <1>3, <2>1, Reminded
<1>8. unmetGates(s) \subseteq {"deliverables", "tasks", "presenters", "primary"}
  BY DEF unmetGates
<1> QED BY <1>2, <1>5, <1>6, <1>7, <1>8

LEMMA DoneIsDone ==
    ASSUME ContentInv, NEW p \in Speaker, SpeakerSessions(p) # {},
           \A s \in SpeakerSessions(p) : s \in approved /\ Requested(s)
    PROVE  /\ Remindable(p) = {}
           /\ p \in ready /\ p \in signed
           /\ \A s \in SpeakerSessions(p) : deliverables[s] = "ready"
           /\ TaskReminder(p) = {}
<1>1. ASSUME NEW s \in SpeakerSessions(p)
      PROVE  /\ Gates(s) /\ p \in PresentersOf(s)
             /\ deliverables[s] = "ready"
  <2>1. Gates(s)
    BY DEF ContentInv, ApprovedMeetsGates
  <2>2. p \in PresentersOf(s)
    BY DEF SpeakerSessions, SessionsOf, PresentersOf
  <2>3. PICK q \in Request : SessionOf[q] = s /\ request[q].state # "absent"
    BY DEF Requested
  <2>4. deliverables[s] = Readiness(s)
    BY <2>3 DEF ContentInv, DeliverablesCurrent
  <2>5. Readiness(s) = "ready"
    BY <2>1 DEF Gates, DeliverablesApproved, Readiness
  <2> QED BY <2>1, <2>2, <2>4, <2>5
<1>2. p \in confirmed \intersect ready \intersect signed
  BY <1>1 DEF Gates, PresentersReady
<1>3. TaskReminder(p) = {}
  <2> SUFFICES ASSUME NEW t \in OpenTasks, t[2] = p PROVE FALSE
    BY DEF TaskReminder
  <2>1. t \in Task /\ t[1] \in SpeakerSessions(p)
    BY OpenTaskOfSession
  <2> QED BY <1>1, <2>1 DEF Gates, TasksClosed, OpenTasks
<1> QED BY <1>1, <1>2, <1>3, Reminded

LEMMA LeftIsReminded ==
    ASSUME ContentInv, NEW p \in Speaker, NEW item \in Left(p)
    PROVE  TaskReminder(p) # {} \/ \E s \in SpeakerSessions(p) : deliverables[s] # "ready"
<1>1. CASE item \in {t \in Workspace(p).tasks : task[t] = "open"}
  <2>1. item \in TaskReminder(p)
    BY <1>1 DEF Workspace, SpeakerState, TaskReminder, OpenTasks
  <2> QED BY <2>1
<1>2. CASE item \in {q \in Workspace(p).requests :
                        request[q].required /\ request[q].latest \in {"none", "changes_requested"}}
  <2>1. /\ item \in Request /\ SessionOf[item] \in SpeakerSessions(p)
        /\ request[item].state = "active" /\ request[item].required
        /\ request[item].latest \in {"none", "changes_requested"}
    BY <1>2 DEF Workspace, SpeakerState
  <2>2. item \in Needed(SessionOf[item]) /\ Unapproved(item)
    BY <2>1 DEF Needed, Unapproved
  <2> QED BY <2>1, <2>2, StatusTells
<1> QED BY <1>1, <1>2 DEF Left

LEMMA RosterColumns ==
    ASSUME ContentInv, NEW p \in Speaker
    PROVE  /\ DOMAIN RosterReadiness(p) =
                  {"profileReady", "agreementReady", "requiredTasksReady", "deliverablesReady"}
           /\ RosterReadiness(p).profileReady <=> p \in ready
           /\ RosterReadiness(p).agreementReady <=> p \in signed
           /\ RosterReadiness(p).requiredTasksReady <=> TaskReminder(p) = {}
           /\ RosterReadiness(p).deliverablesReady <=>
                  \A s \in SpeakerSessions(p) : deliverables[s] = "ready"
<1>1. (~ \E t \in OpenTasks : t[2] = p /\ t[1] \in SpeakerSessions(p)) <=> TaskReminder(p) = {}
  BY OpenTaskOfSession DEF TaskReminder
<1> QED BY <1>1 DEF RosterReadiness

\* Nobody is told two things.
LEMMA WorkspacesTellOneStory == ContentInv => WorkspacesAgree
<1> SUFFICES ASSUME ContentInv PROVE WorkspacesAgree
  OBVIOUS
<1>1. approved \subseteq accepted
  BY DEF ContentInv, TypeOK
<1>2. ASSUME NEW s \in approved
      PROVE  OrganizerContent[s] = {} /\ Needed(s) \subseteq approvedCurrentDeliverables
  <2>1. Gates(s)
    BY DEF ContentInv, ApprovedMeetsGates
  <2>2. Needed(s) \subseteq approvedCurrentDeliverables
    BY <2>1 DEF Gates, DeliverablesApproved, Needed, approvedCurrentDeliverables
  <2> QED BY <1>1, <2>1, <2>2, CausesAreGates DEF OrganizerContent
<1>3. ASSUME NEW p \in Speaker
      PROVE  /\ RosterReadiness(p).requiredTasksReady <=> "speaker.task-reminder" \notin Remindable(p)
             /\ Left(p) # {} => Remindable(p) # {}
  BY RosterColumns, Reminded, LeftIsReminded
<1>4. ASSUME NEW p \in Speaker, Workspace(p).sessions # {},
             \A s \in Workspace(p).sessions : s \in approved /\ Requested(s)
      PROVE  /\ Remindable(p) = {} /\ Left(p) = {}
             /\ \A column \in DOMAIN RosterReadiness(p) : RosterReadiness(p)[column]
  <2>1. Workspace(p).sessions = SpeakerSessions(p)
    BY DEF Workspace, SpeakerState
  <2>2. /\ Remindable(p) = {}
        /\ p \in ready /\ p \in signed
        /\ \A s \in SpeakerSessions(p) : deliverables[s] = "ready"
        /\ TaskReminder(p) = {}
    BY <1>4, <2>1, DoneIsDone
  <2>3. Left(p) = {}
    BY <2>2, LeftIsReminded
  <2>4. \A column \in DOMAIN RosterReadiness(p) : RosterReadiness(p)[column]
    BY <2>2, RosterColumns
  <2> QED BY <2>2, <2>3, <2>4
<1>5. \A s \in accepted : OrganizerContent[s] = {} <=> Gates(s)
  BY CausesAreGates DEF OrganizerContent
<1> QED BY <1>2, <1>3, <1>4, <1>5, SomebodyIsReminded DEF WorkspacesAgree

\* The desk, the deadline panel and the roster.
LEMMA RosterTellsTheTruth == ContentInv => RosterIsTrue
<1> SUFFICES ASSUME ContentInv, NEW p \in Speaker
             PROVE  /\ DueWork(p) = SpeakerTaskDeadlinePanel(p)
                    /\ RosterReadiness(p).requiredTasksReady <=> SpeakerTaskDeadlinePanel(p) = {}
                    /\ p \in SpeakerRoster => \A s \in SpeakerSessions(p) :
                          /\ "deliverables" \notin OrganizerContent[s]
                          /\ PresentersOf(s) = {p} /\ p \in confirmed =>
                                OrganizerContent[s] \subseteq {"primary"}
  BY DEF RosterIsTrue
<1>1. DueWork(p) = TaskReminder(p)
  <2>1. ASSUME NEW t \in TaskReminder(p) PROVE t \in DueWork(p)
    <3>1. t \in OpenTasks /\ t[2] = p
      BY DEF TaskReminder
    <3> QED BY <3>1, OpenTaskOfSession DEF DueWork, Workspace, SpeakerState, OpenTasks
  <2>2. ASSUME NEW t \in DueWork(p) PROVE t \in TaskReminder(p)
    BY DEF DueWork, Workspace, SpeakerState, TaskReminder, OpenTasks
  <2> QED BY <2>1, <2>2
<1>2. ASSUME p \in SpeakerRoster, NEW s \in SpeakerSessions(p)
      PROVE  /\ "deliverables" \notin OrganizerContent[s]
             /\ PresentersOf(s) = {p} /\ p \in confirmed => OrganizerContent[s] \subseteq {"primary"}
  <2>1. /\ p \in ready /\ p \in signed /\ TaskReminder(p) = {} /\ deliverables[s] = "ready"
    BY <1>2, RosterColumns DEF SpeakerRoster
  <2>2. s \in accepted /\ s \in Session
    BY DEF SpeakerSessions, SessionsOf
  <2>3. OrganizerContent[s] = unmetGates(s)
    BY <2>2 DEF OrganizerContent
  <2>4. "deliverables" \notin unmetGates(s)
    <3>1. \A q \in Needed(s) : ~Unapproved(q)
      BY <2>1, StatusTells DEF Needed
    <3> QED BY <3>1 DEF unmetGates
  <2>5. ASSUME PresentersOf(s) = {p}, p \in confirmed
        PROVE  unmetGates(s) \subseteq {"primary"}
    <3>1. "tasks" \notin unmetGates(s)
      <4>1. ASSUME NEW t \in OpenTasks, t[1] = s PROVE FALSE
        BY <2>1, <2>5, <4>1, OpenTaskOfSession DEF TaskReminder
      <4> QED BY <4>1 DEF unmetGates
    <3>2. "presenters" \notin unmetGates(s)
      BY <2>1, <2>5 DEF unmetGates
    <3>3. unmetGates(s) \subseteq {"deliverables", "tasks", "presenters", "primary"}
      BY DEF unmetGates
    <3> QED BY <2>4, <3>1, <3>2, <3>3
  <2> QED BY <2>3, <2>4, <2>5
<1> QED BY <1>1, <1>2, RosterColumns DEF SpeakerTaskDeadlinePanel

(***************************************************************************)
(* The screens over them.                                                  *)
(***************************************************************************)

\* A request that is active has an upload form on the desk of the primary presenter.
LEMMA PrimaryUploads ==
    ASSUME ContentInv, NEW q \in Request, request[q].state = "active"
    PROVE  q \in UploadRequest(Primary[SessionOf[q]])
<1>1. SessionOf[q] \in Session /\ SessionOf[q] \in accepted
  BY DEF ContentInv, RequestsBelong
<1>2. SessionOf[q] \in SpeakerSessions(Primary[SessionOf[q]])
  BY <1>1 DEF SpeakerSessions, SessionsOf
<1> QED BY <1>2 DEF UploadRequest, Workspace, SpeakerState

\* A task that has a row is on the desk of its speaker.
LEMMA TaskInWorkspace ==
    ASSUME ContentInv, NEW t \in Task, task[t] # "none"
    PROVE  t \in Workspace(t[2]).tasks
<1>1. t[1] \in Session /\ t[2] \in Speaker /\ <<t[1], t[2]>> \in Presenter
  BY DEF Task
<1>2. t[1] \in accepted
  BY DEF ContentInv, AgreementInv, TasksOfAccepted
<1>3. t[1] \in SpeakerSessions(t[2])
  BY <1>1, <1>2 DEF SpeakerSessions, SessionsOf
<1> QED BY <1>3 DEF Workspace, SpeakerState

\* An accepted session's presenter whose agreement is not signed has, for this very
\* session, an open release task with a button.
LEMMA ReleaseOffered ==
    ASSUME ContentInv, NEW s \in accepted, NEW p \in PresentersOf(s), p \notin signed
    PROVE  \E t \in TaskList(p) : t[1] = s /\ t[3] = Release /\ task[t] = "open"
<1> USE DEF ContentInv
<1> DEFINE t == <<s, p, Release>>
<1>1. s \in Session /\ p \in Speaker /\ <<s, p>> \in Presenter
  BY DEF TypeOK, PresentersOf
<1>2. t \in Task /\ t[1] = s /\ t[2] = p /\ t[3] = Release
  BY <1>1 DEF Task
<1> HIDE DEF t
<1>3. task[t] # "none"
  BY <1>2 DEF TasksStay
<1>4. task[t] \notin {"complete", "waived"}
  BY <1>1, <1>2 DEF AgreementInv, AgreementFollowsRelease, Released
<1>5. task[t] = "open"
  BY <1>2, <1>3, <1>4 DEF TypeOK, TaskState
<1>6. t \in TaskList(p)
  BY <1>1, <1>2, <1>5 DEF TaskList, Workspace, SpeakerState, SpeakerSessions, SessionsOf
<1> QED BY <1>2, <1>5, <1>6

LEMMA ButtonsTaken == ContentInv => ButtonsAreTaken
<1> SUFFICES ASSUME ContentInv PROVE ButtonsAreTaken
  OBVIOUS
<1>1. ASSUME NEW s \in ContentOperations
      PROVE  "approved" \in ContentDossier(s) <=> MayApprove(s)
  <2>1. s \in accepted
    BY DEF ContentOperations
  <2>2. OrganizerContent[s] = {} <=> Gates(s)
    BY <2>1, CausesAreGates DEF OrganizerContent
  <2>3. CASE s \in approved
    BY <2>3 DEF ContentDossier, MayApprove
  <2>4. CASE s \notin approved
    BY <2>1, <2>2, <2>4 DEF ContentDossier, MayApprove
  <2> QED BY <2>3, <2>4
<1>2. ASSUME NEW q \in Request
      PROVE  MayReview(q) <=> \E s \in ContentOperations : q \in ReviewControls(s)
  BY DEF ContentInv, RequestsBelong, MayReview, ContentOperations, ReviewControls
<1>3. ASSUME NEW q \in Request
      PROVE  MayUpload(q) <=> \E p \in Speaker : q \in UploadRequest(p)
  <2>1. ASSUME MayUpload(q) PROVE q \in UploadRequest(Primary[SessionOf[q]])
    BY <2>1, PrimaryUploads DEF MayUpload, ContentInv, RequestsBelong
  <2>2. ASSUME NEW p \in Speaker, q \in UploadRequest(p) PROVE MayUpload(q)
    BY <2>2 DEF UploadRequest, MayUpload
  <2> QED BY <2>1, <2>2
<1>4. ASSUME NEW p \in Speaker, NEW t \in SpeakerState(p).tasks
      PROVE  (MaySetOwn(t) /\ MaySet(t, Toggled(t))) <=> t \in TaskList(p)
  <2>1. t \in Task /\ t[2] = p /\ task[t] # "none"
    BY DEF SpeakerState
  <2>2. t \in Workspace(p).tasks
    BY <2>1, TaskInWorkspace
  <2> QED BY <2>1, <2>2 DEF MaySetOwn, MaySet, Toggled, TaskList
<1> QED BY <1>1, <1>2, <1>3, <1>4 DEF ButtonsAreTaken

\* For each cause somebody has a button.
LEMMA NobodyIsStuck == ContentInv => NothingIsStuck
<1> SUFFICES ASSUME ContentInv, NEW s \in accepted
             PROVE  /\ \A q \in Needed(s) : Unapproved(q) =>
                          /\ \E p \in PresentersOf(s) : q \in UploadRequest(p)
                          /\ request[q].latest # "none" => q \in ReviewControls(s)
                    /\ \A t \in OpenTasks : t[1] = s => t \in TaskList(t[2])
                    /\ \A p \in PresentersOf(s) \ signed :
                          \E t \in TaskList(p) : t[1] = s /\ t[3] = Release /\ task[t] = "open"
  BY DEF NothingIsStuck, ContentOperations
<1>1. s \in Session
  BY DEF ContentInv, TypeOK
<1>2. ASSUME NEW q \in Needed(s)
      PROVE  /\ \E p \in PresentersOf(s) : q \in UploadRequest(p)
             /\ request[q].latest # "none" => q \in ReviewControls(s)
  <2>1. q \in Request /\ SessionOf[q] = s /\ request[q].state = "active"
    BY DEF Needed
  <2>2. Primary[s] \in PresentersOf(s) /\ q \in UploadRequest(Primary[s])
    BY <1>1, <2>1, PrimaryUploads DEF PresentersOf
  <2> QED BY <2>1, <2>2 DEF ReviewControls
<1>3. ASSUME NEW t \in OpenTasks PROVE t \in TaskList(t[2])
  <2>1. t \in Task /\ t[2] \in Speaker /\ task[t] = "open"
    BY OpenTaskOfSession DEF OpenTasks
  <2>2. t \in Workspace(t[2]).tasks
    BY <2>1, TaskInWorkspace
  <2> QED BY <2>1, <2>2 DEF TaskList
<1> QED BY <1>2, <1>3, ReleaseOffered

\* Whatever tasks, profiles, requests and reviews have been through, the pages tell
\* one story, a screen offers what its handler takes, and for every cause that holds
\* an approval back somebody has a button.
THEOREM ContentScreensAreTrue == Spec => []ContentScreensOffer
<1>1. ContentInv => ContentScreensOffer
  BY WorkspacesTellOneStory, ButtonsTaken, NobodyIsStuck, RosterTellsTheTruth
  DEF ContentScreensOffer
<1> QED BY <1>1, ContentInvHolds, PTL

(***************************************************************************)
(* The last button.                                                        *)
(***************************************************************************)

\* Nothing that a gate of the session but the deliverables' looks at is written.
LEMMA LastDeliverable ==
    ASSUME ContentInv, NEW s \in accepted, unmetGates(s) = {"deliverables"},
           NEW q \in Needed(s), {r \in Needed(s) : Unapproved(r)} = {q},
           ReviewLatest(q, "approved") \/ toggleRequest(q)
    PROVE  unmetGates(s)' = {}
<1>1. TasksClosed(s) /\ PresentersReady(s) /\ PrimaryPublic(s)
  BY CausesAreGates
<1>2. UNCHANGED <<speakerVars, task>>
  BY DEF ReviewLatest, toggleRequest, UpdateRequest, Refresh
<1>3. TasksClosed(s)' /\ PresentersReady(s)' /\ PrimaryPublic(s)'
  BY <1>1, <1>2 DEF TasksClosed, PresentersReady, PrimaryPublic, PresentersOf, speakerVars
<1>4. q \in Request /\ request[q].state = "active"
  BY DEF Needed
<1>5. \A r \in Request : r # q => request'[r] = request[r]
  BY DEF ReviewLatest, toggleRequest, UpdateRequest, ContentInv, TypeOK
<1>6. request'[q].latest = "approved" \/ request'[q].state = "inactive"
  BY <1>4 DEF ReviewLatest, toggleRequest, UpdateRequest, ContentInv, TypeOK
<1>7. DeliverablesApproved(s)'
  <2> SUFFICES ASSUME NEW r \in Needed(s)' PROVE request'[r].latest = "approved"
    BY DEF DeliverablesApproved
  <2>1. r \in Request /\ SessionOf[r] = s /\ request'[r].state = "active" /\ request'[r].required
    BY DEF Needed
  <2>2. CASE r = q
    BY <1>6, <2>1, <2>2
  <2>3. CASE r # q
    <3>1. request'[r] = request[r]
      BY <1>5, <2>1, <2>3
    <3>2. r \in Needed(s) /\ ~Unapproved(r)
      BY <2>1, <2>3, <3>1 DEF Needed
    <3> QED BY <3>1, <3>2 DEF Unapproved
  <2> QED BY <2>2, <2>3
<1> QED BY <1>3, <1>7, CausesAreGatesNext DEF Gates

\* Completing or waiving the last open task; a release signs with it.
LEMMA LastTask ==
    ASSUME ContentInv, NEW s \in accepted, NEW t \in OpenTasks,
           unmetGates(s) \subseteq {"tasks", "presenters"},
           {u \in OpenTasks : u[1] = s} = {t},
           "presenters" \in unmetGates(s) =>
               /\ t[3] = Release
               /\ PresentersOf(s) \ (confirmed \intersect ready \intersect signed) = {t[2]}
               /\ t[2] \in confirmed \intersect ready,
           toggleTask(t) \/ ledgerTask(t)
    PROVE  unmetGates(s)' = {}
<1>1. DeliverablesApproved(s) /\ PrimaryPublic(s)
  BY CausesAreGates
<1>2. t \in Task /\ task[t] = "open" /\ t[2] \in Speaker
  BY OpenTaskOfSession DEF OpenTasks
<1>3. PICK state \in {"complete", "waived"} : SetTask(t, state)
  BY <1>2 DEF toggleTask, Toggled, ledgerTask
<1>4. /\ task' = [task EXCEPT ![t] = state]
      /\ signed' = IF t[3] = Release THEN With(signed, t[2], Released(t[2])') ELSE signed
      /\ UNCHANGED <<confirmed, ready, published, request>>
  BY <1>3 DEF SetTask
<1>5. task'[t] = state /\ \A u \in Task : u # t => task'[u] = task[u]
  BY <1>2, <1>4 DEF ContentInv, TypeOK
<1>6. TasksClosed(s)'
  BY <1>3, <1>5 DEF TasksClosed, OpenTasks
<1>7. DeliverablesApproved(s)' /\ PrimaryPublic(s)'
  BY <1>1, <1>4 DEF DeliverablesApproved, Needed, PrimaryPublic
<1>8. t[3] = Release => t[2] \in signed'
  BY <1>2, <1>3, <1>4, <1>5 DEF Released, With
<1>9. signed \subseteq signed'
  BY <1>4, <1>8 DEF With
<1>10. PresentersReady(s)'
  <2>1. CASE "presenters" \notin unmetGates(s)
    <3>1. PresentersReady(s)
      BY <2>1, CausesAreGates
    <3> QED BY <1>4, <1>9, <3>1 DEF PresentersReady, PresentersOf
  <2>2. CASE "presenters" \in unmetGates(s)
    BY <1>4, <1>8, <1>9, <2>2 DEF PresentersReady, PresentersOf
  <2> QED BY <2>1, <2>2
<1> QED BY <1>6, <1>7, <1>10, CausesAreGatesNext DEF Gates

\* Confirming the last presenter.
LEMMA LastPresenter ==
    ASSUME NEW s \in accepted, unmetGates(s) = {"presenters"}, NEW p \in PresentersOf(s),
           PresentersOf(s) \ (confirmed \intersect ready \intersect signed) = {p},
           p \in ready \intersect signed,
           workflow(p)
    PROVE  unmetGates(s)' = {}
<1>1. DeliverablesApproved(s) /\ TasksClosed(s) /\ PrimaryPublic(s)
  BY CausesAreGates
<1>2. confirmed' = confirmed \union {p} /\ UNCHANGED <<ready, signed, published, task, request>>
  BY DEF workflow, Workflow, With
<1>3. PresentersReady(s)'
  BY <1>2 DEF PresentersReady, PresentersOf
<1>4. DeliverablesApproved(s)' /\ TasksClosed(s)' /\ PrimaryPublic(s)'
  BY <1>1, <1>2 DEF DeliverablesApproved, Needed, TasksClosed, PrimaryPublic
<1> QED BY <1>3, <1>4, CausesAreGatesNext DEF Gates

\* Publishing the primary presenter's profile.
LEMMA LastProfile ==
    ASSUME NEW s \in accepted, unmetGates(s) = {"primary"}, visibility(Primary[s])
    PROVE  unmetGates(s)' = {}
<1>1. DeliverablesApproved(s) /\ TasksClosed(s) /\ PresentersReady(s) /\ ~PrimaryPublic(s)
  BY CausesAreGates
<1>2. /\ published' = published \union {Primary[s]}
      /\ UNCHANGED <<confirmed, ready, signed, task, request>>
  BY <1>1 DEF visibility, Visibility, With, PrimaryPublic
<1>3. PrimaryPublic(s)'
  BY <1>2 DEF PrimaryPublic
<1>4. DeliverablesApproved(s)' /\ TasksClosed(s)' /\ PresentersReady(s)'
  BY <1>1, <1>2 DEF DeliverablesApproved, Needed, TasksClosed, PresentersReady, PresentersOf
<1> QED BY <1>3, <1>4, CausesAreGatesNext DEF Gates

\* A request that is added is named at once.
LEMMA RequestIsNamed ==
    ASSUME TypeOK, NEW q \in Request, RequestCreator(q)
    PROVE  "deliverables" \in unmetGates(SessionOf[q])'
<1>1. /\ request'[q].state = "active" /\ request'[q].required /\ request'[q].latest = "none"
  BY DEF RequestCreator, CreateRequest, TypeOK
<1>2. q \in Needed(SessionOf[q])'
  BY <1>1 DEF Needed
<1>3. ~DeliverablesApproved(SessionOf[q])'
  BY <1>1, <1>2 DEF DeliverablesApproved
<1> QED BY <1>3, CausesAreGatesNext

\* Whatever the event has been through, the button that does the one thing left of a
\* session's list clears it, for every cause the list can name.
THEOREM LastButtonsClear == Spec => LastButtonClears
<1> DEFINE Cleared ==
        /\ \A s \in ContentOperations :
            LET causes == OrganizerContent[s]
                cleared == unmetGates(s)' = {}
            IN  /\ causes = {"deliverables"} =>
                      \A q \in Needed(s) :
                          /\ {r \in Needed(s) : Unapproved(r)} = {q}
                          /\ ReviewLatest(q, "approved") \/ toggleRequest(q)
                          => cleared
                /\ causes \in {{"tasks"}, {"tasks", "presenters"}} =>
                      \A t \in OpenTasks :
                          /\ {u \in OpenTasks : u[1] = s} = {t}
                          /\ "presenters" \in causes =>
                                /\ t[3] = Release
                                /\ PresentersOf(s) \ (confirmed \intersect ready \intersect signed) = {t[2]}
                                /\ t[2] \in confirmed \intersect ready
                          /\ toggleTask(t) \/ ledgerTask(t)
                          => cleared
                /\ causes = {"presenters"} =>
                      \A p \in PresentersOf(s) :
                          /\ PresentersOf(s) \ (confirmed \intersect ready \intersect signed) = {p}
                          /\ p \in ready \intersect signed
                          /\ workflow(p)
                          => cleared
                /\ causes = {"primary"} /\ visibility(Primary[s]) => cleared
        /\ \A q \in Request : RequestCreator(q) => "deliverables" \in unmetGates(SessionOf[q])'
<1>1. ASSUME ContentInv PROVE Cleared
  <2>1. ASSUME NEW s \in ContentOperations
        PROVE  s \in accepted /\ OrganizerContent[s] = unmetGates(s)
    BY DEF ContentOperations, OrganizerContent
  <2>2. ASSUME NEW s \in ContentOperations, OrganizerContent[s] = {"deliverables"},
               NEW q \in Needed(s), {r \in Needed(s) : Unapproved(r)} = {q},
               ReviewLatest(q, "approved") \/ toggleRequest(q)
        PROVE  unmetGates(s)' = {}
    BY <1>1, <2>1, <2>2, LastDeliverable
  <2>3. ASSUME NEW s \in ContentOperations,
               OrganizerContent[s] \in {{"tasks"}, {"tasks", "presenters"}},
               NEW t \in OpenTasks, {u \in OpenTasks : u[1] = s} = {t},
               "presenters" \in OrganizerContent[s] =>
                   /\ t[3] = Release
                   /\ PresentersOf(s) \ (confirmed \intersect ready \intersect signed) = {t[2]}
                   /\ t[2] \in confirmed \intersect ready,
               toggleTask(t) \/ ledgerTask(t)
        PROVE  unmetGates(s)' = {}
    <3>1. unmetGates(s) \subseteq {"tasks", "presenters"}
      BY <2>1, <2>3
    <3> QED BY <1>1, <2>1, <2>3, <3>1, LastTask
  <2>4. ASSUME NEW s \in ContentOperations, OrganizerContent[s] = {"presenters"},
               NEW p \in PresentersOf(s),
               PresentersOf(s) \ (confirmed \intersect ready \intersect signed) = {p},
               p \in ready \intersect signed, workflow(p)
        PROVE  unmetGates(s)' = {}
    BY <2>1, <2>4, LastPresenter
  <2>5. ASSUME NEW s \in ContentOperations, OrganizerContent[s] = {"primary"},
               visibility(Primary[s])
        PROVE  unmetGates(s)' = {}
    BY <2>1, <2>5, LastProfile
  <2>6. ASSUME NEW q \in Request, RequestCreator(q)
        PROVE  "deliverables" \in unmetGates(SessionOf[q])'
    BY <1>1, <2>6, RequestIsNamed DEF ContentInv
  <2> QED BY <2>2, <2>3, <2>4, <2>5, <2>6
<1> QED BY <1>1, ContentInvHolds, PTL DEF Spec, LastButtonClears

USE AgendaAssumption DEF AgendaAssumption


(***************************************************************************)
(* The schedule: the placements among each other and against what they     *)
(* rest on.                                                                *)
(***************************************************************************)
Schedule(rows) ==
    /\ rows \subseteq Placement
    /\ \A a, b \in rows : a # b => a.session # b.session
    /\ \A row \in rows : Placeable(row, rows \ {row})

LEMMA ScheduleShrinks ==
    ASSUME NEW rows, Schedule(rows), NEW some, some \subseteq rows
    PROVE  Schedule(some)
<1>1. \A row \in some : row \in rows /\ some \ {row} \subseteq rows \ {row}
  OBVIOUS
<1>2. \A row \in some : Placeable(row, some \ {row})
  BY <1>1 DEF Schedule, Placeable, RoomFree
<1> QED BY <1>2 DEF Schedule

\* A row that fits among the others can be added: what it leaves free for itself
\* it leaves free for them.
LEMMA ScheduleGrows ==
    ASSUME NEW rows, Schedule(rows), NEW new \in Placement, Placeable(new, rows),
           \A row \in rows : row.session # new.session
    PROVE  Schedule(rows \union {new})
<1> DEFINE all == rows \union {new}
<1>1. ASSUME NEW row \in all PROVE Placeable(row, all \ {row})
  <2>1. CASE row = new
    <3>1. all \ {row} = rows
      BY <2>1
    <3> QED BY <2>1, <3>1
  <2>2. CASE row # new
    <3>1. row \in rows /\ Placeable(row, rows \ {row})
      BY <2>2 DEF Schedule
    <3>2. new.room = row.room => ~Overlap(row, new)
      BY <3>1 DEF Placeable, RoomFree, Overlap
    <3> QED BY <3>1, <3>2 DEF Placeable, RoomFree
  <2> QED BY <2>1, <2>2
<1> QED BY <1>1 DEF Schedule

\* Rows that stay keep their places while what they rest on does.
LEMMA ScheduleFrame ==
    ASSUME NEW rows, Schedule(rows), placements' = rows,
           accepted \subseteq accepted', rooms \subseteq rooms',
           \A row \in rows : length'[row.session] = length[row.session],
           \A row \in rows, d \in days : d.number = row.day => d \in days'
    PROVE  Schedule(placements)'
<1>1. ASSUME NEW row \in rows
      PROVE  /\ row.session \in accepted' /\ row.room \in rooms' /\ Fits(row)'
             /\ RoomFree(row, rows \ {row})
  BY <1>1 DEF Schedule, Placeable, Fits
<1> QED BY <1>1 DEF Schedule, Placeable, Fits, RoomFree

(***************************************************************************)
(* AgendaSound is inductive.                                               *)
(***************************************************************************)
LEMMA AgendaParts == AgendaSound <=> /\ AgendaTypeOK
                                     /\ Schedule(placements)
                                     /\ \A s \in Session : publication[s] = "published" => Placed(s)
BY DEF AgendaSound, AgendaTypeOK, Schedule

LEMMA AgendaSoundInit == AgendaInit => AgendaSound
<1>1. AgendaInit => TypeOK
  BY TypeInit DEF AgendaInit
<1> QED BY <1>1 DEF AgendaInit, AgendaSound, AgendaTypeOK, Placed

LEMMA CandidatesTyped ==
    ASSUME AgendaTypeOK, NEW s \in Session, NEW row \in Candidates(s)
    PROVE  row \in Placement /\ row.session = s
<1>1. PICK d \in days, r \in rooms, t \in UNION {w.opens .. w.closes : w \in Window} :
          row = [session |-> s, day |-> d.number, room |-> r, starts |-> t, ends |-> t + length[s]]
  BY DEF Candidates
<1>2. t \in Nat
  <2>1. PICK w \in Window : t \in w.opens .. w.closes
    OBVIOUS
  <2>2. w.opens \in Nat /\ w.closes \in Nat
    OBVIOUS
  <2> QED BY <2>1, <2>2
<1>3. d.number \in Day /\ r \in Room
  BY DEF AgendaTypeOK, DayRow
<1>4. t + length[s] \in Nat
  <2>1. length[s] \in Nat
    BY DEF AgendaTypeOK
  <2> HIDE DEF AgendaAssumption
  <2> QED BY <1>2, <2>1
<1> QED BY <1>1, <1>2, <1>3, <1>4 DEF Placement

\* Steps below the agenda take nothing away that a placement rests on.
LEMMA ApprovalKeepsAgenda ==
    ASSUME AgendaSound, [Next]_vars, UNCHANGED agendaVars
    PROVE  AgendaSound'
<1>1. AgendaTypeOK
  BY DEF AgendaSound
<1>2. accepted \subseteq accepted'
  <2>1. ASSUME NEW s \in Session, Accept(s) \/ Approve(s) \/ Unapprove(s)
        PROVE  accepted \subseteq accepted'
    BY <2>1 DEF Accept, Approve, Unapprove
  <2>2. ASSUME NEW p \in Speaker, SpeakerStep(p)
        PROVE  accepted' = accepted
    BY <2>2 DEF SpeakerStep, OwnProfile, Headshot, OrganizerProfile, RestoreProfile, Visibility,
                Workflow, ProposalBio
  <2>3. ASSUME NEW t \in Task, SpeakerTask(t) \/ OrganizerTask(t)
        PROVE  accepted' = accepted
    <3>1. PICK state \in {"open", "complete", "waived"} : SetTask(t, state)
      BY <2>3 DEF SpeakerTask, OrganizerTask
    <3> QED BY <3>1 DEF SetTask
  <2>4. ASSUME NEW targets \in SUBSET Addressed, NEW key \in TaskKey, AddTasks(targets, key)
        PROVE  accepted' = accepted
    BY <2>4 DEF AddTasks
  <2>5. ASSUME NEW q \in Request, RequestStep(q)
        PROVE  accepted' = accepted
    <3>1. PICK demotes \in BOOLEAN : Refresh(SessionOf[q], demotes)
      BY <2>5 DEF RequestStep, CreateRequest, UpdateRequest, Upload, ReviewLatest, ReviewOlder
    <3> QED BY <3>1 DEF Refresh
  <2>6. CASE UNCHANGED vars
    BY <2>6 DEF vars
  <2> QED BY <2>1, <2>2, <2>3, <2>4, <2>5, <2>6 DEF Next
<1>3. TypeOK'
  BY <1>1, TypeNext DEF AgendaTypeOK
<1>4. AgendaTypeOK'
  BY <1>1, <1>2, <1>3 DEF AgendaTypeOK, agendaVars
<1>5. Schedule(placements)'
  <2>1. PICK rows : rows = placements
    OBVIOUS
  <2>2. Schedule(rows) /\ placements' = rows
    BY <2>1, AgendaParts DEF agendaVars
  <2> QED BY <1>2, <2>2, ScheduleFrame DEF agendaVars
<1>6. \A s \in Session : publication'[s] = "published" => Placed(s)'
  BY DEF AgendaSound, agendaVars, Placed
<1> QED BY <1>4, <1>5, <1>6 DEF AgendaSound, Schedule

(***************************************************************************)
(* Automatic placement.  The batch is a recursive function over the        *)
(* statements; that it exists, and what every outcome of every statement   *)
(* keeps, follow because a set of numbers that has an element has a least. *)
(***************************************************************************)
LEMMA LeastNatural ==
    ASSUME NEW T, T \subseteq Nat, T # {}
    PROVE  \E n \in T : \A m \in T : n <= m
<1>1. PICK n \in T : \A m \in T : ~(<<m, n>> \in OpToRel(<, Nat))
  BY NatLessThanWellFounded, WFMin
<1>2. ASSUME NEW m \in T PROVE ~(m < n)
  <2>1. OpToRel(<, Nat) = {pair \in Nat \X Nat : pair[1] < pair[2]}
    BY Zenon DEF OpToRel
  <2>2. <<m, n>> \in Nat \X Nat /\ <<m, n>>[1] = m /\ <<m, n>>[2] = n
    BY SMT
  <2>3. ~(<<m, n>> \in {pair \in Nat \X Nat : pair[1] < pair[2]})
    BY <1>1, <2>1, Zenon
  <2> QED BY <2>2, <2>3, SMT
<1> QED BY <1>2, SMT

LEMMA OrdersTyped ==
    ASSUME NEW asked \in Orders
    PROVE  asked \in Seq(Session) /\ Len(asked) \in Nat /\ DOMAIN asked = 1 .. Len(asked)
<1>1. PICK some \in SUBSET Session : asked \in SetToSeqs(some)
  BY DEF Orders
<1>2. IsFiniteSet(some) /\ Cardinality(some) \in Nat
  BY FS_Subset, FS_CardinalityType
<1>3. asked \in [1 .. Cardinality(some) -> some]
  BY <1>1 DEF SetToSeqs
<1>4. asked \in Seq(some)
  BY <1>2, <1>3, IsASeq
<1>5. asked \in Seq(Session)
  BY <1>4
<1> QED BY <1>5, LenProperties

LEMMA BatchRuns ==
    ASSUME NEW asked \in Orders
    PROVE  /\ AfterStatements(asked)[0] = {placements}
           /\ \A n \in 1 .. Len(asked) :
                 AfterStatements(asked)[n] = AutoPlaceOne(AfterStatements(asked)[n - 1], asked[n])
<1> DEFINE Runs(after, m) ==
               after = [n \in 0 .. m |-> IF n = 0 THEN {placements}
                                         ELSE AutoPlaceOne(after[n - 1], asked[n])]
           T == {m \in Nat : ~ \E after : Runs(after, m)}
<1>1. T = {}
  <2> SUFFICES ASSUME T # {} PROVE FALSE
    OBVIOUS
  <2>1. PICK m \in T : \A k \in T : m <= k
    <3> HIDE DEF T
    <3>1. T \subseteq Nat
      BY DEF T
    <3> QED BY <3>1, LeastNatural
  <2>2. CASE m = 0
    <3> DEFINE empty == [n \in 0 .. 0 |-> {placements}]
    <3>1. Runs(empty, 0)
      OBVIOUS
    <3> QED BY <2>2, <3>1
  <2>3. CASE m # 0
    <3>1. m \in Nat /\ m - 1 \in Nat /\ m - 1 \notin T
      <4>1. m \in Nat
        BY <2>1
      <4> HIDE DEF T
      <4> QED BY <2>1, <2>3, <4>1
    <3>2. PICK before : Runs(before, m - 1)
      BY <3>1
    <3> DEFINE after == [n \in 0 .. m |-> IF n = m THEN AutoPlaceOne(before[m - 1], asked[m])
                                          ELSE before[n]]
    <3>3. ASSUME NEW n \in 0 .. m
          PROVE  after[n] = IF n = 0 THEN {placements} ELSE AutoPlaceOne(after[n - 1], asked[n])
      <4>1. CASE n = 0
        <5>1. before[0] = {placements}
          BY <3>1, <3>2
        <5> QED BY <2>3, <4>1, <5>1
      <4>2. CASE n = m
        <5>1. after[n - 1] = before[m - 1]
          BY <3>1, <4>2
        <5> QED BY <2>3, <4>2, <5>1
      <4>3. CASE n # 0 /\ n # m
        <5>1. n \in 0 .. m - 1 /\ n - 1 \in 0 .. m /\ n - 1 # m
          BY <3>1, <4>3
        <5>2. before[n] = AutoPlaceOne(before[n - 1], asked[n])
          BY <3>2, <4>3, <5>1
        <5>3. after[n - 1] = before[n - 1] /\ after[n] = before[n]
          BY <4>3, <5>1
        <5> QED BY <4>3, <5>2, <5>3
      <4> QED BY <4>1, <4>2, <4>3
    <3>4. Runs(after, m)
      BY <3>3
    <3> QED BY <2>1, <3>4
  <2> QED BY <2>2, <2>3
<1>2. Len(asked) \in Nat
  BY OrdersTyped
<1>3. PICK after : Runs(after, Len(asked))
  BY <1>1, <1>2
<1>4. Runs(AfterStatements(asked), Len(asked))
  BY <1>3 DEF AfterStatements
<1> HIDE DEF T
<1>5. AfterStatements(asked)[0] = {placements}
  BY <1>2, <1>4
<1>6. ASSUME NEW n \in 1 .. Len(asked)
      PROVE  AfterStatements(asked)[n] = AutoPlaceOne(AfterStatements(asked)[n - 1], asked[n])
  <2>1. n \in 0 .. Len(asked) /\ n # 0
    BY <1>2
  <2> QED BY <1>4, <2>1
<1> QED BY <1>5, <1>6

\* A session needs no statement, or finds no place; or a statement adds its row.
Served(s, rows) ==
    s \in accepted => (\E row \in rows : row.session = s) \/ Available(s, rows) = {}

Adds(s, before, rows) ==
    /\ s \in accepted
    /\ \A row \in before : row.session # s
    /\ \E row \in Available(s, before) : rows = before \union {row}

LEMMA OneStatement ==
    ASSUME NEW outcomes, NEW s, NEW rows \in AutoPlaceOne(outcomes, s)
    PROVE  \E before \in outcomes : (rows = before /\ Served(s, before)) \/ Adds(s, before, rows)
<1>1. PICK before \in outcomes :
          rows \in IF s \notin accepted \/ (\E row \in before : row.session = s) \/ Available(s, before) = {}
                   THEN {before}
                   ELSE {before \union {row} : row \in First(Available(s, before))}
  BY DEF AutoPlaceOne
<1>2. First(Available(s, before)) \subseteq Available(s, before)
  BY DEF First
<1> QED BY <1>1, <1>2 DEF Served, Adds

\* What becomes available never grows as rows are added.
LEMMA AvailableShrinks ==
    ASSUME NEW s, NEW rows, NEW more, rows \subseteq more
    PROVE  Available(s, more) \subseteq Available(s, rows)
BY DEF Available, RoomFree

\* An outcome of the first n statements: a schedule with the placements there were
\* before, in which no new row is in two speakers' way, and which has no room left
\* for a session it was asked for and did not place.
BatchOutcome(asked, n, rows) == 
    /\ Schedule(rows)
    /\ placements \subseteq rows
    /\ \A a, b \in rows : a # b /\ Clash(a, b) => {a, b} \subseteq placements
    /\ \A i \in 1 .. n : Served(asked[i], rows)

LEMMA StatementKeeps ==
    ASSUME AgendaSound, NEW asked \in Orders, NEW n \in 1 .. Len(asked),
           NEW before, BatchOutcome(asked, n - 1, before),
           NEW rows, (rows = before /\ Served(asked[n], before)) \/ Adds(asked[n], before, rows)
    PROVE  BatchOutcome(asked, n, rows)
<1>0. n \in Nat /\ Len(asked) \in Nat
  BY OrdersTyped
<1>1. \A i \in 1 .. n : i \in 1 .. n - 1 \/ i = n
  BY <1>0
<1>2. CASE rows = before /\ Served(asked[n], before)
  BY <1>1, <1>2 DEF BatchOutcome
<1>3. CASE Adds(asked[n], before, rows)
  <2>1. PICK new \in Available(asked[n], before) : rows = before \union {new}
    BY <1>3 DEF Adds
  <2>2. asked[n] \in accepted /\ \A row \in before : row.session # asked[n]
    BY <1>3 DEF Adds
  <2>3. asked[n] \in Session
    BY <2>2 DEF AgendaSound, AgendaTypeOK, TypeOK
  <2>4. new \in Candidates(asked[n]) /\ Fits(new) /\ RoomFree(new, before)
        /\ \A other \in before : ~Clash(new, other)
    BY DEF Available
  <2>5. new \in Placement /\ new.session = asked[n]
    BY <2>3, <2>4, CandidatesTyped DEF AgendaSound
  <2>6. new.room \in rooms
    BY <2>4 DEF Candidates
  <2>7. Placeable(new, before)
    BY <2>2, <2>4, <2>5, <2>6 DEF Placeable
  <2>8. Schedule(rows)
    BY <2>1, <2>2, <2>5, <2>7, ScheduleGrows DEF BatchOutcome
  <2>9. ASSUME NEW a \in rows, NEW b \in rows, a # b, Clash(a, b)
        PROVE  {a, b} \subseteq placements
    <3>1. ~Clash(new, b) \/ b = new
      BY <2>1, <2>4
    <3>2. ~Clash(a, new) \/ a = new
      BY <2>1, <2>4 DEF Clash, SharePresenter, Overlap
    <3>3. a \in before /\ b \in before
      BY <2>1, <2>9, <3>1, <3>2
    <3> QED BY <2>9, <3>3 DEF BatchOutcome
  <2>10. ASSUME NEW i \in 1 .. n PROVE Served(asked[i], rows)
    <3>1. CASE i = n
      BY <2>1, <2>5, <3>1 DEF Served
    <3>2. CASE i # n
      <4>1. Served(asked[i], before)
        BY <1>1, <3>2 DEF BatchOutcome
      <4>2. before \subseteq rows
        BY <2>1
      <4>3. Available(asked[i], rows) \subseteq Available(asked[i], before)
        BY <4>2, AvailableShrinks
      <4> QED BY <4>1, <4>2, <4>3 DEF Served
    <3> QED BY <3>1, <3>2
  <2> QED BY <2>1, <2>8, <2>9, <2>10 DEF BatchOutcome
<1> QED BY <1>2, <1>3

LEMMA BatchKeeps ==
    ASSUME AgendaSound, NEW asked \in Orders,
           NEW rows \in AfterStatements(asked)[Len(asked)]
    PROVE  BatchOutcome(asked, Len(asked), rows)
<1> DEFINE Good(n) == \A some \in AfterStatements(asked)[n] : BatchOutcome(asked, n, some)
           T == {n \in Nat : n <= Len(asked) /\ ~Good(n)}
<1>0. Len(asked) \in Nat
  BY OrdersTyped
<1>1. T = {}
  <2> SUFFICES ASSUME T # {} PROVE FALSE
    OBVIOUS
  <2>1. PICK n \in T : \A k \in T : n <= k
    <3>1. T \subseteq Nat
      OBVIOUS
    <3> HIDE DEF T
    <3> QED BY <3>1, LeastNatural
  <2>2. n \in Nat /\ n <= Len(asked) /\ ~Good(n)
    OBVIOUS
  <2>3. CASE n = 0
    <3>1. Schedule(placements)
      BY DEF AgendaSound, AgendaTypeOK, Schedule
    <3>2. AfterStatements(asked)[0] = {placements}
      BY BatchRuns
    <3>3. BatchOutcome(asked, 0, placements)
      BY <3>1 DEF BatchOutcome
    <3> QED BY <2>2, <2>3, <3>2, <3>3
  <2>4. CASE n # 0
    <3>1. n \in 1 .. Len(asked) /\ n - 1 \in Nat /\ n - 1 <= Len(asked)
      BY <1>0, <2>2, <2>4
    <3>2. Good(n - 1)
      <4>1. n - 1 \notin T
        <5> HIDE DEF T
        <5> QED BY <2>1, <2>2, <3>1
      <4> QED BY <3>1, <4>1
    <3>3. PICK some \in AfterStatements(asked)[n] : ~BatchOutcome(asked, n, some)
      BY <2>2
    <3>4. AfterStatements(asked)[n] = AutoPlaceOne(AfterStatements(asked)[n - 1], asked[n])
      BY <3>1, BatchRuns
    <3>5. PICK before \in AfterStatements(asked)[n - 1] :
              (some = before /\ Served(asked[n], before)) \/ Adds(asked[n], before, some)
      BY <3>3, <3>4, OneStatement
    <3>6. BatchOutcome(asked, n - 1, before)
      BY <3>2, <3>5
    <3>7. BatchOutcome(asked, n, some)
      BY <3>1, <3>5, <3>6, StatementKeeps
    <3> QED BY <3>3, <3>7
  <2> QED BY <2>3, <2>4
<1>2. Good(Len(asked))
  BY <1>0, <1>1
<1> QED BY <1>2

(***************************************************************************)
(* The steps of the agenda.                                                *)
(***************************************************************************)
\* Days, rooms and lengths: each edit leaves alone what some placement rests on.
LEMMA GroundKeepsAgenda ==
    ASSUME AgendaSound,
           \/ \E window \in Window, number \in Day : CreateDay(number, window)
           \/ \E window \in Window, d \in days : EditDay(d, window)
           \/ \E r \in Room : CreateRoom(r)
           \/ \E s \in Session, n \in Length : EditLength(s, n)
    PROVE  AgendaSound'
<1>1. AgendaTypeOK /\ Schedule(placements)
  BY DEF AgendaSound, AgendaTypeOK, Schedule
<1>2. UNCHANGED <<vars, placements, publication, public>>
  BY DEF CreateDay, EditDay, CreateRoom, EditLength
<1>3. TypeOK'
  BY <1>1, <1>2, TypeNext DEF AgendaTypeOK
<1>4. AgendaTypeOK'
  <2>1. UNCHANGED accepted
    BY <1>2 DEF vars
  <2>2. days' \subseteq DayRow
    BY <1>1 DEF AgendaTypeOK, DayRow, CreateDay, EditDay, CreateRoom, EditLength
  <2>3. rooms' \subseteq Room
    BY <1>1 DEF AgendaTypeOK, CreateDay, EditDay, CreateRoom, EditLength
  <2>4. length' \in [Session -> Length]
    BY <1>1 DEF AgendaTypeOK, CreateDay, EditDay, CreateRoom, EditLength
  <2> QED BY <1>1, <1>2, <1>3, <2>1, <2>2, <2>3, <2>4 DEF AgendaTypeOK
<1>5. Schedule(placements)'
  <2>1. PICK rows : rows = placements
    OBVIOUS
  <2>2. Schedule(rows) /\ placements' = rows /\ accepted \subseteq accepted'
    BY <1>1, <1>2, <2>1 DEF vars
  <2>3. rooms \subseteq rooms'
    BY DEF CreateDay, EditDay, CreateRoom, EditLength
  <2>4. \A row \in rows : length'[row.session] = length[row.session]
    BY <1>1, <2>1 DEF AgendaTypeOK, Placed, Placement, CreateDay, EditDay, CreateRoom, EditLength
  <2>5. \A row \in rows, d \in days : d.number = row.day => d \in days'
    BY <2>1 DEF CreateDay, EditDay, CreateRoom, EditLength
  <2> QED BY <2>2, <2>3, <2>4, <2>5, ScheduleFrame
<1>6. \A s \in Session : publication'[s] = "published" => Placed(s)'
  BY <1>2 DEF AgendaSound, Placed
<1> QED BY <1>4, <1>5, <1>6 DEF AgendaSound, Schedule

\* Placements: what a step makes of the rows is a schedule of its own, and no
\* published session loses its place.
LEMMA RowsKeepAgenda ==
    ASSUME AgendaSound, NEW rows, Schedule(rows), placements' = rows,
           UNCHANGED <<vars, days, rooms, length, public>>,
           publication' \in [Session -> {"private", "ready", "published"}],
           \A s \in Session : s \notin accepted => publication'[s] = "private",
           \A s \in Session : publication'[s] = "published" => \E row \in rows : row.session = s
    PROVE  AgendaSound'
<1>1. AgendaTypeOK
  BY DEF AgendaSound
<1>2. TypeOK'
  BY <1>1, TypeNext DEF AgendaTypeOK
<1>3. UNCHANGED accepted
  BY DEF vars
<1>4. Schedule(placements)'
  BY <1>3, ScheduleFrame
<1>5. rows \subseteq Placement
  BY DEF Schedule
<1>6. AgendaTypeOK'
  BY <1>1, <1>2, <1>3, <1>5 DEF AgendaTypeOK
<1>7. \A s \in Session : publication'[s] = "published" => Placed(s)'
  BY DEF Placed
<1> QED BY <1>4, <1>6, <1>7 DEF AgendaSound, Schedule

LEMMA PlacementsKeepAgenda ==
    ASSUME AgendaSound,
           \/ \E s \in Session : \E row \in Candidates(s) : CreatePlacement(row)
           \/ \E s \in Session : \E row \in Candidates(s), old \in placements : MovePlacement(old, row)
           \/ \E old \in placements : DeletePlacement(old)
           \/ \E asked \in Orders : AutoPlace(asked)
    PROVE  AgendaSound'
<1>1. AgendaTypeOK /\ Schedule(placements)
  BY DEF AgendaSound, AgendaTypeOK, Schedule
<1>2. /\ publication \in [Session -> {"private", "ready", "published"}]
      /\ \A s \in Session : s \notin accepted => publication[s] = "private"
  BY <1>1 DEF AgendaTypeOK
<1>3. \A s \in Session : publication[s] = "published" => \E row \in placements : row.session = s
  BY DEF AgendaSound, Placed
<1>4. ASSUME NEW s \in Session, NEW row \in Candidates(s), CreatePlacement(row)
      PROVE  AgendaSound'
  <2>1. row \in Placement
    BY <1>1, CandidatesTyped
  <2>2. Schedule(placements \union {row})
    BY <1>1, <1>4, <2>1, ScheduleGrows DEF CreatePlacement, MayCreate, Placed
  <2>3. PICK rows : rows = placements \union {row}
    OBVIOUS
  <2> QED BY <1>2, <1>3, <1>4, <2>2, <2>3, RowsKeepAgenda DEF CreatePlacement
<1>5. ASSUME NEW s \in Session, NEW row \in Candidates(s), NEW old \in placements,
             MovePlacement(old, row)
      PROVE  AgendaSound'
  <2>1. row \in Placement
    BY <1>1, CandidatesTyped
  <2>2. Schedule(placements \ {old})
    BY <1>1, ScheduleShrinks
  <2>3. \A other \in placements \ {old} : other.session # row.session
    BY <1>1, <1>5 DEF MovePlacement, MayMove, Schedule
  <2>4. PICK rows : rows = (placements \ {old}) \union {row}
    OBVIOUS
  <2>5. Schedule(rows)
    BY <1>5, <2>1, <2>2, <2>3, <2>4, ScheduleGrows DEF MovePlacement, MayMove
  <2> QED BY <1>2, <1>3, <1>5, <2>4, <2>5, RowsKeepAgenda DEF MovePlacement, MayMove
<1>6. ASSUME NEW old \in placements, DeletePlacement(old)
      PROVE  AgendaSound'
  <2>1. PICK rows : rows = placements \ {old}
    OBVIOUS
  <2>2. Schedule(rows)
    BY <1>1, <2>1, ScheduleShrinks
  <2>3. old.session \in Session
    BY <1>1 DEF AgendaTypeOK, Placement
  <2>4. /\ publication' \in [Session -> {"private", "ready", "published"}]
        /\ \A s \in Session : s # old.session => publication'[s] = publication[s]
        /\ publication'[old.session] # "published"
        /\ publication[old.session] = "private" => publication'[old.session] = "private"
    BY <1>2, <1>6, <2>3 DEF DeletePlacement
  <2>5. \A s \in Session : publication'[s] = "published" => \E row \in rows : row.session = s
    BY <1>3, <2>1, <2>4
  <2>6. \A s \in Session : s \notin accepted => publication'[s] = "private"
    BY <1>2, <2>4
  <2> QED BY <1>6, <2>1, <2>2, <2>4, <2>5, <2>6, RowsKeepAgenda DEF DeletePlacement
<1>7. ASSUME NEW asked \in Orders, AutoPlace(asked)
      PROVE  AgendaSound'
  <2>1. PICK rows : rows = placements'
    OBVIOUS
  <2>2. rows \in AfterStatements(asked)[Len(asked)]
    BY <1>7, <2>1 DEF AutoPlace
  <2>3. Schedule(rows) /\ placements \subseteq rows
    BY <2>2, BatchKeeps DEF BatchOutcome
  <2> QED BY <1>2, <1>3, <1>7, <2>1, <2>3, RowsKeepAgenda DEF AutoPlace
<1> QED BY <1>4, <1>5, <1>6, <1>7

LEMMA PublishKeepsAgenda ==
    ASSUME AgendaSound, Publish
    PROVE  AgendaSound'
<1>1. AgendaTypeOK /\ Schedule(placements)
  BY DEF AgendaSound, AgendaTypeOK, Schedule
<1>2. TypeOK' /\ UNCHANGED <<vars, accepted, days, rooms, length, placements>> /\ public' = TRUE
  BY <1>1, TypeNext DEF AgendaTypeOK, Publish, vars
<1>3. publication' = [s \in Session |-> IF Publishable(s) THEN "published" ELSE publication[s]]
  BY DEF Publish
<1>4. AgendaTypeOK'
  BY <1>1, <1>2, <1>3 DEF AgendaTypeOK, Publishable
<1>5. Schedule(placements)'
  <2>1. PICK rows : rows = placements
    OBVIOUS
  <2> QED BY <1>1, <1>2, <2>1, ScheduleFrame
<1>6. \A s \in Session : publication'[s] = "published" => Placed(s)'
  BY <1>2, <1>3 DEF Publishable, AgendaSound, Placed
<1> QED BY <1>4, <1>5, <1>6 DEF AgendaSound, Schedule

LEMMA AgendaSoundNext == AgendaSound /\ [AgendaNext]_programVars => AgendaSound'
<1> SUFFICES ASSUME AgendaSound, [AgendaNext]_programVars PROVE AgendaSound'
  OBVIOUS
<1>1. CASE AgendaStep
  <2>1. \/ \E window \in Window, number \in Day : CreateDay(number, window)
        \/ \E window \in Window, d \in days : EditDay(d, window)
        \/ \E r \in Room : CreateRoom(r)
        \/ \E s \in Session, n \in Length : EditLength(s, n)
        \/ \E s \in Session : \E row \in Candidates(s) : CreatePlacement(row)
        \/ \E s \in Session : \E row \in Candidates(s), old \in placements : MovePlacement(old, row)
        \/ \E old \in placements : DeletePlacement(old)
        \/ \E asked \in Orders : AutoPlace(asked)
        \/ Publish
    BY <1>1 DEF AgendaStep
  <2> QED BY <2>1, GroundKeepsAgenda, PlacementsKeepAgenda, PublishKeepsAgenda
<1>2. CASE [Next]_vars /\ UNCHANGED agendaVars
  BY <1>2, ApprovalKeepsAgenda
<1>3. CASE UNCHANGED programVars
  BY <1>3, <1>2 DEF programVars
<1> QED BY <1>1, <1>2, <1>3 DEF AgendaNext

\* No room holds two sessions at once, each placement lies in the window of its day
\* and lasts as long as its session, and what is published has a place.
THEOREM AgendaStaysSound == AgendaSpec => []AgendaSound
BY AgendaSoundInit, AgendaSoundNext, PTL DEF AgendaSpec

\* The agenda is a layer: whatever it does, the sessions and speakers below it
\* behave as ContentApproval says.
THEOREM AgendaKeepsApprovals == AgendaSpec => Spec
<1>1. AgendaInit => Init
  BY DEF AgendaInit
<1>2. [AgendaNext]_programVars => [Next]_vars
  <2> SUFFICES ASSUME [AgendaNext]_programVars PROVE [Next]_vars
    OBVIOUS
  <2>1. CASE AgendaStep
    <3>1. UNCHANGED vars
      BY <2>1 DEF AgendaStep, CreateDay, EditDay, CreateRoom, EditLength, CreatePlacement,
                  MovePlacement, DeletePlacement, AutoPlace, Publish
    <3> QED BY <3>1
  <2>2. CASE Next
    BY <2>2
  <2>3. CASE UNCHANGED programVars
    BY <2>3 DEF programVars
  <2> QED BY <2>1, <2>2, <2>3 DEF AgendaNext
<1> QED BY <1>1, <1>2, PTL DEF AgendaSpec, Spec

(***************************************************************************)
(* What an automatic placement leaves behind.                              *)
(***************************************************************************)
LEMMA AutoPlaceIsSound ==
    ASSUME AgendaSound, NEW asked \in Orders, AutoPlace(asked)
    PROVE  /\ \A a, b \in placements' : a # b /\ Clash(a, b) => {a, b} \subseteq placements
           /\ \A s \in accepted : s \in ToSet(asked) => Placed(s)' \/ Available(s, placements)' = {}
<1>1. PICK rows : rows = placements'
  OBVIOUS
<1>2. rows \in AfterStatements(asked)[Len(asked)]
  BY <1>1 DEF AutoPlace
<1>3. BatchOutcome(asked, Len(asked), rows)
  BY <1>2, BatchKeeps
<1>4. ASSUME NEW s \in accepted, s \in ToSet(asked)
      PROVE  Placed(s)' \/ Available(s, placements)' = {}
  <2>1. PICK i \in 1 .. Len(asked) : asked[i] = s
    BY <1>4, OrdersTyped DEF ToSet
  <2>2. (\E row \in rows : row.session = s) \/ Available(s, rows) = {}
    BY <1>3, <2>1 DEF BatchOutcome, Served
  <2>3. UNCHANGED <<days, rooms, length>>
    BY DEF AutoPlace
  <2>4. Candidates(s)' = Candidates(s)
    BY <2>3 DEF Candidates
  <2>5. \A row : Fits(row)' <=> Fits(row)
    BY <2>3 DEF Fits
  <2>6. Available(s, placements)' = Available(s, rows)
    BY <1>1, <2>4, <2>5 DEF Available, RoomFree
  <2> QED BY <1>1, <2>2, <2>6 DEF Placed
<1> QED BY <1>1, <1>3, <1>4 DEF BatchOutcome

\* An automatic placement makes no conflict, and what it leaves without a place has
\* none.
THEOREM AutoPlacementIsSound == AgendaSpec => AutoPlacementSound
<1>1. ASSUME AgendaSound
      PROVE  [/\ (\E a, b \in placements' : a # b /\ Clash(a, b) /\ ~({a, b} \subseteq placements)) =>
                     \A asked \in Orders : ~AutoPlace(asked)
              /\ \A s \in accepted : ~Placed(s)' /\ Available(s, placements)' # {} =>
                     \A asked \in Orders : s \in ToSet(asked) /\ AutoPlace(asked) =>
                         AutoPlaceResult(s) # "NO_AVAILABLE_SLOT"]_programVars
  BY <1>1, AutoPlaceIsSound
<1> QED BY <1>1, AgendaStaysSound, PTL DEF AutoPlacementSound

\* Drafts leave the program as it is.
LEMMA DraftsAreIgnored == AgendaSpec => ProgramIgnoresDrafts
<1>1. ASSUME \A row \in placements \union placements' :
                 publication[row.session] = "published" => row \in placements \intersect placements',
             \A s \in Session : Live(s)' = Live(s)
      PROVE  Program' = Program
  <2>1. {t \in Session : Live(t)}' = {t \in Session : Live(t)}
    BY <1>1
  <2>2. ASSUME NEW s \in Session, Live(s)
        PROVE  InConflict(s, {t \in Session : Live(t)})' <=> InConflict(s, {t \in Session : Live(t)})
    <3>1. \A row : row.session \in {t \in Session : Live(t)} => publication[row.session] = "published"
      BY DEF Live
    <3>2. PICK live : live = {t \in Session : Live(t)}
      OBVIOUS
    <3>3. \A row : row.session \in live => (row \in placements <=> row \in placements')
      BY <1>1, <3>1, <3>2
    <3>4. InConflict(s, live) <=>
              \E a, b \in placements : a.session = s /\ b.session \in live \ {s} /\ Clash(a, b)
      BY DEF InConflict
    <3>5. InConflict(s, live)' <=>
              \E a, b \in placements' : a.session = s /\ b.session \in live \ {s} /\ Clash(a, b)
      BY DEF InConflict
    <3>6. s \in live
      BY <2>2, <3>2
    <3>7. InConflict(s, live)' <=> InConflict(s, live)
      BY <3>3, <3>4, <3>5, <3>6
    <3>8. InConflict(s, {t \in Session : Live(t)})' <=> InConflict(s, live)'
      BY <2>1, <3>2 DEF InConflict
    <3> QED BY <3>2, <3>7, <3>8
  <2>3. ASSUME NEW s \in Session PROVE s \in Program' <=> s \in Program
    <3>1. Live(s)' = Live(s)
      BY <1>1
    <3>2. s \in Program <=> Live(s) /\ ~InConflict(s, {t \in Session : Live(t)})
      BY DEF Program
    <3>3. s \in Program' <=> Live(s)' /\ ~InConflict(s, {t \in Session : Live(t)})'
      BY DEF Program
    <3> QED BY <2>2, <3>1, <3>2, <3>3
  <2>4. Program \subseteq Session /\ Program' \subseteq Session
    BY DEF Program
  <2> QED BY <2>3, <2>4
<1> QED BY <1>1, PTL DEF ProgramIgnoresDrafts


(***************************************************************************)
(* The readings of the agenda.                                             *)
(***************************************************************************)
\* Nothing is asked of the speakers and their deliverables exactly when the gates of
\* the session are met.
LEMMA AskedForIsMissing ==
    ASSUME AgendaSound, NEW s \in accepted
    PROVE  /\ SpeakerBlockers(s) = {} <=> PresentersReady(s) /\ PrimaryPublic(s) /\ TasksClosed(s)
           /\ DeliverableBlockers(s) = {} <=> DeliverablesReady(s)
           /\ DeliverablesReady(s) <=> DeliverablesApproved(s)
<1>1. accepted \subseteq Session
  BY DEF AgendaSound, AgendaTypeOK, TypeOK
<1>2. DeliverablesReady(s) <=> DeliverablesApproved(s)
  BY DEF DeliverablesReady, DeliverablesApproved, Readiness
<1>3. PresentersReady(s) /\ PrimaryPublic(s) <=> \A p \in PresentersOf(s) : ~Missing(s, p)
  BY <1>1 DEF PresentersReady, PrimaryPublic, Missing, PresentersOf
<1>4. SpeakerBlockers(s) = {} <=> PresentersReady(s) /\ PrimaryPublic(s) /\ TasksClosed(s)
  <2> DEFINE blocking == {q \in PresentersOf(s) : Missing(s, q)}
             open == {t \in Task : t[1] = s /\ task[t] = "open"}
  <2>1. SpeakerBlockers(s) = {<<"speaker_profile_incomplete", p>> : p \in blocking}
                             \union {<<"speaker_tasks_incomplete", t[2]>> : t \in open}
    BY DEF SpeakerBlockers
  <2>2. blocking = {} <=> PresentersReady(s) /\ PrimaryPublic(s)
    BY <1>3
  <2>3. open = {} <=> TasksClosed(s)
    BY DEF TasksClosed
  <2> HIDE DEF blocking, open
  <2>4. {<<"speaker_profile_incomplete", p>> : p \in blocking} = {} <=> blocking = {}
    OBVIOUS
  <2>5. {<<"speaker_tasks_incomplete", t[2]>> : t \in open} = {} <=> open = {}
    OBVIOUS
  <2> QED BY <2>1, <2>2, <2>3, <2>4, <2>5
<1>5. DeliverableBlockers(s) = {} <=> DeliverablesReady(s)
  <2> DEFINE open == {q \in Needed(s) : request[q].latest # "approved"}
             blocker(q) == <<IF request[q].latest = "none" THEN "deliverable_missing"
                             ELSE "deliverable_unapproved", q>>
  <2>1. DeliverableBlockers(s) = {blocker(q) : q \in open}
    BY DEF DeliverableBlockers
  <2>2. open = {} <=> DeliverablesApproved(s)
    BY DEF DeliverablesApproved
  <2> HIDE DEF open, blocker
  <2>3. {blocker(q) : q \in open} = {} <=> open = {}
    OBVIOUS
  <2> QED BY <1>2, <2>1, <2>2, <2>3
<1> QED BY <1>2, <1>4, <1>5

\* The readiness page, the agenda's counts and the program are three readings of
\* the same rows.
LEMMA ReadingsAgree == AgendaSound => ViewsAgree
<1> SUFFICES ASSUME AgendaSound PROVE ViewsAgree
  OBVIOUS
<1>1. accepted \subseteq Session
  BY DEF AgendaSound, AgendaTypeOK, TypeOK
<1>2. \A s : DeliverablesReady(s) <=> DeliverablesApproved(s)
  BY DEF DeliverablesReady, DeliverablesApproved, Readiness
<1>3. ASSUME NEW s \in accepted
      PROVE  Blockers(s) = {} <=> s \in PublishedStage
  <2>2. SpeakerBlockers(s) = {} <=> PresentersReady(s) /\ PrimaryPublic(s) /\ TasksClosed(s)
    BY AskedForIsMissing
  <2>3. DeliverableBlockers(s) = {} <=> DeliverablesReady(s)
    BY AskedForIsMissing
  <2>4. ScheduleBlockers(s) = {} <=> s \in approved /\ Placed(s) /\ ConflictsOf(s) = {}
    <3> DEFINE unapproved == {s} \ approved
               homeless == {t \in {s} : ~Placed(t)}
               clashing == ConflictsOf(s)
    <3>1. ScheduleBlockers(s) = {<<"content_approval_pending", t>> : t \in unapproved}
                                \union {<<"session_unscheduled", t>> : t \in homeless}
                                \union {<<"speaker_conflict", t>> : t \in clashing}
      BY DEF ScheduleBlockers
    <3>2. unapproved = {} <=> s \in approved
      OBVIOUS
    <3>3. homeless = {} <=> Placed(s)
      OBVIOUS
    <3> HIDE DEF unapproved, homeless, clashing
    <3>4. {<<"content_approval_pending", t>> : t \in unapproved} = {} <=> unapproved = {}
      OBVIOUS
    <3>5. {<<"session_unscheduled", t>> : t \in homeless} = {} <=> homeless = {}
      OBVIOUS
    <3>6. {<<"speaker_conflict", t>> : t \in clashing} = {} <=> clashing = {}
      OBVIOUS
    <3>7. ScheduleBlockers(s) = {} <=> unapproved = {} /\ homeless = {} /\ clashing = {}
      BY <3>1, <3>4, <3>5, <3>6
    <3> QED BY <3>2, <3>3, <3>7 DEF clashing
  <2>5. Blockers(s) = {} <=> /\ SpeakerBlockers(s) = {}
                             /\ DeliverableBlockers(s) = {}
                             /\ ScheduleBlockers(s) = {}
                             /\ PublishReady(s) => s \in PublishedStage
    <3> DEFINE pending == {t \in {s} : PublishReady(t) /\ t \notin PublishedStage}
    <3>1. Blockers(s) = SpeakerBlockers(s) \union DeliverableBlockers(s) \union ScheduleBlockers(s)
                        \union {<<"publication_pending", t>> : t \in pending}
      BY DEF Blockers
    <3>2. pending = {} <=> (PublishReady(s) => s \in PublishedStage)
      OBVIOUS
    <3> HIDE DEF pending
    <3>3. {<<"publication_pending", t>> : t \in pending} = {} <=> pending = {}
      OBVIOUS
    <3> QED BY <3>1, <3>2, <3>3
  <2>6. s \in PublishedStage => PublishReady(s)
    BY DEF PublishedStage
  <2> QED BY <2>2, <2>3, <2>4, <2>5, <2>6 DEF PublishReady
<1>4. ASSUME NEW s \in PublishedStage PROVE s \in Program
  <2>1. Live(s) /\ ConflictsOf(s) = {}
    BY <1>2 DEF PublishedStage, PublishReady, Live, Publishable, Gates
  <2>2. ~InConflict(s, {t \in Session : Live(t)})
    BY <2>1 DEF InConflict, ConflictsOf
  <2> QED BY <1>1, <2>1, <2>2 DEF Program, PublishedStage
<1>5. Program \subseteq AgendaPublic
  BY DEF Program, Live, Publishable, AgendaPublic
<1>6. ASSUME NoSpeakerConflict, NEW s \in AgendaPublic PROVE s \in PublishedStage
  <2>1. ConflictsOf(s) = {}
    BY <1>6 DEF NoSpeakerConflict, ConflictsOf
  <2> QED BY <1>2, <2>1 DEF AgendaPublic, PublishedStage, PublishReady, Gates
<1> QED BY <1>3, <1>4, <1>5, <1>6 DEF ViewsAgree

LEMMA PlacementOfPlaced ==
    ASSUME NEW s, Placed(s)
    PROVE  PlacementOf(s) \in placements /\ PlacementOf(s).session = s
BY DEF Placed, PlacementOf

\* No calendar has a speaker in two places, two sessions in a room, or an event
\* longer or shorter than its session.
LEMMA CalendarsAreTrue ==
    ASSUME AgendaSound, NEW s \in Program, NEW t \in Program
    PROVE  LET a == PlacementOf(s)
               b == PlacementOf(t)
           IN  /\ a.ends - a.starts = length[s]
               /\ s # t /\ Overlap(a, b) => a.room # b.room /\ ~SharePresenter(s, t)
<1> DEFINE a == PlacementOf(s)
           b == PlacementOf(t)
<1>1. Live(s) /\ Live(t) /\ Placed(s) /\ Placed(t)
  BY DEF Program, Live, Publishable
<1>2. a \in placements /\ a.session = s /\ b \in placements /\ b.session = t
  BY <1>1, PlacementOfPlaced
<1>3. Placeable(a, placements \ {a}) /\ a \in Placement
  BY <1>2 DEF AgendaSound, AgendaTypeOK
<1>4. a.ends = a.starts + length[s] /\ a.starts \in Nat /\ length[s] \in Nat
  BY <1>2, <1>3 DEF Placeable, Fits, Placement, AgendaSound, AgendaTypeOK
<1>5. a.ends - a.starts = length[s]
  <2> HIDE DEF a
  <2> QED BY <1>4
<1>6. ASSUME s # t, Overlap(a, b) PROVE a.room # b.room /\ ~SharePresenter(s, t)
  <2>1. b \in placements \ {a}
    BY <1>2, <1>6
  <2>2. b.room # a.room
    BY <1>3, <1>6, <2>1 DEF Placeable, RoomFree
  <2>3. ~Clash(a, b)
    BY <1>1, <1>2, <1>6 DEF Program, InConflict
  <2> QED BY <1>2, <1>6, <2>2, <2>3 DEF Clash
<1> QED BY <1>5, <1>6

\* Each accepted session is counted once.
LEMMA CountedOnce ==
    ASSUME AgendaSound, NEW s \in accepted
    PROVE  \E class \in Classes : \A other \in Classes : CountedAs(s, other) <=> other = class
<1>1. Readiness(s) = "ready" <=> DeliverablesApproved(s)
  BY DEF DeliverablesApproved, Readiness
<1>2. s \in AgendaPublic <=> /\ public /\ publication[s] = "published" /\ Placed(s) /\ s \in approved
                             /\ Readiness(s) = "ready" /\ TasksClosed(s) /\ PresentersReady(s) /\ PrimaryPublic(s)
  BY <1>1 DEF AgendaPublic, Gates
<1> DEFINE others == PresentersReady(s) /\ TasksClosed(s) /\ Readiness(s) = "ready"
           shown == public /\ publication[s] = "published"
<1>3. CountedAs(s, "unplaced") <=> ~Placed(s)
  BY DEF CountedAs
<1>4. CountedAs(s, "contentNotApproved") <=> Placed(s) /\ s \notin approved
  BY DEF CountedAs
<1>5. CountedAs(s, "primarySpeakerNotPublic") <=> Placed(s) /\ s \in approved /\ ~PrimaryPublic(s)
  BY DEF CountedAs
<1>6. CountedAs(s, "readinessBlocked") <=> Placed(s) /\ s \in approved /\ PrimaryPublic(s) /\ ~others
  BY DEF CountedAs
<1>7. CountedAs(s, "awaitingPublication") <=>
          Placed(s) /\ s \in approved /\ PrimaryPublic(s) /\ others /\ ~shown
  BY DEF CountedAs
<1>8. CountedAs(s, "public") <=>
          Placed(s) /\ s \in approved /\ PrimaryPublic(s) /\ others /\ shown
  BY <1>2 DEF CountedAs
<1> HIDE DEF others, shown
<1> QED BY <1>3, <1>4, <1>5, <1>6, <1>7, <1>8 DEF Classes

\* The agenda page lists a conflict exactly when publication is refused for one.
LEMMA ConflictsAreListed ==
    ASSUME AgendaSound
    PROVE  AgendaConflicts = {} <=> NoSpeakerConflict
<1>1. \A row \in placements : /\ row.session \in Session
                              /\ row.starts \in Nat /\ row.ends \in Nat
  BY DEF AgendaSound, AgendaTypeOK, Placement
<1>2. ASSUME NEW c \in AgendaConflicts PROVE ~NoSpeakerConflict
  <2>1. PICK a, b \in placements :
            /\ a # b
            /\ c[1] \in PresentersOf(a.session) \intersect PresentersOf(b.session)
            /\ a.starts <= b.starts /\ b.starts < a.ends
    BY <1>2 DEF AgendaConflicts
  <2>2. a.starts < b.ends
    <3>1. b.ends = b.starts + length[b.session] /\ length[b.session] \in Nat \ {0}
      BY <1>1 DEF AgendaSound, AgendaTypeOK, Placeable, Fits
    <3> QED BY <1>1, <2>1, <3>1
  <2> QED BY <2>1, <2>2 DEF NoSpeakerConflict, Clash, SharePresenter, Overlap
<1>3. ASSUME ~NoSpeakerConflict PROVE AgendaConflicts # {}
  <2>1. PICK a, b \in placements : a # b /\ Clash(a, b)
    BY <1>3 DEF NoSpeakerConflict
  <2>2. PICK p \in Speaker : p \in PresentersOf(a.session) \intersect PresentersOf(b.session)
    BY <2>1 DEF Clash, SharePresenter, PresentersOf
  <2>3. /\ <<p, {a.session, b.session}>> \in Speaker \X SUBSET Session
        /\ <<p, {a.session, b.session}>>[1] = p
        /\ <<p, {a.session, b.session}>>[2] = {a.session, b.session}
    BY <1>1
  <2>4. {b.session, a.session} = {a.session, b.session}
    OBVIOUS
  <2>5. CASE a.starts <= b.starts
    <3>1. <<p, {a.session, b.session}>> \in AgendaConflicts
      BY <2>1, <2>2, <2>3, <2>5 DEF AgendaConflicts, Clash, Overlap
    <3> QED BY <3>1
  <2>6. CASE b.starts <= a.starts
    <3>1. <<p, {a.session, b.session}>> \in AgendaConflicts
      BY <2>1, <2>2, <2>3, <2>4, <2>6 DEF AgendaConflicts, Clash, Overlap
    <3> QED BY <3>1
  <2> QED BY <1>1, <2>5, <2>6
<1> QED BY <1>2, <1>3

\* Whoever looks, and wherever, sees the same program.
LEMMA PagesTellOneStory == AgendaSpec => []PublicPagesAgree
<1>1. AgendaSound => PublicPagesAgree
  <2> SUFFICES ASSUME AgendaSound PROVE PublicPagesAgree
    OBVIOUS
  <2>1. ViewsAgree
    BY ReadingsAgree
  <2>2. ASSUME NEW filter \in SUBSET Room
        PROVE  LET page == getPublicProgram(filter)
               IN  /\ page.sessions \subseteq getPublicProgram({}).sessions
                   /\ \A s \in page.sessions : Primary[s] \in page.speakersOf[s]
                   /\ \A p \in page.speakers : PublicHeadshot(p)
                   /\ ~SESSIONS_CHANGED(page.sessions)
    <3> DEFINE selected == {s \in Program : sessionMatchesFilters(s, filter)}
    <3>1. /\ getPublicProgram(filter).sessions = selected
          /\ getPublicProgram(filter).speakersOf = [s \in selected |-> PublicPresenters(s)]
          /\ getPublicProgram(filter).speakers = UNION {PublicPresenters(s) : s \in selected}
      BY DEF getPublicProgram
    <3>2. getPublicProgram({}).sessions = Program
      BY DEF getPublicProgram, sessionMatchesFilters
    <3>3. ASSUME NEW s \in selected
          PROVE  Primary[s] \in PublicPresenters(s) /\ public
      BY DEF Program, Live, Publishable, Gates, PrimaryPublic, PublicPresenters, PresentersOf
    <3>4. \A p \in UNION {PublicPresenters(s) : s \in selected} : PublicHeadshot(p)
      BY <3>3 DEF PublicHeadshot, PublicPresenters
    <3> QED BY <3>1, <3>2, <3>3, <3>4 DEF SESSIONS_CHANGED
  <2>3. ASSUME NEW e \in serializeICalendar(getPublicEmbed([enabled |-> TRUE, filter |-> {}])),
               NEW f \in serializeICalendar(getPublicEmbed([enabled |-> TRUE, filter |-> {}]))
        PROVE  /\ e.ends - e.starts = length[e.session]
               /\ e # f /\ Overlap(e, f) => /\ e.location # f.location
                                            /\ ~SharePresenter(e.session, f.session)
    <3>1. getPublicEmbed([enabled |-> TRUE, filter |-> {}]) \subseteq Program
      BY DEF getPublicEmbed, getPublicProgram
    <3>2. PICK s \in Program : e = [session |-> s, starts |-> PlacementOf(s).starts,
                                    ends |-> PlacementOf(s).ends, location |-> PlacementOf(s).room]
      BY <3>1 DEF serializeICalendar
    <3>3. PICK t \in Program : f = [session |-> t, starts |-> PlacementOf(t).starts,
                                    ends |-> PlacementOf(t).ends, location |-> PlacementOf(t).room]
      BY <3>1 DEF serializeICalendar
    <3>4. e # f => s # t
      BY <3>2, <3>3
    <3>5. Overlap(e, f) <=> Overlap(PlacementOf(s), PlacementOf(t))
      BY <3>2, <3>3 DEF Overlap
    <3> QED BY <3>2, <3>3, <3>4, <3>5, CalendarsAreTrue
  <2> QED BY <2>1, <2>2, <2>3, CountedOnce, ConflictsAreListed DEF PublicPagesAgree
<1> QED BY <1>1, AgendaStaysSound, PTL


(***************************************************************************)
(* What a browser makes of the program.                                    *)
(***************************************************************************)
\* Filtering in the browser what the server has filtered, or has not, shows the
\* same; and a visitor's own schedule is cut to what is public before its calendar
\* is asked for.
LEMMA BrowserIsTrue == AgendaSpec => []BrowserAgrees
<1>1. ASSUME NEW filter \in SUBSET Room
      PROVE  LET page == getPublicProgram(filter)
                 preview == ProgramSurface(getPublicProgram({}), filter)
             IN  /\ preview.sessions = page.sessions /\ preview.speakers = page.speakers
                 /\ ProgramSurface(page, filter) = preview
                 /\ public => preview.sessions = getPublicEmbed([enabled |-> TRUE, filter |-> filter])
                 /\ ~SESSIONS_CHANGED(loadPersonalSchedule(page.sessions \union unplaced))
  <2> DEFINE chosen == {s \in Program : sessionMatchesFilters(s, filter)}
             people == UNION {PublicPresenters(s) : s \in chosen}
             page == getPublicProgram(filter)
             whole == getPublicProgram({})
  <2>1. /\ page.sessions = chosen
        /\ page.speakersOf = [s \in chosen |-> PublicPresenters(s)]
        /\ page.speakers = people
    BY DEF getPublicProgram
  <2>2. /\ whole.sessions = Program
        /\ whole.speakersOf = [s \in Program |-> PublicPresenters(s)]
        /\ whole.speakers = UNION {PublicPresenters(s) : s \in Program}
    <3>1. {s \in Program : sessionMatchesFilters(s, {})} = Program
      BY DEF sessionMatchesFilters
    <3> QED BY <3>1 DEF getPublicProgram
  <2>3. \A s : matchesFixedFilters(s, filter) <=> sessionMatchesFilters(s, filter)
    BY DEF matchesFixedFilters, sessionMatchesFilters
  <2> HIDE DEF page, whole
  <2>4. ProgramSurface(page, filter) = [sessions |-> chosen, speakers |-> people]
    <3>1. {s \in page.sessions : matchesFixedFilters(s, filter)} = chosen
      BY <2>1, <2>3
    <3>2. {p \in page.speakers : \E s \in chosen : p \in page.speakersOf[s]} = people
      BY <2>1
    <3> QED BY <3>1, <3>2 DEF ProgramSurface
  <2>5. ProgramSurface(whole, filter) = [sessions |-> chosen, speakers |-> people]
    <3>1. {s \in whole.sessions : matchesFixedFilters(s, filter)} = chosen
      BY <2>2, <2>3
    <3>2. {p \in whole.speakers : \E s \in chosen : p \in whole.speakersOf[s]} = people
      BY <2>2
    <3> QED BY <3>1, <3>2 DEF ProgramSurface
  <2>6. public => getPublicEmbed([enabled |-> TRUE, filter |-> filter]) = chosen
    BY <2>1 DEF getPublicEmbed, page
  <2>7. ~SESSIONS_CHANGED(loadPersonalSchedule(page.sessions \union unplaced))
    BY DEF SESSIONS_CHANGED, loadPersonalSchedule
  <2> DEFINE shown == [sessions |-> chosen, speakers |-> people]
  <2>8. shown.sessions = chosen /\ shown.speakers = people
    OBVIOUS
  <2>9. /\ ProgramSurface(getPublicProgram(filter), filter) = shown
        /\ ProgramSurface(getPublicProgram({}), filter) = shown
        /\ getPublicProgram(filter).sessions = chosen
        /\ getPublicProgram(filter).speakers = people
        /\ ~SESSIONS_CHANGED(loadPersonalSchedule(getPublicProgram(filter).sessions \union unplaced))
    BY <2>1, <2>4, <2>5, <2>7 DEF page, whole
  <2> HIDE DEF chosen, people, shown
  <2> QED BY <2>6, <2>8, <2>9
<1>2. BrowserAgrees
  BY <1>1 DEF BrowserAgrees
<1> QED BY <1>2, PTL

(***************************************************************************)
(* The agenda board, the cockpit and what their buttons do.                *)
(***************************************************************************)
\* No step gives a day a second row: new days take the next number, edits keep it.
LEMMA OneRowPerDayNext == AgendaTypeOK /\ OneRowPerDay /\ [AgendaNext]_programVars => OneRowPerDay'
<1> SUFFICES ASSUME AgendaTypeOK, OneRowPerDay, [AgendaNext]_programVars PROVE OneRowPerDay'
  OBVIOUS
<1>1. \A d \in days : d.number \in Nat
  BY DEF AgendaTypeOK, DayRow, AgendaAssumption
<1>2. ASSUME NEW number \in Day, NEW window \in Window, CreateDay(number, window)
      PROVE  OneRowPerDay'
  <2>1. \A d \in days : d.number # number
    BY <1>1, <1>2 DEF CreateDay, AgendaAssumption
  <2>2. days' = days \union {[number |-> number, window |-> window]}
    BY <1>2 DEF CreateDay
  <2> QED BY <2>1, <2>2 DEF OneRowPerDay
<1>3. ASSUME NEW window \in Window, NEW d \in days, EditDay(d, window)
      PROVE  OneRowPerDay'
  <2>1. days' = (days \ {d}) \union {[number |-> d.number, window |-> window]}
    BY <1>3 DEF EditDay
  <2> QED BY <2>1 DEF OneRowPerDay
<1>4. CASE UNCHANGED days
  BY <1>4 DEF OneRowPerDay
<1>5. \/ \E window \in Window, number \in Day : CreateDay(number, window)
      \/ \E window \in Window, d \in days : EditDay(d, window)
      \/ UNCHANGED days
  BY DEF AgendaNext, AgendaStep, CreateRoom, EditLength, CreatePlacement, MovePlacement,
         DeletePlacement, AutoPlace, Publish, agendaVars, programVars
<1> QED BY <1>2, <1>3, <1>4, <1>5

LEMMA DaysAreTold == AgendaSpec => []OneRowPerDay
<1>1. AgendaInit => OneRowPerDay
  BY DEF AgendaInit, OneRowPerDay
<1>2. AgendaSound => AgendaTypeOK
  BY DEF AgendaSound
<1> QED BY <1>1, <1>2, OneRowPerDayNext, AgendaStaysSound, PTL DEF AgendaSpec

(***************************************************************************)
(* Division.                                                               *)
(***************************************************************************)
LEMMA Divides ==
    ASSUME NEW a \in Nat, NEW b \in Nat \ {0}
    PROVE  /\ a \div b \in Nat
           /\ a % b \in Nat
           /\ a = b * (a \div b) + (a % b)
           /\ a % b < b
<1>1. a \div b \in Nat
  OBVIOUS
<1>2. a % b \in Nat /\ a % b < b
  OBVIOUS
<1>3. a = b * (a \div b) + (a % b)
  OBVIOUS
<1> QED BY <1>1, <1>2, <1>3

\* What starts after something ends starts in a later row.
LEMMA RowsFollow ==
    ASSUME NEW b \in Nat \ {0}, NEW m \in Nat, NEW n \in Nat, NEW span \in Nat, NEW len \in Nat,
           b * span <= len + b - 1, b * n >= b * m + len
    PROVE  n > m + span - 1
<1> SUFFICES ASSUME n <= m + span - 1 PROVE FALSE
  OBVIOUS
<1>1. b * n <= b * (m + span - 1)
  BY Z3
<1>2. b * (m + span - 1) = b * m + b * span - b
  BY Z3
<1>3. b * n \in Nat /\ b * m \in Nat /\ b * span \in Nat /\ b * (m + span - 1) \in Int
  BY Z3
<1> QED BY <1>1, <1>2, <1>3, Z3

\* A window has a row for each start on its grid: the one a placement on the grid
\* starts in is among them.
LEMMA RowOnTheBoard ==
    ASSUME NEW window \in Window, NEW row \in Nat,
           window.opens + window.slot * row <= window.closes
    PROVE  row \in 0 .. Cardinality(slotStarts(window, 0)) - 1
<1> DEFINE starts == slotStarts(window, 0)
           opens == window.opens
           slot == window.slot
           start == [n \in 0 .. row |-> opens + slot * n]
<1>1. opens \in Nat /\ window.closes \in Nat /\ slot \in Nat \ {0}
  OBVIOUS
<1>2. IsFiniteSet(starts) /\ Cardinality(starts) \in Nat
  <2>1. starts \in SUBSET (opens .. window.closes)
    BY DEF slotStarts
  <2>2. opens \in Int /\ window.closes \in Int
    BY <1>1
  <2> HIDE DEF starts, opens
  <2>3. IsFiniteSet(opens .. window.closes)
    BY <2>2, FS_Interval
  <2>4. IsFiniteSet(starts)
    BY <2>1, <2>3, FS_Subset
  <2> QED BY <2>4, FS_CardinalityType
<1>3. ASSUME NEW n \in 0 .. row PROVE opens + slot * n \in starts
  <2> DEFINE t == opens + slot * n
  <2>0. slot * n \in Nat /\ slot * row \in Nat /\ slot * n <= slot * row
    BY <1>1
  <2>1. t \in opens .. window.closes
    BY <1>1, <2>0
  <2>2. t - opens = slot * n
    BY <1>1, <2>0
  <2>3. (slot * n) % slot = 0
    BY <1>1
  <2>4. t + 0 <= window.closes
    BY <1>1, <2>1
  <2> QED BY <2>1, <2>2, <2>3, <2>4 DEF slotStarts
<1>4. ASSUME NEW m \in 0 .. row, NEW n \in 0 .. row, opens + slot * m = opens + slot * n
      PROVE  m = n
  <2>1. slot * m \in Nat /\ slot * n \in Nat
    BY <1>1
  <2>2. slot * m = slot * n
    BY <1>1, <1>4, <2>1
  <2> QED BY <1>1, <2>2
<1> HIDE DEF starts, opens, slot
<1>5. start \in Injection(0 .. row, starts)
  BY <1>3, <1>4 DEF Injection, IsInjective
<1> HIDE DEF start
<1>6. Cardinality(0 .. row) <= Cardinality(starts)
  BY <1>2, <1>5, FS_Injection
<1>7. Cardinality(0 .. row) = row + 1
  BY FS_Interval
<1> QED BY <1>2, <1>6, <1>7 DEF starts

\* The board draws a placement in the rows from its start to its end, and finds them.
LEMMA RowIsDrawn ==
    ASSUME AgendaSound, OneRowPerDay, NEW row \in placements, NEW d \in days, d.number = row.day
    PROVE  \E first \in Nat, span \in Nat \ {0} :
              /\ row.starts = d.window.opens + d.window.slot * first
              /\ d.window.slot * span <= length[row.session] + d.window.slot - 1
              /\ AgendaBoard(row) = [drawn |-> {<<row.day, row.room, n>> : n \in first .. first + span - 1},
                                     offGrid |-> FALSE]
<1> DEFINE window == d.window
           slot == d.window.slot
           offset == row.starts - d.window.opens
           first == offset \div slot
           len == length[row.session]
           span == (len + slot - 1) \div slot
<1>1. window \in Window /\ window.opens \in Nat /\ window.closes \in Nat /\ slot \in Nat \ {0}
  BY DEF AgendaSound, AgendaTypeOK, DayRow
<1>2. row.starts \in Nat /\ row.ends \in Nat /\ row.session \in Session /\ len \in Nat \ {0}
  BY DEF AgendaSound, AgendaTypeOK, Placement
<1>3. PICK e \in days : /\ e.number = row.day
                        /\ e.window.opens <= row.starts
                        /\ row.ends <= e.window.closes
                        /\ (row.starts - e.window.opens) % e.window.slot = 0
  BY DEF AgendaSound, Placeable, Fits
<1>4. e = d /\ (CHOOSE other \in days : other.number = row.day) = d
  BY <1>3 DEF OneRowPerDay
<1>5. row.ends = row.starts + len
  BY DEF AgendaSound, Placeable, Fits
<1>6. offset \in Nat /\ offset % slot = 0 /\ row.starts = window.opens + offset
  BY <1>1, <1>2, <1>3, <1>4
<1> HIDE DEF offset, slot, len
<1>7. first \in Nat /\ offset = slot * first
  BY <1>1, <1>6, Divides
<1>8. len + slot - 1 \in Nat /\ len + slot - 1 >= slot
  BY <1>1, <1>2
<1>9. span \in Nat /\ slot * span <= len + slot - 1
  <2>1. /\ span \in Nat /\ (len + slot - 1) % slot \in Nat
        /\ len + slot - 1 = slot * span + ((len + slot - 1) % slot)
    BY <1>1, <1>8, Divides
  <2> QED BY <1>1, <1>2, <2>1
<1>10. span # 0
  <2>1. /\ (len + slot - 1) % slot < slot
        /\ len + slot - 1 = slot * span + ((len + slot - 1) % slot)
    BY <1>1, <1>8, Divides
  <2> QED BY <1>1, <1>8, <2>1
<1> HIDE DEF first, span
<1>11. row.starts = window.opens + slot * first
  BY <1>6, <1>7
<1>12. window.opens + slot * first <= window.closes
  BY <1>1, <1>2, <1>3, <1>4, <1>5, <1>11
<1>13. first \in 0 .. Cardinality(slotStarts(window, 0)) - 1
  BY <1>1, <1>7, <1>12, RowOnTheBoard DEF slot
<1>14. offset - (first * slot) = 0 /\ first * slot = slot * first
  BY <1>1, <1>6, <1>7
<1> DEFINE board == [drawn |-> {<<row.day, row.room, n>> : n \in first .. first + span - 1},
                     offGrid |-> FALSE]
<1>15. AgendaBoard(row) = board
  <2>1. 0 + len + slot - 1 = len + slot - 1
    BY <1>1, <1>2
  <2>2. (offset - (first * slot) # 0) = FALSE
    BY <1>14
  <2> QED BY <1>4, <1>13, <1>14, <2>1, <2>2 DEF AgendaBoard, first, offset, slot, len, span
<1> QED BY <1>7, <1>9, <1>10, <1>11, <1>15 DEF slot, len

\* The board shows each placement, and no two over each other.
LEMMA PlacementsAreDrawn ==
    ASSUME AgendaSound, OneRowPerDay, NEW row \in placements
    PROVE  AgendaBoard(row).drawn # {} /\ ~AgendaBoard(row).offGrid
<1>1. PICK d \in days : d.number = row.day
  BY DEF AgendaSound, Placeable, Fits
<1>2. PICK first \in Nat, span \in Nat \ {0} :
          AgendaBoard(row) = [drawn |-> {<<row.day, row.room, n>> : n \in first .. first + span - 1},
                              offGrid |-> FALSE]
  BY <1>1, RowIsDrawn
<1>3. first \in first .. first + span - 1
  OBVIOUS
<1>4. <<row.day, row.room, first>> \in AgendaBoard(row).drawn
  BY <1>2, <1>3
<1>5. AgendaBoard(row).offGrid = FALSE
  BY <1>2
<1>6. ~AgendaBoard(row).offGrid
  BY <1>5, Zenon
<1> QED BY <1>4, <1>6

LEMMA EarlierIsDrawnAbove ==
    ASSUME AgendaSound, OneRowPerDay, NEW a \in placements, NEW b \in placements,
           a.ends <= b.starts
    PROVE  AgendaBoard(a).drawn \intersect AgendaBoard(b).drawn = {}
<1> SUFFICES ASSUME NEW c \in AgendaBoard(a).drawn \intersect AgendaBoard(b).drawn
             PROVE  FALSE
  OBVIOUS
<1>1. PICK d \in days : d.number = a.day
  BY DEF AgendaSound, Placeable, Fits
<1>2. PICK first \in Nat, span \in Nat \ {0} :
          /\ a.starts = d.window.opens + d.window.slot * first
          /\ d.window.slot * span <= length[a.session] + d.window.slot - 1
          /\ AgendaBoard(a) = [drawn |-> {<<a.day, a.room, n>> : n \in first .. first + span - 1},
                               offGrid |-> FALSE]
  BY <1>1, RowIsDrawn
<1>3. PICK e \in days : e.number = b.day
  BY DEF AgendaSound, Placeable, Fits
<1>4. PICK second \in Nat, depth \in Nat \ {0} :
          /\ b.starts = e.window.opens + e.window.slot * second
          /\ e.window.slot * depth <= length[b.session] + e.window.slot - 1
          /\ AgendaBoard(b) = [drawn |-> {<<b.day, b.room, n>> : n \in second .. second + depth - 1},
                               offGrid |-> FALSE]
  BY <1>3, RowIsDrawn
<1>5. PICK m \in first .. first + span - 1 : c = <<a.day, a.room, m>>
  BY <1>2
<1>6. PICK n \in second .. second + depth - 1 : c = <<b.day, b.room, n>>
  BY <1>4
<1>7. a.day = b.day /\ m = n
  BY <1>5, <1>6
<1>8. d = e
  BY <1>1, <1>3, <1>7 DEF OneRowPerDay
<1> DEFINE slot == d.window.slot
           opens == d.window.opens
           len == length[a.session]
<1>9. slot \in Nat \ {0} /\ opens \in Nat
  BY DEF AgendaSound, AgendaTypeOK, DayRow
<1>10. a.ends = a.starts + len /\ len \in Nat /\ a.starts \in Nat /\ b.starts \in Nat
  BY DEF AgendaSound, AgendaTypeOK, Placement, Placeable, Fits
<1> HIDE DEF slot, opens, len
<1>11. a.starts = opens + slot * first /\ b.starts = opens + slot * second
  BY <1>2, <1>4, <1>8 DEF slot, opens
<1>12. slot * second >= slot * first + len
  <2>1. slot * second \in Nat /\ slot * first \in Nat
    BY <1>9
  <2> QED BY <1>9, <1>10, <1>11, <2>1
<1>13. slot * span <= len + slot - 1
  BY <1>2 DEF slot, len
<1>14. second > first + span - 1
  BY <1>9, <1>10, <1>12, <1>13, RowsFollow
<1> QED BY <1>7, <1>14

\* The dialog of a session offers the rows that fit a day.
LEMMA DialogFits ==
    ASSUME AgendaSound, NEW s \in accepted, NEW row \in Candidates(s)
    PROVE  row \in SessionPlacementDialog(s) <=> Fits(row)
<1>1. PICK e \in days, q \in rooms, u \in UNION {w.opens .. w.closes : w \in Window} :
          row = [session |-> s, day |-> e.number, room |-> q, starts |-> u, ends |-> u + length[s]]
  BY DEF Candidates
<1>2. row.session = s /\ row.day = e.number /\ row.room = q /\ row.starts = u /\ row.ends = u + length[s]
  BY <1>1
<1>3. s \in Session /\ length[s] \in Nat \ {0}
  BY DEF AgendaSound, AgendaTypeOK, TypeOK
<1>4. u \in Nat
  BY <1>2, <1>3, CandidatesTyped DEF AgendaSound, Placement
<1>5. ASSUME Fits(row) PROVE row \in SessionPlacementDialog(s)
  <2>1. PICK d \in days : /\ d.number = row.day
                          /\ d.window.opens <= row.starts
                          /\ row.ends <= d.window.closes
                          /\ (row.starts - d.window.opens) % d.window.slot = 0
    BY <1>5 DEF Fits
  <2>2. d.window.opens \in Nat /\ d.window.closes \in Nat
    BY DEF AgendaSound, AgendaTypeOK, DayRow
  <2>3. u \in slotStarts(d.window, length[s])
    BY <1>2, <1>3, <1>4, <2>1, <2>2 DEF slotStarts
  <2>4. row = [session |-> s, day |-> d.number, room |-> q, starts |-> u, ends |-> u + length[s]]
    BY <1>1, <1>2, <2>1
  <2> QED BY <2>3, <2>4 DEF SessionPlacementDialog
<1>6. ASSUME row \in SessionPlacementDialog(s) PROVE Fits(row)
  <2>1. PICK d \in days : \E r \in rooms, t \in slotStarts(d.window, length[s]) :
            row = [session |-> s, day |-> d.number, room |-> r, starts |-> t, ends |-> t + length[s]]
    BY <1>6 DEF SessionPlacementDialog
  <2>2. row.day = d.number /\ u \in slotStarts(d.window, length[s])
    BY <1>2, <2>1
  <2>3. d.window.opens \in Nat /\ d.window.closes \in Nat
    BY DEF AgendaSound, AgendaTypeOK, DayRow
  <2>4. d.window.opens <= u /\ u + length[s] <= d.window.closes /\ (u - d.window.opens) % d.window.slot = 0
    BY <2>2, <2>3 DEF slotStarts
  <2> QED BY <1>2, <2>2, <2>4 DEF Fits
<1> QED BY <1>5, <1>6

\* The server takes the rows that fit while the room is free.
LEMMA SavedWhenFree ==
    ASSUME AgendaSound, NEW s \in accepted, NEW row \in Candidates(s) \ placements
    PROVE  MaySave(row) <=> Fits(row) /\ RoomFree(row, {other \in placements : other.session # s})
<1>1. s \in Session
  BY DEF AgendaSound, AgendaTypeOK, TypeOK
<1>2. row.session = s
  BY <1>1, CandidatesTyped DEF AgendaSound
<1>3. row.room \in rooms
  BY DEF Candidates
<1>4. \A others : Placeable(row, others) <=> Fits(row) /\ RoomFree(row, others)
  BY <1>2, <1>3 DEF Placeable
<1>5. CASE Placed(s)
  <2>1. PlacementOf(s) \in placements /\ PlacementOf(s).session = s
    BY <1>5, PlacementOfPlaced
  <2>2. placements \ {PlacementOf(s)} = {other \in placements : other.session # s}
    BY <2>1 DEF AgendaSound
  <2>3. MayMove(PlacementOf(s), row) <=> Placeable(row, {other \in placements : other.session # s})
    BY <1>2, <2>1, <2>2 DEF MayMove
  <2> QED BY <1>2, <1>4, <1>5, <2>3 DEF MaySave
<1>6. CASE ~Placed(s)
  <2>1. placements = {other \in placements : other.session # s}
    BY <1>6 DEF Placed
  <2> QED BY <1>2, <1>4, <1>6, <2>1 DEF MaySave, MayCreate
<1> QED BY <1>5, <1>6

\* A dialog without a choice says that a room is to be added or that no day is long
\* enough.
LEMMA NoChoice ==
    ASSUME AgendaSound, NEW s \in accepted, SessionPlacementDialog(s) = {}
    PROVE  \/ SetupPanel # {} \/ FirstDaySetup
           \/ \A d \in days : length[s] > d.window.closes - d.window.opens
<1> SUFFICES ASSUME NEW d \in days, ~(length[s] > d.window.closes - d.window.opens), SetupPanel = {}
             PROVE  FALSE
  OBVIOUS
<1>1. PICK r \in rooms : TRUE
  BY DEF SetupPanel
<1>2. /\ d.window.opens \in Nat /\ d.window.closes \in Nat /\ d.window.slot \in Nat \ {0}
      /\ length[s] \in Nat \ {0}
  BY DEF AgendaSound, AgendaTypeOK, TypeOK, DayRow
<1>3. d.window.opens \in slotStarts(d.window, length[s])
  BY <1>2 DEF slotStarts
<1> DEFINE choice == [session |-> s, day |-> d.number, room |-> r, starts |-> d.window.opens,
                      ends |-> d.window.opens + length[s]]
<1>4. choice \in {[session |-> s, day |-> d.number, room |-> q, starts |-> t, ends |-> t + length[s]] :
                      q \in rooms, t \in slotStarts(d.window, length[s])}
  BY <1>1, <1>3
<1> HIDE DEF choice
<1> QED BY <1>4 DEF SessionPlacementDialog

LEMMA BoardShowsTheAgenda == AgendaSound /\ OneRowPerDay => BoardIsTrue
<1> SUFFICES ASSUME AgendaSound, OneRowPerDay PROVE BoardIsTrue
  OBVIOUS
<1>1. ASSUME NEW a \in placements, NEW b \in placements, a # b
      PROVE  AgendaBoard(a).drawn \intersect AgendaBoard(b).drawn = {}
  <2>1. ~Overlap(a, b) \/ a.room # b.room
    BY <1>1 DEF AgendaSound, Placeable, RoomFree
  <2>2. CASE a.room # b.room
    <3>1. PICK d \in days : d.number = a.day
      BY DEF AgendaSound, Placeable, Fits
    <3>2. \A c \in AgendaBoard(a).drawn : c[2] = a.room
      BY <3>1, RowIsDrawn
    <3>3. PICK e \in days : e.number = b.day
      BY DEF AgendaSound, Placeable, Fits
    <3>4. \A c \in AgendaBoard(b).drawn : c[2] = b.room
      BY <3>3, RowIsDrawn
    <3> QED BY <2>2, <3>2, <3>4
  <2>3. CASE ~Overlap(a, b)
    <3>1. a.starts \in Nat /\ a.ends \in Nat /\ b.starts \in Nat /\ b.ends \in Nat
      BY DEF AgendaSound, AgendaTypeOK, Placement
    <3>2. a.ends <= b.starts \/ b.ends <= a.starts
      BY <2>3, <3>1 DEF Overlap
    <3> QED BY <3>2, EarlierIsDrawnAbove
  <2> QED BY <2>1, <2>2, <2>3
<1>2. FirstDaySetup => placements = {} /\ Program = {}
  BY DEF FirstDaySetup, AgendaSound, Placeable, Fits, Program, Live, Publishable, Placed
<1> QED BY <1>1, <1>2, PlacementsAreDrawn, DialogFits, SavedWhenFree, NoChoice DEF BoardIsTrue

\* What waits for publication has met its gates.
LEMMA Waiting ==
    ASSUME NEW s \in accepted
    PROVE  CountedAs(s, "awaitingPublication") <=>
               Publishable(s) /\ ~(public /\ publication[s] = "published")
<1>1. Readiness(s) = "ready" <=> DeliverablesApproved(s)
  BY DEF DeliverablesApproved, Readiness
<1>2. CountedAs(s, "awaitingPublication") <=>
          /\ Placed(s) /\ s \in approved /\ PrimaryPublic(s) /\ PresentersReady(s)
          /\ TasksClosed(s) /\ Readiness(s) = "ready" /\ ~(public /\ publication[s] = "published")
  BY DEF CountedAs
<1> QED BY <1>1, <1>2 DEF Publishable, Gates

LEMMA WaitingNext ==
    ASSUME NEW s \in accepted'
    PROVE  CountedAs(s, "awaitingPublication")' =>
               Publishable(s)' /\ ~(public' /\ publication'[s] = "published")
<1>1. Readiness(s)' = "ready" <=> DeliverablesApproved(s)'
  BY DEF DeliverablesApproved, Readiness
<1>2. CountedAs(s, "awaitingPublication")' <=>
          /\ Placed(s)' /\ s \in approved' /\ PrimaryPublic(s)' /\ PresentersReady(s)'
          /\ TasksClosed(s)' /\ Readiness(s)' = "ready" /\ ~(public' /\ publication'[s] = "published")
  BY DEF CountedAs
<1> QED BY <1>1, <1>2 DEF Publishable, Gates

\* The kind of a blocker says what is missing.
LEMMA BlockersTell ==
    ASSUME NEW s \in accepted
    PROVE  /\ <<"content_approval_pending", s>> \in Blockers(s) => s \notin approved
           /\ <<"publication_pending", s>> \in Blockers(s) => PublishReady(s)
<1> DEFINE kinds == {"speaker_profile_incomplete", "speaker_tasks_incomplete", "deliverable_missing",
                     "deliverable_unapproved"}
<1>1. \A b \in SpeakerBlockers(s) \union DeliverableBlockers(s) : b[1] \in kinds
  BY DEF SpeakerBlockers, DeliverableBlockers
<1>2. \A b \in Blockers(s) :
          \/ b \in SpeakerBlockers(s) \union DeliverableBlockers(s)
          \/ b = <<"content_approval_pending", s>> /\ s \notin approved
          \/ b[1] \in {"session_unscheduled", "speaker_conflict"}
          \/ b = <<"publication_pending", s>> /\ PublishReady(s)
  BY DEF Blockers, ScheduleBlockers
<1>3. <<"content_approval_pending", s>>[1] = "content_approval_pending"
      /\ <<"publication_pending", s>>[1] = "publication_pending"
  OBVIOUS
<1> QED BY <1>1, <1>2, <1>3

LEMMA PendingIsPublishable ==
    ASSUME NEW s \in publicationPending
    PROVE  Publishable(s)
<1>1. s \in accepted /\ PublishReady(s)
  BY BlockersTell DEF publicationPending
<1> QED BY <1>1 DEF PublishReady, DeliverablesReady, Publishable, Gates

\* The counts of the header add up.
LEMMA CountsAddUp ==
    ASSUME AgendaSound
    PROVE  Cardinality(placedNotPublic) + Cardinality(AgendaPublic) = Cardinality(accepted \ unplaced)
<1> DEFINE hidden == {"contentNotApproved", "primarySpeakerNotPublic", "readinessBlocked",
                      "awaitingPublication"}
<1>1. \A s \in accepted : /\ CountedAs(s, "unplaced") <=> ~Placed(s)
                          /\ CountedAs(s, "public") <=> s \in AgendaPublic
  BY DEF CountedAs
<1>2. Classes = hidden \union {"unplaced", "public"}
  BY DEF Classes
<1>3. \A s \in accepted : s \in placedNotPublic <=> \E class \in hidden : CountedAs(s, class)
  BY DEF placedNotPublic
<1>4. placedNotPublic \subseteq accepted /\ AgendaPublic \subseteq accepted
  BY DEF placedNotPublic, AgendaPublic
<1>5. placedNotPublic \intersect AgendaPublic = {}
  BY <1>1, <1>2, <1>3, <1>4, CountedOnce
<1>6. placedNotPublic \union AgendaPublic = accepted \ unplaced
  <2>1. ASSUME NEW s \in accepted
        PROVE  s \in placedNotPublic \union AgendaPublic <=> s \notin unplaced
    BY <1>1, <1>2, <1>3, CountedOnce DEF unplaced
  <2> QED BY <1>4, <2>1
<1>7. accepted \in SUBSET Session
  BY DEF AgendaSound, AgendaTypeOK, TypeOK
<1>8. /\ IsFiniteSet(placedNotPublic) /\ IsFiniteSet(AgendaPublic)
      /\ Cardinality(placedNotPublic) \in Nat /\ Cardinality(AgendaPublic) \in Nat
  <2>1. IsFiniteSet(accepted)
    BY <1>7, FS_Subset
  <2>2. placedNotPublic \in SUBSET accepted /\ AgendaPublic \in SUBSET accepted
    BY <1>4
  <2> QED BY <2>1, <2>2, FS_Subset, FS_CardinalityType
<1>9. Cardinality(placedNotPublic \union AgendaPublic) =
          Cardinality(placedNotPublic) + Cardinality(AgendaPublic)
              - Cardinality(placedNotPublic \intersect AgendaPublic)
  BY <1>8, FS_Union
<1>10. Cardinality({}) = 0
  BY FS_EmptySet
<1>11. Cardinality(placedNotPublic \intersect AgendaPublic) = 0
  BY <1>5, <1>10
<1>12. Cardinality(placedNotPublic \union AgendaPublic) = Cardinality(accepted \ unplaced)
  BY <1>6
<1> QED BY <1>8, <1>9, <1>11, <1>12

LEMMA ButtonIsOffered == AgendaSound => PublishIsOffered
<1> SUFFICES ASSUME AgendaSound PROVE PublishIsOffered
  OBVIOUS
<1>1. MayPublish => AgendaWorkspace
  BY ConflictsAreListed DEF MayPublish, AgendaWorkspace, Publishable, unplaced
<1>2. AgendaWorkspace => NoSpeakerConflict
  BY ConflictsAreListed DEF AgendaWorkspace
<1>3. ASSUME NEW s \in awaitingPublication PROVE Publishable(s) /\ s \in Session
  BY Waiting DEF awaitingPublication, AgendaSound, AgendaTypeOK, TypeOK
<1> QED BY <1>1, <1>2, <1>3, CountsAddUp DEF PublishIsOffered, MayPublish

LEMMA CockpitLeads == AgendaSound => CockpitLeadsOn
<1> SUFFICES ASSUME AgendaSound PROVE CockpitLeadsOn
  OBVIOUS
<1>1. accepted \subseteq Session
  BY DEF AgendaSound, AgendaTypeOK, TypeOK
<1>2. ASSUME NEW s \in accepted, SpeakerBlockers(s) \union DeliverableBlockers(s) = {}
      PROVE  Gates(s)
  BY <1>2, AskedForIsMissing DEF Gates
<1>3. ASSUME NEW s \in accepted, <<"content_approval_pending", s>> \in Blockers(s)
      PROVE  MayApprove(s) \/ SpeakerBlockers(s) \union DeliverableBlockers(s) # {}
  BY <1>2, <1>3, BlockersTell DEF MayApprove
<1>4. ASSUME NEW s \in publicationPending, NoSpeakerConflict
      PROVE  AgendaWorkspace /\ MayPublish
  <2>1. MayPublish
    BY <1>1, <1>4, PendingIsPublishable DEF MayPublish, Publishable
  <2> QED BY <2>1, ButtonIsOffered DEF PublishIsOffered
<1>5. Cockpit = {} => accepted \subseteq Program
  BY ReadingsAgree DEF ViewsAgree, Cockpit
<1> QED BY <1>3, <1>4, <1>5 DEF CockpitLeadsOn


\* Pages, screens and handlers agree, after any steps of the agenda and of what it
\* rests on.
THEOREM AgendaScreensAreTrue == AgendaSpec => []AgendaScreensOffer
<1>1. AgendaSound /\ OneRowPerDay /\ PublicPagesAgree /\ BrowserAgrees => AgendaScreensOffer
  BY BoardShowsTheAgenda, ButtonIsOffered, CockpitLeads DEF AgendaScreensOffer
<1> QED BY <1>1, AgendaStaysSound, DaysAreTold, PagesTellOneStory, BrowserIsTrue, PTL

(***************************************************************************)
(* What the buttons do.                                                    *)
(***************************************************************************)
LEMMA PublishingShows ==
    ASSUME AgendaSound, Publish
    PROVE  awaitingPublication' = {} /\ publicationPending \subseteq Program'
<1>1. UNCHANGED <<vars, days, rooms, length, placements>> /\ public' = TRUE
  BY DEF Publish
<1>2. publication' = [s \in Session |-> IF Publishable(s) THEN "published" ELSE publication[s]]
  BY DEF Publish
<1>3. accepted \subseteq Session /\ accepted' = accepted
  BY <1>1 DEF AgendaSound, AgendaTypeOK, TypeOK, vars
<1>4. ASSUME NEW s PROVE Publishable(s)' <=> Publishable(s)
  <2>0. /\ accepted' = accepted /\ approved' = approved /\ confirmed' = confirmed
        /\ ready' = ready /\ signed' = signed /\ published' = published
        /\ task' = task /\ request' = request
    BY <1>1 DEF vars, speakerVars
  <2>1. Gates(s)' <=> Gates(s)
    <3>1. DeliverablesApproved(s)' <=> DeliverablesApproved(s)
      BY <2>0 DEF DeliverablesApproved, Needed
    <3>2. TasksClosed(s)' <=> TasksClosed(s)
      BY <2>0 DEF TasksClosed
    <3>3. PresentersReady(s)' <=> PresentersReady(s)
      BY <2>0 DEF PresentersReady, PresentersOf
    <3>4. PrimaryPublic(s)' <=> PrimaryPublic(s)
      BY <2>0 DEF PrimaryPublic
    <3> QED BY <3>1, <3>2, <3>3, <3>4 DEF Gates
  <2>2. Placed(s)' <=> Placed(s)
    BY <1>1 DEF Placed
  <2> QED BY <2>0, <2>1, <2>2 DEF Publishable
<1>5. ASSUME NEW s \in accepted', CountedAs(s, "awaitingPublication")' PROVE FALSE
  <2>1. Publishable(s)' /\ ~(public' /\ publication'[s] = "published")
    BY <1>5, WaitingNext
  <2> QED BY <1>1, <1>2, <1>3, <1>4, <2>1
<1>6. awaitingPublication' = {}
  BY <1>5 DEF awaitingPublication
<1>7. ASSUME NEW s \in publicationPending PROVE s \in Program'
  <2>1. Publishable(s) /\ s \in Session
    BY <1>3, PendingIsPublishable DEF publicationPending
  <2>2. Live(s)'
    BY <1>1, <1>2, <1>4, <2>1 DEF Live
  <2>3. \A a, b \in placements : a # b => ~Clash(a, b)
    BY DEF Publish, MayPublish, NoSpeakerConflict
  <2>4. ~InConflict(s, {t \in Session : Live(t)})'
    <3>1. InConflict(s, {t \in Session : Live(t)})' =>
              \E a, b \in placements' : a.session = s /\ b.session # s /\ Clash(a, b)
      BY DEF InConflict
    <3> QED BY <1>1, <2>3, <3>1
  <2> QED BY <2>1, <2>2, <2>4 DEF Program
<1> QED BY <1>6, <1>7

LEMMA AutoPlaceFillsUp ==
    ASSUME AgendaSound, autoPlace
    PROVE  \A s \in accepted : Placed(s)' \/ Available(s, placements)' = {}
<1>1. PICK asked \in SetToSeqs(unplaced) : AutoPlace(asked)
  BY DEF autoPlace
<1>2. unplaced \in SUBSET Session
  BY DEF unplaced, AgendaSound, AgendaTypeOK, TypeOK
<1>3. asked \in Orders
  BY <1>1, <1>2 DEF Orders
<1>4. unplaced \subseteq ToSet(asked)
  <2> DEFINE places == 1 .. Cardinality(unplaced)
  <2>1. IsFiniteSet(unplaced) /\ Cardinality(unplaced) \in Nat
    BY <1>2, FS_Subset, FS_CardinalityType
  <2>2. asked \in Injection(places, unplaced)
    BY <1>1 DEF SetToSeqs, Injection, IsInjective
  <2>3. Cardinality(places) = Cardinality(unplaced)
    BY <2>1, FS_Interval
  <2>4. asked \in Surjection(places, unplaced)
    BY <2>1, <2>2, <2>3, FS_Injection
  <2>5. asked \in [places -> unplaced] /\ \A s \in unplaced : \E i \in places : asked[i] = s
    BY <2>4 DEF Surjection
  <2> QED BY <2>5 DEF ToSet
<1>5. ASSUME NEW s \in accepted, s \notin unplaced PROVE Placed(s)'
  <2>1. PICK row \in placements : row.session = s
    BY <1>5 DEF unplaced, Placed
  <2>2. PICK rows : rows = placements'
    OBVIOUS
  <2>3. rows \in AfterStatements(asked)[Len(asked)]
    BY <1>1, <2>2 DEF AutoPlace
  <2>4. placements \subseteq rows
    BY <1>3, <2>3, BatchKeeps DEF BatchOutcome
  <2> QED BY <2>1, <2>2, <2>4 DEF Placed
<1>6. \A s \in accepted : s \in ToSet(asked) => Placed(s)' \/ Available(s, placements)' = {}
  BY <1>1, <1>3, AutoPlaceIsSound
<1> QED BY <1>4, <1>5, <1>6

\* The public program changes by what is published and by nothing else, and the
\* buttons put into it what the pages said they would.
THEOREM PublicationIsDecisive == AgendaSpec => PublicationDecides
<1>1. AgendaSound =>
          [/\ Publish => awaitingPublication' = {} /\ publicationPending \subseteq Program'
           /\ autoPlace => \A s \in accepted : Placed(s)' \/ Available(s, placements)' = {}]_programVars
  BY PublishingShows, AutoPlaceFillsUp
<1>2. AgendaSpec => ButtonsKeepTheirWord
  BY <1>1, AgendaStaysSound, PTL DEF ButtonsKeepTheirWord
<1> QED BY <1>2, DraftsAreIgnored DEF PublicationDecides
=============================================================================
