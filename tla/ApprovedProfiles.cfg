CONSTANTS
    s1 = s1
    s2 = s2
    p1 = p1
    p2 = p2
    q1 = q1
    release = release
    slides = slides
    Session = {s1, s2}
    Speaker = {p1, p2}
    Presenter <- MCPresenter
    Primary <- MCPrimary
    TaskKey = {release, slides}
    DefaultTask = {release}
    Release = release
    Addressed <- MCAddressed
    Drafting = {p2}
    Described = {p2}
    Request = {q1}
    SessionOf <- MCSessionOf

SPECIFICATION Spec

INVARIANT ApprovedProfilesComplete
