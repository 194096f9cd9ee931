CONSTANTS
    s1 = s1
    s2 = s2
    p1 = p1
    r1 = r1
    r2 = r2
    release = release
    Session = {s1, s2}
    Speaker = {p1}
    Presenter <- MCPresenter
    Primary <- MCPrimary
    TaskKey = {release}
    DefaultTask = {release}
    Release = release
    Addressed = {}
    Drafting = {p1}
    Described = {p1}
    Request = {}
    SessionOf <- MCSessionOf
    Day = {1}
    Room = {r1, r2}
    Window <- MCWindow
    Length = {1, 2}

SPECIFICATION AgendaSpec

SYMMETRY MCSymmetry

INVARIANTS
    AgendaSound
    AgendaScreensOffer

PROPERTIES
    AutoPlacementSound
    PublicationDecides
