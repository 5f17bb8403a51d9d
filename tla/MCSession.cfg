\* One demo account and one to register; two functions of the page that wait, and a
\* registration and a synchronisation that overlap with them.
SPECIFICATION SessionSpec
CONSTANTS
    Names = {sam, nina}
    Demo = {sam}
    Registrations = {r1}
    Syncs = {s1}
    Mongo = TRUE
    None = None
    Tasks = {q1, q2}
SYMMETRY Symmetry
INVARIANTS TokenMeansStored RegisteredStaysKnown OneIdentity NobodyElseComesBack
