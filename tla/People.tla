------------------------------- MODULE People -------------------------------
(***************************************************************************)
(* Faces and people of one account (server/internal/files/faces.go, the     *)
(* detection handler in media/faces.go and httpapi/people.go).  A face is   *)
(* detected in a photo and belongs to a person, to nobody yet, or is        *)
(* dismissed.  A person's centroid is kept as the faces averaged in it, or  *)
(* as stale; which person a face resembles is left open, for the vectors    *)
(* are not modelled.  One detection model is configured.                    *)
(***************************************************************************)
EXTENDS Naturals, FiniteSets

CONSTANTS
  Photo, Person,
  FaceWorker,      \* workers that analyse photos
  FacesIn,         \* how many faces the detector finds in a photo, the same each time
  MaxAnalyses,     \* bound on the photos analysed
  MaxEdits,        \* bound on the user's corrections
  Disturbed        \* may corrections run during an analysis, or be cut short?

ASSUME PeopleAssumption == /\ FacesIn \in [Photo -> Nat] /\ MaxAnalyses \in Nat /\ MaxEdits \in Nat
                           /\ Disturbed \in BOOLEAN /\ "nobody" \notin Person

VARIABLES
  face,            \* faces: [person, dismissed] of the rows that exist
  people,          \* people: [named, centroid] of the rows that exist
  analysis,        \* the analyses in flight
  edit,            \* the reassignment in flight
  purged,          \* photos whose node is gone
  analyses, edits,
  wished           \* history: the faces whose last word from the user is "not a face"

peopleVars == <<face, people, analysis, edit, purged, analyses, edits, wished>>

FoundIn(ph) == {ph} \X (1..FacesIn[ph])
Face == UNION {FoundIn(ph) : ph \in Photo}
NoPerson == "nobody"
Stale == {}                  \* NULL centroid, face_count 0
NoWork == [at |-> "idle"]

FacesOf(p) == {f \in DOMAIN face : face[f].person = p}
Cached(p) == people[p].centroid # Stale
Exists(p) == p \in DOMAIN people

\* Placed: the row of f points to p; dismissed_at keeps its value.
Placed(f, p) == [face EXCEPT ![f].person = p]

\* invalidateCentroids
Invalidated(rows, ps) ==
  [p \in DOMAIN rows |-> IF p \in ps THEN [rows[p] EXCEPT !.centroid = Stale] ELSE rows[p]]

\* reapEmptyPeople
Reaped(rows, fs) == [p \in {q \in DOMAIN rows : \E f \in DOMAIN fs : fs[f].person = q} |-> rows[p]]

\* saveCentroid: an UPDATE, which finds no row when the person is gone.
Saved(rows, p, mean) ==
  IF p \in DOMAIN rows THEN [rows EXCEPT ![p].centroid = mean] ELSE rows

Quiet == Disturbed \/ (edit = NoWork /\ \A w \in FaceWorker : analysis[w] = NoWork)

-----------------------------------------------------------------------------
(***************************************************************************)
(* Analysis of a photo by a worker                                         *)
(***************************************************************************)

\* Mutant: re-detection starts every face anew.
LosesTombstones(ph) ==
  [f \in {g \in DOMAIN face : g[1] # ph} \cup FoundIn(ph) |->
     IF f[1] # ph THEN face[f] ELSE [person |-> NoPerson, dismissed |-> FALSE]]

\* The rows once photo ph was looked at: a seq dismissed before stays so.
Detected(ph) ==
  [f \in {g \in DOMAIN face : g[1] # ph} \cup FoundIn(ph) |->
     IF f[1] # ph THEN face[f]
     ELSE [person |-> NoPerson,
           dismissed |-> f \in DOMAIN face /\ face[f].dismissed]]

\* ReplaceFaces, its transaction: the detections of the photo are replaced and the
\* people they belonged to become stale.
ReplaceFaces(w, ph) ==
  /\ people' = Invalidated(people, {face[f].person : f \in {g \in DOMAIN face : g[1] = ph}})
  /\ face' = Detected(ph)
  /\ analysis' = [analysis EXCEPT ![w] = [at |-> "people"]]
  /\ UNCHANGED <<edit, purged, edits, wished>>

\* The job of a photo that still has content; a photo without faces is stored, too.
Handle(w, ph) ==
  /\ Quiet /\ analysis[w] = NoWork /\ ph \notin purged
  /\ analyses < MaxAnalyses /\ analyses' = analyses + 1
  /\ ReplaceFaces(w, ph)

\* personCentroids, the read: cached means are taken as they are, the others are to be
\* rebuilt.
PersonCentroids(w) ==
  /\ analysis[w].at = "people"
  /\ LET cached == {p \in DOMAIN people : Cached(p)}
     IN analysis' = [analysis EXCEPT ![w] =
          [at |-> "stale", clusters |-> [p \in cached |-> people[p].centroid],
           stale |-> DOMAIN people \ cached]]
  /\ UNCHANGED <<face, people, edit, purged, analyses, edits, wished>>

\* recomputeCentroid of one stale person, saved; a person with no face takes no part.
RecomputeCentroid(w, p) ==
  /\ analysis[w].at = "stale" /\ p \in analysis[w].stale
  /\ LET a == analysis[w]
         mean == FacesOf(p)
         with == [q \in DOMAIN a.clusters \cup {p} |-> IF q = p THEN mean ELSE a.clusters[q]]
     IN /\ analysis' = [analysis EXCEPT ![w] =
             [at |-> "stale", clusters |-> IF mean = {} THEN a.clusters ELSE with, stale |-> a.stale \ {p}]]
        /\ people' = IF mean = {} THEN people ELSE Saved(people, p, mean)
  /\ UNCHANGED <<face, edit, purged, analyses, edits, wished>>

\* Unclustered: what the pass takes up, neither placed nor dismissed.
Unclustered == {f \in DOMAIN face : face[f].person = NoPerson /\ ~face[f].dismissed}

ReadsUnclustered(w) ==
  /\ analysis[w].at = "stale" /\ analysis[w].stale = {}
  /\ analysis' = [analysis EXCEPT ![w] =
       [at |-> "claim", clusters |-> analysis[w].clusters, todo |-> Unclustered, touched |-> {}]]
  /\ UNCHANGED <<face, people, edit, purged, analyses, edits, wished>>

\* Joined: the pass's own picture once face f has joined person p.
Joined(a, f, p) ==
  [a EXCEPT !.todo = @ \ {f}, !.touched = @ \cup {p},
            !.clusters = [q \in DOMAIN a.clusters \cup {p} |->
                            (IF q \in DOMAIN a.clusters THEN a.clusters[q] ELSE {})
                            \cup (IF q = p THEN {f} ELSE {})]]

\* A face close enough to a known person joins it: an UPDATE by id alone, refused when
\* the person is gone (foreign key), which ends the pass.
JoinPerson(w, f, p) ==
  /\ analysis[w].at = "claim" /\ f \in analysis[w].todo /\ p \in DOMAIN analysis[w].clusters
  /\ IF f \in DOMAIN face /\ ~Exists(p)
     THEN analysis' = [analysis EXCEPT ![w] = NoWork] /\ UNCHANGED face
     ELSE /\ analysis' = [analysis EXCEPT ![w] = Joined(analysis[w], f, p)]
          /\ face' = IF f \in DOMAIN face THEN Placed(f, p) ELSE face
  /\ UNCHANGED <<people, edit, purged, analyses, edits, wished>>

\* A face close to nobody gets a new person, its centroid not yet saved; the person is
\* inserted even when the face is gone, which ends the pass.
NewPerson(w, f, p) ==
  /\ analysis[w].at = "claim" /\ f \in analysis[w].todo
  /\ ~Exists(p) /\ \A v \in FaceWorker : analysis[v].at \in {"claim", "save"} =>
                                             p \notin DOMAIN analysis[v].clusters
  /\ people' = [q \in DOMAIN people \cup {p} |->
                  IF q = p THEN [named |-> FALSE, centroid |-> Stale] ELSE people[q]]
  /\ IF f \in DOMAIN face
     THEN face' = Placed(f, p) /\ analysis' = [analysis EXCEPT ![w] = Joined(analysis[w], f, p)]
     ELSE analysis' = [analysis EXCEPT ![w] = NoWork] /\ UNCHANGED face
  /\ UNCHANGED <<edit, purged, analyses, edits, wished>>

ClaimsDone(w) ==
  /\ analysis[w].at = "claim" /\ analysis[w].todo = {}
  /\ analysis' = [analysis EXCEPT ![w].at = "save"]
  /\ UNCHANGED <<face, people, edit, purged, analyses, edits, wished>>

\* The centroids of the touched people are saved one by one; then the job is done.
SaveCentroid(w) ==
  /\ analysis[w].at = "save"
  /\ \/ \E p \in analysis[w].touched :
          /\ people' = Saved(people, p, analysis[w].clusters[p])
          /\ analysis' = [analysis EXCEPT ![w].touched = @ \ {p}]
     \/ /\ analysis[w].touched = {}
        /\ analysis' = [analysis EXCEPT ![w] = NoWork]
        /\ UNCHANGED people
  /\ UNCHANGED <<face, edit, purged, analyses, edits, wished>>

\* A statement of the pass fails, or its worker dies: what is written stays.
AnalysisFails(w) ==
  /\ analysis[w] # NoWork
  /\ analysis' = [analysis EXCEPT ![w] = NoWork]
  /\ UNCHANGED <<face, people, edit, purged, analyses, edits, wished>>

-----------------------------------------------------------------------------
(***************************************************************************)
(* The user's corrections                                                  *)
(***************************************************************************)
Edits == Quiet /\ edits < MaxEdits /\ edits' = edits + 1

NamePerson(p) ==
  /\ Exists(p)
  /\ people' = [people EXCEPT ![p].named = TRUE]
  /\ UNCHANGED <<face, analysis, edit, purged, analyses, wished>>

\* One transaction.
MergePeople(from, into) ==
  /\ from # into /\ Exists(from) /\ Exists(into)
  /\ face' = [f \in DOMAIN face |-> IF face[f].person = from THEN [face[f] EXCEPT !.person = into]
                                                             ELSE face[f]]
  /\ people' = Invalidated(Reaped([p \in DOMAIN people \ {from} |-> people[p]], face'), {into})
  /\ wished' = wished \ FacesOf(from)
  /\ UNCHANGED <<analysis, edit, purged, analyses>>

\* The faces are dismissed, then the row goes and ON DELETE SET NULL takes them out.
ForgetPerson(p) ==
  /\ Exists(p)
  /\ face' = [f \in DOMAIN face |-> IF face[f].person = p
                                    THEN [person |-> NoPerson, dismissed |-> TRUE] ELSE face[f]]
  /\ people' = [q \in DOMAIN people \ {p} |-> people[q]]
  /\ wished' = wished \cup FacesOf(p)
  /\ UNCHANGED <<analysis, edit, purged, analyses>>

\* The person the face leaves is read, the face is moved, both ends become stale, empty
\* people are reaped; to is NoPerson to dismiss.
ReassignFace(f, to) ==
  /\ edit = NoWork
  /\ f \in DOMAIN face /\ (to = NoPerson \/ Exists(to))
  /\ edit' = [at |-> "move", face |-> f, to |-> to, previous |-> face[f].person]
  /\ UNCHANGED <<face, people, analysis, purged, analyses, wished>>

MoveFace ==
  /\ edit.at = "move"
  /\ LET f == edit.face
         to == edit.to
     IN IF f \in DOMAIN face /\ (to = NoPerson \/ Exists(to))
        THEN /\ face' = [face EXCEPT ![f] = [person |-> to, dismissed |-> to = NoPerson]]
             /\ wished' = IF to = NoPerson THEN wished \cup {f} ELSE wished \ {f}
             /\ edit' = [edit EXCEPT !.at = "invalidate"]
        ELSE edit' = NoWork /\ UNCHANGED <<face, wished>>
  /\ UNCHANGED <<people, analysis, purged, analyses, edits>>

\* Mutant: only the person that gained the face becomes stale.
InvalidatesTarget ==
  /\ edit.at = "invalidate"
  /\ people' = Invalidated(people, {edit.to})
  /\ edit' = [edit EXCEPT !.at = "reap"]
  /\ UNCHANGED <<face, analysis, purged, analyses, edits, wished>>

InvalidateEnds ==
  /\ edit.at = "invalidate"
  /\ people' = Invalidated(people, {edit.previous, edit.to})
  /\ edit' = [edit EXCEPT !.at = "reap"]
  /\ UNCHANGED <<face, analysis, purged, analyses, edits, wished>>

ReapEmptyPeople ==
  /\ edit.at = "reap"
  /\ people' = Reaped(people, face)
  /\ edit' = NoWork
  /\ UNCHANGED <<face, analysis, purged, analyses, edits, wished>>

\* The request is cancelled between two of its statements; cancelled between the move
\* and the invalidation it leaves a face in the wrong mean.
EditFails ==
  /\ edit # NoWork /\ (Disturbed \/ edit.at # "invalidate")
  /\ edit' = NoWork
  /\ UNCHANGED <<face, people, analysis, purged, analyses, edits, wished>>

\* The requests.
handlePatchPerson(p) == Edits /\ NamePerson(p)
handleMergePeople(from, into) == Edits /\ MergePeople(from, into)
handleForgetPerson(p) == Edits /\ ForgetPerson(p)
handleReassignFace(f, to) == Edits /\ ReassignFace(f, to)

\* A photo is purged: its faces go with the node, the people they were in are not told.
PurgePhoto(ph) ==
  /\ Edits /\ ph \notin purged
  /\ purged' = purged \cup {ph}
  /\ face' = [f \in {g \in DOMAIN face : g[1] # ph} |-> face[f]]
  /\ wished' = {f \in wished : f[1] # ph}
  /\ UNCHANGED <<people, analysis, edit, analyses>>

-----------------------------------------------------------------------------
PeopleInit ==
  /\ face = << >> /\ people = << >>
  /\ analysis = [w \in FaceWorker |-> NoWork] /\ edit = NoWork
  /\ purged = {} /\ analyses = 0 /\ edits = 0 /\ wished = {}

AnalysisStep(w) ==
  \/ \E ph \in Photo : Handle(w, ph)
  \/ PersonCentroids(w)
  \/ \E p \in Person : RecomputeCentroid(w, p)
  \/ ReadsUnclustered(w)
  \/ \E f \in Face, p \in Person : JoinPerson(w, f, p) \/ NewPerson(w, f, p)
  \/ ClaimsDone(w) \/ SaveCentroid(w) \/ AnalysisFails(w)

UserStep ==
  \/ \E p \in Person : handlePatchPerson(p) \/ handleForgetPerson(p)
  \/ \E p, q \in Person : handleMergePeople(p, q)
  \/ \E f \in Face, p \in Person \cup {NoPerson} : handleReassignFace(f, p)
  \/ MoveFace \/ InvalidateEnds \/ ReapEmptyPeople \/ EditFails
  \/ \E ph \in Photo : PurgePhoto(ph)

PeopleNext == UserStep \/ \E w \in FaceWorker : AnalysisStep(w)

PeopleSpec == PeopleInit /\ [][PeopleNext]_peopleVars

-----------------------------------------------------------------------------
(***************************************************************************)
(* Properties                                                              *)
(***************************************************************************)

\* Rows of the right shape, and every face in a cluster points to a person that exists
\* (the foreign key of faces.person_id, which a merge, a reap or a forget must respect).
PeopleTypeOK ==
  /\ DOMAIN face \subseteq Face /\ DOMAIN people \subseteq Person
  /\ \A f \in DOMAIN face : /\ face[f].dismissed \in BOOLEAN
                            /\ face[f].person \in DOMAIN people \cup {NoPerson}
  /\ \A p \in DOMAIN people : /\ people[p].named \in BOOLEAN
                              /\ people[p].centroid \subseteq Face

\* A person's cached centroid averages no stranger: every face folded into it, while its
\* photo exists, is a face of that person.  Merges, reassignments, re-detection and
\* passes cut short either fold forward or mark the centroid stale (invalidateCentroids).
NoStranger ==
  \A p \in DOMAIN people : Cached(p) /\ edit = NoWork =>
    \A f \in people[p].centroid :
      \/ f[1] \in purged
      \/ f \in DOMAIN face /\ face[f].person = p

\* What the user said is not a face, or asked to forget, is in nobody's cluster until
\* the user places it: no clustering pass and no re-detection of the photo undoes it.
DismissalSticks ==
  \A f \in wished \cap DOMAIN face : edit = NoWork => face[f].person = NoPerson

\* What the user said of faces holds through every pass and analysis (files/faces.go).
CorrectionsHold == NoStranger /\ DismissalSticks

\* Not a property of the code: a person the user named and sees no photo of is gone.
\* Re-detection and purging empty a cluster and reap nothing.
EmptyReaped ==
  edit = NoWork /\ (\A w \in FaceWorker : analysis[w] = NoWork) =>
    \A p \in DOMAIN people : FacesOf(p) # {}

=============================================================================
