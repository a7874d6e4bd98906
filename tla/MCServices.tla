----------------------------- MODULE MCServices -----------------------------
(***************************************************************************)
(* Small instances of what requests to the server do besides the tree       *)
(* itself: grants, public links, people, an album, the rate limiters and    *)
(* resumable uploads.  They share no state here but the tree of the first   *)
(* two, and a behaviour is about one of them.                               *)
(***************************************************************************)
EXTENDS Grants, Shares, People, Albums, RateLimit, Uploads, TLC

VARIABLE service

grantOnly == <<grants, asks, grantOps, could>>
shareOnly == <<link, visit, cookies, treeOps, opened, reach>>
allVars == <<service, node, grantOnly, shareOnly, peopleVars, albumVars, rateVars,
             uploadVars>>

\* The trees that sharing starts from: a folder with a file, two folders, a folder in
\* the trash, and a folder beside a file with the name of the one in it.
o == "owner"
g == "guest"
MCRootOf == o :> "root" @@ g :> "home"
Folder == Created(NewUsers, o, "n1", "root", "a", "folder")
OneFolder == Created(Folder, o, "n2", "n1", "b", "file")
TwoFolders == Created(Folder, o, "n2", "root", "b", "folder")
WasFolder == Trashed(OneFolder, o, "n1")
FolderAndFile == Created(OneFolder, o, "n3", "root", "b", "file")
MCStart == {OneFolder, TwoFolders, WasFolder, FolderAndFile}
MCRelPaths == {<<>>, <<"b">>, <<"..", "b">>}

MCFacesIn == "f1" :> 2 @@ "f2" :> 1

\* One or two files, with one of somebody else, one twice, and an order of all.
Lists == {<<"f1", "f2">>, <<"f3", "x1">>, <<"f2", "f1", "f2">>, <<"f3", "f2", "f1">>}

\* Nothing, another client's address, or no address at all.
Headers == {<<>>, <<"c2">>, <<"junk">>}
Bursts == "auth" :> 2 @@ "user" :> 1

Init ==
  /\ service \in {"grants", "links", "people", "album", "rate", "upload"}
  /\ GrantInit /\ ShareInit /\ PeopleInit /\ AlbumInit /\ RateInit /\ UploadInit
  /\ node = CASE service = "links" -> FolderAndFile
              [] service = "grants" -> node
              [] OTHER -> OneFolder
  /\ service # "rate" => limiter = "auth"
  /\ service # "upload" => timely

NotGrants == UNCHANGED <<service, shareOnly, peopleVars, albumVars, rateVars, uploadVars>>
NotLinks == UNCHANGED <<service, grantOnly, peopleVars, albumVars, rateVars, uploadVars>>
NotPeople == UNCHANGED <<service, node, grantOnly, shareOnly, albumVars, rateVars, uploadVars>>
NotAlbum == UNCHANGED <<service, node, grantOnly, shareOnly, peopleVars, rateVars, uploadVars>>
NotRate == UNCHANGED <<service, node, grantOnly, shareOnly, peopleVars, albumVars, uploadVars>>
NotUpload == UNCHANGED <<service, node, grantOnly, shareOnly, peopleVars, albumVars, rateVars>>

\* Where locks may lapse, a sweep meets one request at a time; two requests meet each
\* other there without one.
SweepMeetsOne ==
  timely \/ sweep.pc = "idle" \/ Cardinality({c \in Connection : work[c].pc # "idle"}) <= 1

Next ==
  \/ service = "grants" /\ GrantNext /\ NotGrants
  \/ service = "links" /\ ShareNext /\ NotLinks
  \/ service = "people" /\ PeopleNext /\ NotPeople
  \/ service = "album" /\ AlbumNext /\ NotAlbum
  \/ service = "rate" /\ RateNext /\ NotRate
  \/ service = "upload" /\ UploadNext /\ NotUpload /\ SweepMeetsOne'

Spec == Init /\ [][Next]_allVars

\* The state of all six has the shape that the schema and the handlers give it.
ServicesTypeOK ==
  GrantTypeOK /\ ShareTypeOK /\ PeopleTypeOK /\ AlbumTypeOK /\ RateTypeOK /\ UploadTypeOK
=============================================================================
