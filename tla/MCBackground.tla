---------------------------- MODULE MCBackground ----------------------------
(***************************************************************************)
(* Small instances of what has to be done in the end without anybody        *)
(* waiting for it: serving what was moved to the cold tier, web push,       *)
(* metering, the variants of pictures and the vectors of documents, the     *)
(* transfers of a syncing device, what it declines, and the update of its   *)
(* client.  They share no state here, and a behaviour is about one of them. *)
(***************************************************************************)
EXTENDS TieredStore, Push, Billing, Media, Vectors, Delta, Update, Selective, TLC

VARIABLE duty

clientVars == <<deltaVars, updateVars, selectiveVars>>
serverVars == <<vars, pushVars, billVars, mediaVars, vectorVars>>
allVars == <<duty, serverVars, clientVars>>

\* Three chunks and one that is a whole small file; another user has c3 as well.
MCText == {<<"c1", "c2">>, <<"c1", "c3">>, <<"s">>}
MCSmall == {<<"s">>}

DutyInit ==
  /\ duty \in {"tier", "push", "billing", "media", "vectors", "delta", "update", "choice"}
  /\ Init /\ PushInit /\ BillInit /\ MediaInit /\ VectorInit /\ DeltaInit /\ UpdateInit
  /\ SelectiveInit
  /\ duty # "billing" => /\ stored = [x \in Owner |-> CHOOSE n \in Bytes : TRUE]
                         /\ planQuota = [p \in Plan |-> {}]
  /\ duty # "delta" => local = [u \in Uploader |-> <<"s">>]
  /\ duty # "update" => ~windows /\ ~AllowDowngrade /\ target = Dev
  /\ duty # "vectors" => rowOf = [d \in Document |-> NoRow]
  /\ head = [f \in Path |-> IF f \in Within THEN 2 ELSE 1]

NotTier == UNCHANGED <<duty, pushVars, billVars, mediaVars, vectorVars, clientVars>>
NotPush == UNCHANGED <<duty, vars, billVars, mediaVars, vectorVars, clientVars>>
NotBilling == UNCHANGED <<duty, vars, pushVars, mediaVars, vectorVars, clientVars>>
NotMedia == UNCHANGED <<duty, vars, pushVars, billVars, vectorVars, clientVars>>
NotVectors == UNCHANGED <<duty, vars, pushVars, billVars, mediaVars, clientVars>>
NotDelta == UNCHANGED <<duty, serverVars, updateVars, selectiveVars>>
NotUpdate == UNCHANGED <<duty, serverVars, deltaVars, selectiveVars>>
NotChoice == UNCHANGED <<duty, serverVars, deltaVars, updateVars>>

DutyNext ==
  \/ duty = "tier" /\ Next /\ NotTier
  \/ duty = "push" /\ PushNext /\ NotPush
  \/ duty = "billing" /\ BillNext /\ NotBilling
  \/ duty = "media" /\ MediaNext /\ NotMedia
  \/ duty = "vectors" /\ VectorNext /\ NotVectors
  \/ duty = "delta" /\ DeltaNext /\ NotDelta
  \/ duty = "update" /\ UpdateNext /\ NotUpdate
  \/ duty = "choice" /\ SelectiveNext /\ NotChoice

\* The fairness that the modules state, each in its own behaviours.
Fairness ==
  /\ \A r \in Reader : /\ WF_vars(duty = "tier" /\ ReadStep(r))
                       /\ WF_vars(duty = "tier" /\ rd[r].said \in Again /\ Ask(r))
  /\ \A k \in Key : /\ WF_vars(duty = "tier" /\ Promote(k))
                    /\ WF_vars(duty = "tier" /\ FsckRepair(k))
  /\ \A s \in Sweeper : WF_vars(duty = "tier" /\ SweepStep(s))
  /\ WF_vars(duty = "tier" /\ GcHot)
  /\ WF_vars(duty = "tier" /\ GcCold)
  /\ WF_vars(duty = "tier" /\ MarkHot)
  /\ \A n \in Notification : WF_pushVars(duty = "push" /\ Works(n))
  /\ \A w \in Meter : WF_billVars(duty = "billing" /\ Metering(w))
  /\ \A w \in MediaWorker : WF_mediaVars(duty = "media" /\ HandleMedia(w))
  /\ WF_mediaVars(duty = "media" /\ collectMediaVariants)
  /\ WF_vectorVars(duty = "vectors" /\ filling.run /\ Backfill)
  /\ \A u \in Uploader : /\ WF_deltaVars(duty = "delta" /\ Pushes(u) /\ Remembered)
                         /\ WF_deltaVars(duty = "delta" /\ Poll(u) /\ Remembered)
  /\ \A d \in Downloader : WF_deltaVars(duty = "delta" /\ Pulls(d) /\ Remembered)
  /\ SF_updateVars(duty = "update" /\ Updates("daemon"))
  /\ \A p \in Runner : WF_updateVars(duty = "update" /\ ~At(p, "idle") /\ Updates(p))
  /\ WF_selectiveVars(duty = "choice" /\ SyncPass)

DutySpec == DutyInit /\ [][DutyNext]_allVars /\ Fairness

\* The state of all seven has the shape that the schema and the loops give it; that of
\* the tiers is proved to.
DutyTypeOK ==
  /\ PushTypeOK /\ BillTypeOK /\ MediaTypeOK /\ VectorTypeOK
  /\ DeltaTypeOK /\ UpdateTypeOK /\ SelectiveTypeOK

\* What is announced is announced once and is final: a cursor to the devices
\* (push/notifier.go), a limit passed or a period closed to the webhook (meter.go).
AnnouncementsHold == AnnouncedOnce /\ AnnouncedOncePerLife /\ ClosedIsFinal

\* A row never stands without the bytes it names: of a blob in one of the tiers, of a
\* picture's variant, and of the chunks of a version that a device has committed.
BytesBehindRows == Durable /\ VariantsKept /\ CommitsStored

\* What is answered was true while it was asked: a download placed on a device was a
\* current version of its file, and a search misses nothing that was there throughout.
AnswersTrue == PlacedWasCurrent /\ FoundAll

\* What there is to announce is announced in the end: every device hears of the last
\* change (push/notifier.go), and every period is closed (jobs/billing/meter.go).
AnnouncementsMade == EveryoneTold /\ EveryPeriodCloses

\* What is derived from contents catches up with them: pictures get their variants, what
\* belongs to no content goes, and a backfill fills every row.
DerivedFollows == PictureComplete /\ DerivedReclaimed /\ BackfillEnds

\* What a device sets out to do ends: uploads, downloads, and forgetting what it declines.
SyncEnds == UploadCompletes /\ DownloadCompletes /\ DeclinedIsForgotten
=============================================================================
