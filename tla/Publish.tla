-------------------------------- MODULE Publish --------------------------------
(***************************************************************************)
(* CreateSusuViewController.addSusu: the chain of calls behind "add".      *)
(*                                                                         *)
(*   createASusu        writes the document, with a placeholder for the    *)
(*                      photo (Firestore, through the SDK's queue)         *)
(*   uploadPhoto        puts the photo into Cloud Storage and asks for its *)
(*                      URL                                                *)
(*   updateSuShareURL   writes the URL into the document, then closes the  *)
(*                      form                                               *)
(*                                                                         *)
(* Nothing disables the button while a chain is under way, the user may    *)
(* pick another photo or close the form meanwhile, and the app may be      *)
(* killed: the Firestore SDK's queue survives that, the handlers and the   *)
(* upload do not.  Writes of different taps touch different documents, so  *)
(* their order in the queue is left open.  A write may be applied, and     *)
(* applied again, before it is answered, as WriteQueue says.               *)
(***************************************************************************)
EXTENDS Integers, FiniteSets

CONSTANTS
  Photos,    \* pictures the user may pick
  MaxTaps    \* bound: taps of "add"

ASSUME MaxTapsAssumption == MaxTaps \in Nat

NoPhoto == "no photo"

ASSUME NoPhotoAssumption == NoPhoto \notin Photos

\* A tap, its chain of calls and its document have one number.
Taps == 1..MaxTaps

Stages == {"none",       \* not tapped yet
           "creating",   \* the document is queued
           "refused",    \* the document was refused
           "uploading",  \* the photo is on its way
           "asking",     \* the photo's URL is on its way
           "linking",    \* the URL is queued
           "linked",     \* the URL is in the document
           "failed",     \* an alert was shown
           "unseen",     \* an alert was due when the form was gone
           "unanswered", \* the upload ended without a word
           "cut"}        \* the app was killed before the end

VARIABLES
  complete,       \* the other fields have been filled in
  selectedImage,
  open,           \* the form is on the screen
  alive,          \* the app has not been killed
  tapped,         \* taps so far
  stage,          \* of each chain
  taken,          \* the photo each chain uploads
  documents,      \* suShare documents on the server
  bucket,         \* SuSharePhotos: the photo stored under each document's name
  imageURL        \* documents that lead to their photo

vars == <<complete, selectedImage, open, alive, tapped, stage, taken,
          documents, bucket, imageURL>>

formVars   == <<complete, selectedImage>>
screenVars == <<open, alive>>
chainVars  == <<tapped, taken>>
serverVars == <<documents, bucket, imageURL>>

TypeOK ==
  /\ complete \in BOOLEAN /\ open \in BOOLEAN /\ alive \in BOOLEAN
  /\ selectedImage \in Photos \cup {NoPhoto}
  /\ tapped \in 0..MaxTaps
  /\ stage \in [Taps -> Stages]
  /\ taken \in [Taps -> Photos \cup {NoPhoto}]
  /\ \A t \in 1..tapped : taken[t] \in Photos
  /\ documents \subseteq Taps
  /\ bucket \in [Taps -> Photos \cup {NoPhoto}]
  /\ imageURL \subseteq Taps

Init ==
  /\ complete = FALSE /\ selectedImage = NoPhoto
  /\ open = TRUE /\ alive = TRUE
  /\ tapped = 0
  /\ stage = [t \in Taps |-> "none"]
  /\ taken = [t \in Taps |-> NoPhoto]
  /\ documents = {}
  /\ bucket = [t \in Taps |-> NoPhoto]
  /\ imageURL = {}

Moves(t, to) == stage' = [stage EXCEPT ![t] = to]

\* showAlert, which a form that is gone cannot present.
ShowAlert(t) == Moves(t, IF open THEN "failed" ELSE "unseen")

-------------------------------------------------------------------------------
(* The user. *)

\* A required field is filled in or emptied.
Edit ==
  /\ open
  /\ complete' = ~complete
  /\ UNCHANGED <<selectedImage, screenVars, chainVars, stage, serverVars>>

PickPhoto(photo) ==
  /\ open
  /\ selectedImage' = photo
  /\ UNCHANGED <<complete, screenVars, chainVars, stage, serverVars>>

\* Mutant: the photo is not asked for.
AddWithoutPhoto ==
  /\ open /\ complete
  /\ tapped < MaxTaps
  /\ tapped' = tapped + 1
  /\ Moves(tapped', "creating")
  /\ taken' = [taken EXCEPT ![tapped'] = selectedImage]
  /\ UNCHANGED <<formVars, screenVars, serverVars>>

\* addSusu, up to the write of the document; a field that is missing shows an
\* alert instead.
AddSusu ==
  /\ open /\ complete /\ selectedImage # NoPhoto
  /\ tapped < MaxTaps
  /\ tapped' = tapped + 1
  /\ Moves(tapped', "creating")
  /\ taken' = [taken EXCEPT ![tapped'] = selectedImage]
  /\ UNCHANGED <<formVars, screenVars, serverVars>>

\* goBack or cancel: the form is gone, its chains go on.
GoBack ==
  /\ open
  /\ open' = FALSE
  /\ UNCHANGED <<formVars, alive, chainVars, stage, serverVars>>

\* The app is killed.
Kill ==
  /\ alive
  /\ alive' = FALSE /\ open' = FALSE
  /\ stage' = [t \in Taps |-> IF stage[t] \in {"uploading", "asking"} THEN "cut"
                                                                      ELSE stage[t]]
  /\ UNCHANGED <<formVars, chainVars, serverVars>>

-------------------------------------------------------------------------------
(* The document. *)

\* The server applies the write.
CreateApplied(t) ==
  /\ stage[t] = "creating"
  /\ documents' = documents \cup {t}
  /\ UNCHANGED <<formVars, screenVars, chainVars, stage, bucket, imageURL>>

\* Its answer: createASusu's handler goes on to the photo.
CreateStored(t) ==
  /\ stage[t] = "creating" /\ t \in documents
  /\ IF alive THEN Moves(t, "uploading") ELSE Moves(t, "cut")
  /\ UNCHANGED <<formVars, screenVars, chainVars, serverVars>>

\* The write is given up as refused; createASusu prints and does not call its completion.
CreateRefused(t) ==
  /\ stage[t] = "creating"
  /\ Moves(t, "refused")
  /\ UNCHANGED <<formVars, screenVars, chainVars, serverVars>>

-------------------------------------------------------------------------------
(* The photo. *)

\* Mutant: the photo is the one selected when the upload starts.
UploadSelected(t) ==
  /\ stage[t] = "uploading"
  /\ bucket' = [bucket EXCEPT ![t] = selectedImage]
  /\ UNCHANGED <<formVars, screenVars, chainVars, stage, documents, imageURL>>

\* Cloud Storage has the photo.
PhotoStored(t) ==
  /\ stage[t] = "uploading"
  /\ bucket' = [bucket EXCEPT ![t] = taken[t]]
  /\ UNCHANGED <<formVars, screenVars, chainVars, stage, documents, imageURL>>

\* The upload is answered; the URL is asked for.
Uploaded(t) ==
  /\ stage[t] = "uploading" /\ bucket[t] # NoPhoto
  /\ Moves(t, "asking")
  /\ UNCHANGED <<formVars, screenVars, chainVars, serverVars>>

\* Mutant: the URL is written while the photo is on its way.
LinkBeforeUpload(t) ==
  /\ stage[t] \in {"uploading", "asking"}
  /\ Moves(t, "linking")
  /\ UNCHANGED <<formVars, screenVars, chainVars, serverVars>>

\* downloadURL answers; updateSuShareURL queues the write.
UrlArrives(t) ==
  /\ stage[t] = "asking"
  /\ Moves(t, "linking")
  /\ UNCHANGED <<formVars, screenVars, chainVars, serverVars>>


\* "Error uploading photo", whether or not the photo is there.
UploadFails(t) ==
  /\ stage[t] \in {"uploading", "asking"}
  /\ ShowAlert(t)
  /\ UNCHANGED <<formVars, screenVars, chainVars, serverVars>>

\* The photo has no JPEG data, or Cloud Storage answers with neither an error nor
\* what it was asked for: uploadPhoto does not call its completion.
UploadUnanswered(t) ==
  /\ stage[t] \in {"uploading", "asking"}
  /\ Moves(t, "unanswered")
  /\ UNCHANGED <<formVars, screenVars, chainVars, serverVars>>

-------------------------------------------------------------------------------
(* The URL. *)

\* The server applies the write.
UrlApplied(t) ==
  /\ stage[t] = "linking"
  /\ imageURL' = imageURL \cup {t}
  /\ UNCHANGED <<formVars, screenVars, chainVars, stage, documents, bucket>>

\* Its answer: the form closes, though another chain may be under way.
UrlStored(t) ==
  /\ stage[t] = "linking" /\ t \in imageURL
  /\ Moves(t, "linked")
  /\ open' = FALSE
  /\ UNCHANGED <<formVars, alive, chainVars, serverVars>>

\* "failed to update item".
UrlRefused(t) ==
  /\ stage[t] = "linking"
  /\ ShowAlert(t)
  /\ UNCHANGED <<formVars, screenVars, chainVars, serverVars>>

-------------------------------------------------------------------------------

\* A call of chain t is answered.
Answered(t) ==
  \/ CreateStored(t) \/ CreateRefused(t)
  \/ Uploaded(t) \/ UrlArrives(t) \/ UploadFails(t)
  \/ UrlStored(t) \/ UrlRefused(t)

Next ==
  \/ Edit \/ AddSusu \/ GoBack \/ Kill
  \/ \E photo \in Photos : PickPhoto(photo)
  \/ \E t \in Taps :
       \/ CreateApplied(t) \/ PhotoStored(t) \/ UrlApplied(t)
       \/ UploadUnanswered(t) \/ Answered(t)

Spec == Init /\ [][Next]_vars

\* Firestore answers every write and Cloud Storage every call, if only with a
\* failure.  That an upload stays without an answer is possible, never certain.
FairSpec == Spec /\ \A t \in Taps : WF_vars(Answered(t))

-------------------------------------------------------------------------------
(* What holds. *)

\* The photo stored for a document is the one that was selected at its own tap,
\* whatever was picked and tapped since, and the document is there.
PhotoIsAsTapped ==
  \A t \in Taps :
    bucket[t] # NoPhoto => t \in documents /\ bucket[t] = taken[t]

\* A document never leads to a photo that is not there: refusals, lost answers
\* and kills leave documents without a photo, not with a dead address.
UrlLeadsToPhoto == \A t \in imageURL : t \in documents /\ bucket[t] # NoPhoto


===============================================================================
