----------------------------- MODULE PublishProofs -----------------------------
(***************************************************************************)
(* The safety properties of publishing a SuShare, for any photos and any   *)
(* number of taps.                                                         *)
(***************************************************************************)
EXTENDS Publish, TLAPS

\* Every state of the chains is well typed.
THEOREM TypeInvariant == Spec => []TypeOK
<1>1. Init => TypeOK
  <2> SUFFICES ASSUME Init PROVE TypeOK
    OBVIOUS
  <2>1. stage \in [Taps -> Stages]
    BY DEF Init, Stages
  <2>2. /\ taken \in [Taps -> Photos \cup {NoPhoto}]
        /\ bucket \in [Taps -> Photos \cup {NoPhoto}]
    BY DEF Init
  <2>3. tapped \in 0..MaxTaps
    BY MaxTapsAssumption DEF Init
  <2>4. \A t \in 1..tapped : taken[t] \in Photos
    BY DEF Init
  <2> QED
    BY <2>1, <2>2, <2>3, <2>4 DEF Init, TypeOK
<1>2. TypeOK /\ [Next]_vars => TypeOK'
  <2> SUFFICES ASSUME TypeOK, [Next]_vars PROVE TypeOK'
    OBVIOUS
  <2> USE MaxTapsAssumption
        DEF TypeOK, Stages, formVars, screenVars, chainVars, serverVars, Moves, ShowAlert
  <2>1. CASE Edit
    BY <2>1 DEF Edit
  <2>2. CASE AddSusu
    <3>1. \A t \in 1..tapped' : taken'[t] \in Photos
      BY <2>2 DEF AddSusu, Taps
    <3> QED
      BY <2>2, <3>1 DEF AddSusu, Taps
  <2>3. CASE GoBack
    BY <2>3 DEF GoBack
  <2>4. CASE Kill
    BY <2>4 DEF Kill
  <2>5. ASSUME NEW photo \in Photos, PickPhoto(photo) PROVE TypeOK'
    BY <2>5 DEF PickPhoto
  <2>6. ASSUME NEW t \in Taps, PhotoStored(t) PROVE TypeOK'
    BY <2>6 DEF PhotoStored
  <2>7. ASSUME NEW t \in Taps, CreateApplied(t) \/ CreateStored(t) \/ CreateRefused(t)
        PROVE  TypeOK'
    BY <2>7 DEF CreateApplied, CreateStored, CreateRefused
  <2>8. ASSUME NEW t \in Taps,
               Uploaded(t) \/ UrlArrives(t) \/ UploadFails(t) \/ UploadUnanswered(t)
        PROVE  TypeOK'
    BY <2>8 DEF Uploaded, UrlArrives, UploadFails, UploadUnanswered
  <2>9. ASSUME NEW t \in Taps, UrlApplied(t) \/ UrlStored(t) \/ UrlRefused(t)
        PROVE  TypeOK'
    BY <2>9 DEF UrlApplied, UrlStored, UrlRefused
  <2>10. CASE UNCHANGED vars
    BY <2>10 DEF vars
  <2> QED
    BY <2>1, <2>2, <2>3, <2>4, <2>5, <2>6, <2>7, <2>8, <2>9, <2>10
       DEF Next, Answered
<1> QED
  BY <1>1, <1>2, PTL DEF Spec

-------------------------------------------------------------------------------

\* What a stage says of the server: the photo follows its document, the URL
\* follows its photo, and a tap to come has left nothing.
StageInv ==
  \A t \in Taps :
    /\ stage[t] \in {"uploading", "asking", "linking"} => t \in documents
    /\ stage[t] \in {"asking", "linking"} => bucket[t] # NoPhoto
    /\ t > tapped => stage[t] = "none" /\ bucket[t] = NoPhoto

IInv == StageInv /\ PhotoIsAsTapped /\ UrlLeadsToPhoto

\* Each step keeps the stages and the server in agreement.
LEMMA IInvHolds == Spec => []IInv
<1>1. Init => IInv
  BY DEF Init, IInv, StageInv, PhotoIsAsTapped, UrlLeadsToPhoto
<1>2. TypeOK /\ IInv /\ [Next]_vars => IInv'
  <2> SUFFICES ASSUME TypeOK, IInv, [Next]_vars PROVE IInv'
    OBVIOUS
  <2> USE DEF TypeOK, IInv, StageInv, PhotoIsAsTapped, UrlLeadsToPhoto,
              formVars, screenVars, chainVars, serverVars, Moves, ShowAlert
  <2>1. CASE Edit
    BY <2>1 DEF Edit
  \* The new chain's number was not used before.
  <2>2. CASE AddSusu
    <3>1. tapped' \in Taps /\ tapped' = tapped + 1
      BY <2>2, MaxTapsAssumption DEF AddSusu, Taps
    <3>2. bucket[tapped'] = NoPhoto
      BY <3>1, MaxTapsAssumption DEF Taps
    <3>3. ASSUME NEW t \in Taps, t # tapped'
          PROVE  stage'[t] = stage[t] /\ taken'[t] = taken[t]
      BY <2>2, <3>3 DEF AddSusu
    <3>4. stage'[tapped'] = "creating"
      BY <2>2, <3>1 DEF AddSusu
    <3>5. StageInv'
      BY <2>2, <3>1, <3>2, <3>3, <3>4, MaxTapsAssumption DEF AddSusu, Taps
    <3>6. PhotoIsAsTapped'
      BY <2>2, <3>2, <3>3 DEF AddSusu
    <3>7. UrlLeadsToPhoto'
      BY <2>2 DEF AddSusu
    <3> QED
      BY <3>5, <3>6, <3>7
  <2>3. CASE GoBack
    BY <2>3 DEF GoBack
  <2>4. CASE Kill
    BY <2>4 DEF Kill
  <2>5. ASSUME NEW photo \in Photos, PickPhoto(photo) PROVE IInv'
    BY <2>5 DEF PickPhoto
  \* The photo that is stored is the one taken at the tap.
  <2>6. ASSUME NEW t \in Taps, PhotoStored(t) PROVE IInv'
    <3>1. t \in documents /\ ~(t > tapped)
      BY <2>6 DEF PhotoStored
    <3>2. t \in imageURL => taken[t] # NoPhoto
      BY DEF PhotoIsAsTapped, UrlLeadsToPhoto
    <3>3. /\ bucket'[t] = taken[t]
          /\ \A u \in Taps : u # t => bucket'[u] = bucket[u]
      BY <2>6 DEF PhotoStored
    <3>4. /\ stage' = stage /\ taken' = taken /\ documents' = documents
          /\ imageURL' = imageURL /\ tapped' = tapped
      BY <2>6 DEF PhotoStored
    <3>5. StageInv'
      BY <2>6, <3>1, <3>3, <3>4 DEF PhotoStored
    <3> QED
      BY <3>1, <3>2, <3>3, <3>4, <3>5
  <2>7. ASSUME NEW t \in Taps, CreateApplied(t) \/ CreateStored(t) \/ CreateRefused(t)
        PROVE  IInv'
    BY <2>7 DEF CreateApplied, CreateStored, CreateRefused
  <2>8. ASSUME NEW t \in Taps,
               Uploaded(t) \/ UrlArrives(t) \/ UploadFails(t) \/ UploadUnanswered(t)
        PROVE  IInv'
    BY <2>8 DEF Uploaded, UrlArrives, UploadFails, UploadUnanswered
  <2>9. ASSUME NEW t \in Taps, UrlApplied(t) \/ UrlStored(t) \/ UrlRefused(t)
        PROVE  IInv'
    BY <2>9 DEF UrlApplied, UrlStored, UrlRefused
  <2>10. CASE UNCHANGED vars
    BY <2>10 DEF vars
  <2> QED
    BY <2>1, <2>2, <2>3, <2>4, <2>5, <2>6, <2>7, <2>8, <2>9, <2>10
       DEF Next, Answered
<1> QED
  BY <1>1, <1>2, TypeInvariant, PTL DEF Spec

\* Whatever is picked and tapped while chains are under way, the photo stored for
\* a document is the one that was selected at its own tap.
THEOREM PhotosAreAsTapped == Spec => []PhotoIsAsTapped
  BY IInvHolds, PTL DEF IInv

\* Refusals, lost answers and kills never leave a document with the URL of a photo
\* that is not there.
THEOREM UrlsLeadToPhotos == Spec => []UrlLeadsToPhoto
  BY IInvHolds, PTL DEF IInv
===============================================================================
