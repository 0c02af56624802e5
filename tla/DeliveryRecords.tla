-------------------------- MODULE DeliveryRecords --------------------------
(***************************************************************************)
(* What gathers around one delivery: its proof of delivery                 *)
(* (src/deliveries/proof), its rating (src/deliveries/rating), its         *)
(* workflow steps and handoff QR (src/workflows), and its owner's cached   *)
(* profile (src/users, src/cache).                                         *)
(*                                                                         *)
(* Every handler reads, awaits and writes.  A proof row is "auto" or       *)
(* "submitted"; its delivery is unique.  The profile is a version number;  *)
(* the cache may lapse or be unreachable at any time.  A QR carries the    *)
(* time it was minted; its signature is left out.                          *)
(***************************************************************************)
EXTENDS Naturals

CONSTANTS
  WorkflowSteps,
  QR_TTL,
  LastMinute,     \* bound: minutes
  MaxVersions     \* bound: profile updates

VARIABLES
  minute, handoff,   \* the clock; the delivery: "open", "DELIVERED" or "CANCELED"
  proof,             \* the proof row: "none", "auto" or "submitted"
  autoProof,         \* createAutoProof: "idle", "found none" or "done"
  submitting,        \* submitProof between its status check and its upsert
  rating, stepsDone, \* the rating row, the completed steps
  qr, scanned,       \* the minute a QR was minted; a scan that was accepted
  profile, profileCache, profileRead,  \* the user row, the cache, a getProfile between its read and its set
  invalidating       \* an updateProfile between its write and its cache del

recordVars == <<minute, handoff, proof, autoProof, submitting, rating, stepsDone, qr, scanned, profile, profileCache, profileRead, invalidating>>
proofVars == <<handoff, proof, autoProof, submitting, rating>>
qrVars == <<minute, stepsDone, qr, scanned>>
profileVars == <<profile, profileCache, profileRead, invalidating>>

Absent == 0    \* no minute, no version

RecordsTypeOK ==
  /\ minute \in 1..LastMinute /\ handoff \in {"open", "DELIVERED", "CANCELED"}
  /\ proof \in {"none", "auto", "submitted"} /\ autoProof \in {"idle", "missing", "done"}
  /\ submitting \in BOOLEAN /\ rating \in 0..5 /\ stepsDone \subseteq WorkflowSteps
  /\ qr \in 0..LastMinute /\ scanned \in BOOLEAN
  /\ profile \in 1..MaxVersions /\ profileCache \in 0..MaxVersions /\ profileRead \in 0..MaxVersions
  /\ invalidating \in BOOLEAN

RecordsInit ==
  /\ minute = 1 /\ handoff = "open" /\ proof = "none" /\ autoProof = "idle" /\ submitting = FALSE
  /\ rating = 0 /\ stepsDone = {} /\ qr = Absent /\ scanned = FALSE
  /\ profile = 1 /\ profileCache = Absent /\ profileRead = Absent /\ invalidating = FALSE

----------------------------------------------------------------------------
(* Proof and rating *)

\* The terminal compare-and-set of confirmHandoff, or of a cancel.
HandoffSettles(status) ==
  /\ handoff = "open"
  /\ handoff' = status
  /\ UNCHANGED <<proof, autoProof, submitting, rating, qrVars, profileVars>>

\* createAutoProof, after the handoff: the lookup ...
AutoProofReads ==
  /\ handoff = "DELIVERED" /\ autoProof = "idle"
  /\ autoProof' = IF proof = "none" THEN "missing" ELSE "done"
  /\ UNCHANGED <<handoff, proof, submitting, rating, qrVars, profileVars>>

\* ... and the insert, which a row that has appeared makes fail (swallowed).
AutoProofCreates_Upserts ==
  /\ autoProof = "missing"
  /\ proof' = "auto"
  /\ autoProof' = "done"
  /\ UNCHANGED <<handoff, submitting, rating, qrVars, profileVars>>
AutoProofCreates ==
  /\ autoProof = "missing"
  /\ proof' = IF proof = "none" THEN "auto" ELSE proof
  /\ autoProof' = "done"
  /\ UNCHANGED <<handoff, submitting, rating, qrVars, profileVars>>

\* Storage or the database fails: no placeholder.
AutoProofFails ==
  /\ autoProof = "missing"
  /\ autoProof' = "done"
  /\ UNCHANGED <<handoff, proof, submitting, rating, qrVars, profileVars>>

\* submitProof: only a DELIVERED delivery; then the photo is stored; then the
\* upsert.
SubmitProofReads ==
  /\ ~submitting /\ handoff = "DELIVERED"
  /\ submitting' = TRUE
  /\ UNCHANGED <<handoff, proof, autoProof, rating, qrVars, profileVars>>

SubmitProof ==
  /\ submitting
  /\ submitting' = FALSE /\ proof' = "submitted"
  /\ UNCHANGED <<handoff, autoProof, rating, qrVars, profileVars>>

\* rate: only a DELIVERED delivery; a second rating revises.
Rate(stars) ==
  /\ handoff = "DELIVERED"
  /\ rating' = stars
  /\ UNCHANGED <<handoff, proof, autoProof, submitting, qrVars, profileVars>>

----------------------------------------------------------------------------
(* Workflow *)

CompleteStep(s) ==
  /\ s \in WorkflowSteps
  /\ stepsDone' = stepsDone \cup {s}
  /\ UNCHANGED <<proofVars, minute, qr, scanned, profileVars>>

GenerateQrPayload ==
  /\ qr' = minute
  /\ UNCHANGED <<proofVars, minute, stepsDone, scanned, profileVars>>

\* validateQrPayload: expired when older than the ttl.
ValidateQrPayload ==
  /\ qr # Absent
  /\ scanned' = (minute - qr <= QR_TTL)
  /\ UNCHANGED <<proofVars, minute, stepsDone, qr, profileVars>>

MinutePasses ==
  /\ minute < LastMinute
  /\ minute' = minute + 1
  /\ UNCHANGED <<proofVars, stepsDone, qr, scanned, profileVars>>

----------------------------------------------------------------------------
(* Profile *)

\* getProfile: a hit answers; a miss reads the row and then fills the cache.
GetProfileMisses ==
  /\ profileCache = Absent /\ profileRead = Absent
  /\ profileRead' = profile
  /\ UNCHANGED <<proofVars, qrVars, profile, profileCache, invalidating>>

GetProfileFills ==
  /\ profileRead # Absent
  /\ profileCache' = profileRead /\ profileRead' = Absent
  /\ UNCHANGED <<proofVars, qrVars, profile, invalidating>>

\* updateProfile: the update, then the cache del, which may fail.
UpdateProfile ==
  /\ profile < MaxVersions /\ ~invalidating
  /\ profile' = profile + 1 /\ invalidating' = TRUE
  /\ UNCHANGED <<proofVars, qrVars, profileCache, profileRead>>

InvalidateProfile ==
  /\ invalidating
  /\ invalidating' = FALSE
  /\ profileCache' \in {Absent, profileCache}
  /\ UNCHANGED <<proofVars, qrVars, profile, profileRead>>

\* PROFILE_TTL_S.
ProfileCacheLapses ==
  /\ profileCache # Absent
  /\ profileCache' = Absent
  /\ UNCHANGED <<proofVars, qrVars, profile, profileRead, invalidating>>

RecordsNext ==
  \/ \E status \in {"DELIVERED", "CANCELED"} : HandoffSettles(status)
  \/ AutoProofReads \/ AutoProofCreates \/ AutoProofFails \/ SubmitProofReads \/ SubmitProof
  \/ \E stars \in {1, 5} : Rate(stars)
  \/ \E s \in WorkflowSteps : CompleteStep(s)
  \/ GenerateQrPayload \/ ValidateQrPayload \/ MinutePasses
  \/ GetProfileMisses \/ GetProfileFills \/ UpdateProfile \/ InvalidateProfile \/ ProfileCacheLapses

RecordsSpec == RecordsInit /\ [][RecordsNext]_recordVars

----------------------------------------------------------------------------
(* Properties *)

\* A photo the owner submitted is never replaced by the placeholder the
\* handoff records, although the placeholder may have been decided on before
\* the photo arrived (createAutoProof against submitProof); and only a
\* delivered package has either.
ProofNeverDowngraded ==
  [][/\ proof = "submitted" => proof' = "submitted"
     /\ proof' # "none" => handoff' = "DELIVERED"]_recordVars
=============================================================================
