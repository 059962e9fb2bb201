---------------------------- MODULE UserProfiles ----------------------------
(***************************************************************************)
(* auth-service: the profile of a user, with the consent that the law asks *)
(* for, and the avatar, which lies in the bucket under the user's id and   *)
(* is never deleted.                                                       *)
(***************************************************************************)
EXTENDS RequestLife

CONSTANTS People, Contacts

VARIABLES
    profile,        \* the row of the table UserProfile
    avatars,        \* the users who have an object in the bucket
    unlinked        \* history: avatars whose upload was cut short or overlapped

profileVars == <<profile, avatars, unlinked>>

Given == "given"    \* the contact that a profile is made with

Profile == [exists : BOOLEAN, contact : Contacts \cup {Given}, avatarUrl : BOOLEAN,
            consent : BOOLEAN]

ProfileType ==
    /\ profile  \in [People -> Profile]
    /\ avatars  \subseteq People
    /\ unlinked \subseteq People

\* UserProfile.create wants the consent; a provisioned worker has yet to give it.
Created     == [exists |-> TRUE, contact |-> Given,
                avatarUrl |-> FALSE, consent |-> TRUE]
Provisioned == [Created EXCEPT !.consent = FALSE]

\* A user who registered has no profile yet; a worker came with one.
ProfileInit ==
    /\ profile \in [People -> {[Created EXCEPT !.exists = FALSE], Provisioned}]
    /\ avatars = {}
    /\ unlinked = {}

-----------------------------------------------------------------------------

(* findByUserId: creating wants no row, everything else wants one.         *)
ReadProfile(r, u, kind, ask) ==
    /\ profile[u].exists <=> kind # "create"
    /\ kind = "consent" => ~profile[u].consent   \* mustChangePassword
    /\ AskedAndRead(r, kind, u, ask, profile[u])
    /\ UNCHANGED profileVars

(* CreateUserProfileUseCase: the insert fails when there is a row by now.   *)
CreateProfile(r) ==
    LET u == req[r].on IN
    /\ Doing(r, "create")
    /\ profile' = IF profile[u].exists THEN profile
                  ELSE [profile EXCEPT ![u] = Created]
    /\ Done(r)
    /\ UNCHANGED <<avatars, unlinked>>

\* Fault: a consent that is not there is written as null.
ToPersistenceNull(row, stored) == row

\* UserProfileMapper.toPersistence: a consent that was not there when the row
\* was read is undefined, and Prisma leaves its column as it is.
ToPersistence(row, stored) ==
    [row EXCEPT !.consent = row.consent \/ stored.consent]

SaveProfile(r, row) ==
    LET u == req[r].on IN
    /\ profile' = [profile EXCEPT ![u] = ToPersistence(row, profile[u])]
    /\ Done(r)

(* UpdateUserProfileUseCase.                                               *)
UpdateContactInfo(r) ==
    /\ Doing(r, "contact")
    /\ SaveProfile(r, [req[r].seen EXCEPT !.contact = req[r].ask])
    /\ UNCHANGED <<avatars, unlinked>>

(* CompleteFirstLoginUseCase.acceptProfileConsent.                         *)
AcceptConsent(r) ==
    /\ Doing(r, "consent")
    /\ SaveProfile(r, [req[r].seen EXCEPT !.consent = TRUE])
    /\ UNCHANGED <<avatars, unlinked>>

\* S3ImageStorageService and SharpImageProcessorService of auth-service.
PutObject(bucket, key) == bucket \cup {key}
Images == {"raster", "other"}
IsRaster(file) == file = "raster"

(* UploadProfileImageUseCase: the object, then the row.                    *)
InvalidAvatar(r) ==
    /\ Doing(r, "avatar") /\ ~IsRaster(req[r].ask)
    /\ Done(r)
    /\ UNCHANGED profileVars

PutAvatar(r) ==
    /\ Doing(r, "avatar") /\ ~req[r].moved /\ IsRaster(req[r].ask)
    /\ avatars' = PutObject(avatars, req[r].on)
    /\ unlinked' = unlinked \cup {req[r].on}
    /\ Moved(r)
    /\ UNCHANGED profile

LinkAvatar(r) ==
    /\ Doing(r, "avatar") /\ req[r].moved
    /\ SaveProfile(r, [req[r].seen EXCEPT !.avatarUrl = TRUE])
    /\ unlinked' = IF req[r].overlap THEN unlinked ELSE unlinked \ {req[r].on}
    /\ UNCHANGED avatars

ProfileStep(r) ==
    \/ \E u \in People, contact \in Contacts : ReadProfile(r, u, "contact", contact)
    \/ \E u \in People, kind \in {"create", "consent"} :
          ReadProfile(r, u, kind, "none")
    \/ \E u \in People, file \in Images : ReadProfile(r, u, "avatar", file)
    \/ CreateProfile(r) \/ UpdateContactInfo(r) \/ AcceptConsent(r)
    \/ InvalidAvatar(r) \/ PutAvatar(r) \/ LinkAvatar(r)

-----------------------------------------------------------------------------

(* A URL in the row always has its object, as nothing deletes it; and an    *)
(* object has its URL unless its upload was cut short or overlapped.        *)
AvatarStored ==
    \A u \in People : /\ profile[u].avatarUrl => u \in avatars
                      /\ u \in avatars \ unlinked => profile[u].avatarUrl

(* A column changes only by a request that was asked to change it, or by    *)
(* one that had read the row before another request wrote it; and consent   *)
(* once given is not lost even then.                                        *)
ProfileKept ==
    \A u \in People : profile[u].exists =>
        /\ profile'[u].exists
        /\ profile[u].consent => profile'[u].consent
        /\ profile'[u].contact # profile[u].contact => \E r \in Requests :
              Ends(r) /\ req[r].on = u /\ (req[r].kind = "contact" \/ req[r].overlap)
        /\ profile[u].avatarUrl /\ ~profile'[u].avatarUrl => \E r \in Requests :
              Ends(r) /\ req[r].on = u /\ req[r].overlap

=============================================================================
