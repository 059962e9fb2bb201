----------------------------- MODULE StoredData -----------------------------
(***************************************************************************)
(* The edits that company-service, auth-service and config-service make of *)
(* stored rows without a transaction, under the same requests.  Each store *)
(* is left alone by the steps of the others.                               *)
(***************************************************************************)
EXTENDS CompanyData, UserProfiles, PlatformSettings

vars == <<req, company, logos, unsettled, profile, avatars, unlinked,
          flags, windows>>

TypeOK == CompanyType /\ ProfileType /\ SettingType

Init == RequestInit /\ CompanyInit /\ ProfileInit /\ SettingInit

Next == \E r \in Requests :
    \/ CompanyStep(r) /\ UNCHANGED <<profileVars, settingVars>>
    \/ ProfileStep(r) /\ UNCHANGED <<companyVars, settingVars>>
    \/ SettingStep(r) /\ UNCHANGED <<companyVars, profileVars>>
    \/ Stop(r) /\ UNCHANGED <<companyVars, profileVars, settingVars>>

Spec == Init /\ [][Next]_vars

-----------------------------------------------------------------------------

(* The URL of an image in a row and the object in the bucket agree, for the *)
(* logos of companies and the avatars of users, unless an upload or a       *)
(* removal was cut short between the two or overlapped another edit.        *)
ImagesStored == LogoStored /\ AvatarStored

(* A column of a company or a profile is changed by a request asked to, or  *)
(* by one that overlapped another on the same row and takes an older state  *)
(* back.  A row of a flag is changed by a request for its environment, or   *)
(* for all environments, which finds the row of "".  Consent is never lost, *)
(* a deleted company and a cancelled window stay so.                        *)
EditsKept == [][/\ CompanyKept /\ CompanyStaysGone
                /\ ProfileKept
                /\ FlagsKept /\ CancelledStays]_vars

(* What an administrator sets is not contradicted by another row: there is  *)
(* one row per flag and environment and one active window at a time, unless *)
(* the requests that made them overlapped.                                  *)
SettingsAgree == FlagsUnique /\ WindowsApart

=============================================================================
