---------------------------- MODULE CompanyData ----------------------------
(***************************************************************************)
(* company-service: the row of a company and its logo.  The logo lies in   *)
(* the bucket under a key made of the company's id, so the URL that upload *)
(* makes of it never differs; a row may hold another, of a storage used    *)
(* before.  An edit writes every column of the row, as it was read.  Who   *)
(* may edit is in CompanyMembership.                                       *)
(***************************************************************************)
EXTENDS RequestLife

CONSTANTS Companies, TaxIds

VARIABLES
    company,        \* the row of the table Company
    logos,          \* the companies that have an object in the bucket
    unsettled       \* history: logos whose upload or removal was cut short
                    \* or overlapped, and not repeated since

companyVars == <<company, logos, unsettled>>

NoTaxId == "null"
Urls    == {"null", "ours", "foreign"}
NoRow   == [state |-> "none", taxId |-> NoTaxId, logoUrl |-> "null"]

Row == [state : {"live"}, taxId : TaxIds \cup {NoTaxId}, logoUrl : Urls]

Live(c) == company[c].state = "live"

\* unique(country, taxId); a company without a tax id collides with none.
TaxIdFree(c, taxId) ==
    taxId = NoTaxId
    \/ \A d \in Companies \ {c} : Live(d) => company[d].taxId # taxId

CompanyType ==
    /\ company   \in [Companies -> Row \cup {NoRow, [NoRow EXCEPT !.state = "gone"]}]
    /\ logos     \subseteq Companies
    /\ unsettled \subseteq Companies

\* Some companies are there, with the logo that their row names, if it is in
\* this bucket.
CompanyInit ==
    /\ company \in [Companies -> Row \cup {NoRow}]
    /\ \A c \in Companies : Live(c) => TaxIdFree(c, company[c].taxId)
    /\ logos = {c \in Companies : company[c].logoUrl = "ours"}
    /\ unsettled = {}

-----------------------------------------------------------------------------

(* CreateCompanyUseCase: the row and its owner, in one transaction.        *)
CreateCompany(r, c, taxId) ==
    /\ req[r].pc = "idle" /\ company[c] = NoRow
    /\ company' = IF TaxIdFree(c, taxId)
                  THEN [company EXCEPT ![c] = [state |-> "live", taxId |-> taxId,
                                               logoUrl |-> "null"]]
                  ELSE company
    /\ Done(r)
    /\ UNCHANGED <<logos, unsettled>>

(* The membership of the requester, which goes with the company, allows it. *)
Admitted(r, c, kind, ask) ==
    /\ Live(c)
    /\ Asked(r, kind, c, ask)
    /\ UNCHANGED companyVars

(* findById; without a row the request ends.                               *)
ReadCompany(r) ==
    LET c == req[r].on IN
    /\ req[r].pc = "asked"
    /\ IF Live(c) THEN HasRead(r, req[r].kind, c, req[r].ask, company[c])
       ELSE Done(r)
    /\ UNCHANGED companyVars

\* The statement fails when the row is gone or its tax id is taken by now.
CanSave(c, row) == Live(c) /\ TaxIdFree(c, row.taxId)

SaveCompany(r, row) ==
    LET c == req[r].on IN
    /\ company' = IF CanSave(c, row) THEN [company EXCEPT ![c] = row] ELSE company
    /\ Done(r)

\* Fault: the new row is made of the patch alone, without the logo.
ProfileOfPatch(row, taxId) == [row EXCEPT !.taxId = taxId, !.logoUrl = "null"]

\* Company.updateProfile; the tax id stands for every column of the profile.
UpdateProfile(row, taxId) == [row EXCEPT !.taxId = taxId]

(* UpdateCompanyUseCase.                                                   *)
UpdateCompany(r) ==
    /\ Doing(r, "update")
    /\ SaveCompany(r, UpdateProfile(req[r].seen, req[r].ask))
    /\ UNCHANGED <<logos, unsettled>>

\* S3ImageStorageService on the keys of a bucket.  A URL that does not begin
\* as those of this bucket do is logged, and nothing is deleted.
upload(bucket, key) == bucket \cup {key}
deleteByUrl(bucket, key, url) == IF url = "ours" THEN bucket \ {key} ELSE bucket

\* SharpImageProcessorService.sanitize fails for anything but a raster image.
Files == {"raster", "other"}
sanitize(file) == file = "raster"

(* UploadCompanyLogoUseCase: the object, then the row.                     *)
InvalidLogo(r) ==
    /\ Doing(r, "upload") /\ ~sanitize(req[r].ask)
    /\ Done(r)
    /\ UNCHANGED companyVars

PutLogo(r) ==
    /\ Doing(r, "upload") /\ ~req[r].moved /\ sanitize(req[r].ask)
    /\ logos' = upload(logos, req[r].on)
    /\ unsettled' = unsettled \cup {req[r].on}
    /\ Moved(r)
    /\ UNCHANGED company

\* The bucket does not hold what the row names, and is left as it is.
Ignored(r) == req[r].kind = "remove" /\ req[r].seen.logoUrl = "foreign"

(* RemoveCompanyLogoUseCase: the object, if the row names one, then the row. *)
DeleteLogo(r) ==
    /\ Doing(r, "remove") /\ ~req[r].moved
    /\ IF req[r].seen.logoUrl # "null"
       THEN /\ logos' = deleteByUrl(logos, req[r].on, req[r].seen.logoUrl)
            /\ unsettled' = IF Ignored(r) THEN unsettled
                            ELSE unsettled \cup {req[r].on}
            /\ Moved(r)
       ELSE Done(r) /\ UNCHANGED <<logos, unsettled>>
    /\ UNCHANGED company

\* Company.updateLogo and removeLogo.
UpdateLogo(row, kind) ==
    [row EXCEPT !.logoUrl = IF kind = "upload" THEN "ours" ELSE "null"]

LinkLogo(r) ==
    /\ Doing(r, "upload") \/ Doing(r, "remove")
    /\ req[r].moved
    /\ SaveCompany(r, UpdateLogo(req[r].seen, req[r].kind))
    /\ unsettled' = IF req[r].overlap \/ Ignored(r) THEN unsettled
                    ELSE unsettled \ {req[r].on}
    /\ UNCHANGED logos

(* DeleteCompanyUseCase: the row; the logo stays in the bucket.            *)
DeleteCompany(r) ==
    /\ Doing(r, "delete")
    /\ company' = [company EXCEPT ![req[r].on] = [NoRow EXCEPT !.state = "gone"]]
    /\ Done(r)
    /\ UNCHANGED <<logos, unsettled>>

CompanyStep(r) ==
    \/ \E c \in Companies, taxId \in TaxIds \cup {NoTaxId} :
          \/ CreateCompany(r, c, taxId)
          \/ Admitted(r, c, "update", taxId)
    \/ \E c \in Companies, file \in Files : Admitted(r, c, "upload", file)
    \/ \E c \in Companies, kind \in {"remove", "delete"} :
          Admitted(r, c, kind, "none")
    \/ ReadCompany(r) \/ UpdateCompany(r) \/ InvalidLogo(r) \/ PutLogo(r)
    \/ DeleteLogo(r) \/ LinkLogo(r) \/ DeleteCompany(r)

-----------------------------------------------------------------------------

(* The row has a URL of the bucket exactly when the object is there.       *)
LogoStored ==
    \A c \in Companies \ unsettled :
        Live(c) => (company[c].logoUrl = "ours" <=> c \in logos)

(* A column changes only by a request that was asked to change it, or by    *)
(* one that had read the row before another request wrote it.               *)
CompanyKept ==
    \A c \in Companies : Live(c) /\ Live(c)' =>
        /\ company'[c].taxId # company[c].taxId => \E r \in Requests :
              Ends(r) /\ req[r].on = c /\ (req[r].kind = "update" \/ req[r].overlap)
        /\ company'[c].logoUrl # company[c].logoUrl => \E r \in Requests :
              Ends(r) /\ req[r].on = c
              /\ (req[r].kind \in {"upload", "remove"} \/ req[r].overlap)

(* A company that was deleted does not come back.                          *)
CompanyStaysGone ==
    \A c \in Companies : company[c].state = "gone" => company'[c].state = "gone"

=============================================================================
