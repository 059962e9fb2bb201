-------------------------- MODULE StoredDataProofs --------------------------
(***************************************************************************)
(* Theorems about StoredData, for any number of requests, companies, users *)
(* and instants.                                                           *)
(***************************************************************************)
EXTENDS StoredData, Integers, TLAPS

-----------------------------------------------------------------------------
(* Requests.                                                                *)

IsRequest(m) ==
    \E k, o, a, p, s : \E b, v \in BOOLEAN :
        m = [kind |-> k, on |-> o, ask |-> a, pc |-> p, seen |-> s,
             moved |-> b, overlap |-> v]

Shape == req = [r \in Requests |-> req[r]] /\ \A r \in Requests : IsRequest(req[r])

\* Of two requests under way on one row, each knows of the other.
Aware ==
    \A r, q \in Requests :
        (/\ r # q /\ req[r].on = req[q].on
         /\ req[r].pc = "read" /\ req[q].pc = "read")
            => req[r].overlap = TRUE

RequestInv == Shape /\ Aware

\* A step of request r does no more to the others than to make them overlap.
Keeps(r) ==
    \A q \in Requests \ {r} :
        /\ req'[q].kind = req[q].kind /\ req'[q].on = req[q].on
        /\ req'[q].ask = req[q].ask   /\ req'[q].pc = req[q].pc
        /\ req'[q].seen = req[q].seen /\ req'[q].moved = req[q].moved
        /\ req[q].overlap = TRUE => req'[q].overlap = TRUE

LEMMA RequestMade ==
    ASSUME NEW k, NEW o, NEW a, NEW p, NEW s, NEW b \in BOOLEAN, NEW v \in BOOLEAN
    PROVE  IsRequest([kind |-> k, on |-> o, ask |-> a, pc |-> p, seen |-> s,
                      moved |-> b, overlap |-> v])
BY Zenon DEF IsRequest

(* What a request is after it was asked, has read, has moved an object or   *)
(* is done.                                                                 *)
LEMMA Asking ==
    ASSUME RequestInv, NEW r \in Requests, NEW kind, NEW on, NEW ask,
           Asked(r, kind, on, ask)
    PROVE  /\ RequestInv' /\ Keeps(r)
           /\ req'[r].kind = kind /\ req'[r].on = on /\ req'[r].ask = ask
           /\ req'[r].pc = "asked"
<1>1. /\ \A q \in Requests \ {r} : req'[q] = req[q]
      /\ req'[r] = [kind |-> kind, on |-> on, ask |-> ask, pc |-> "asked",
                    seen |-> "none", moved |-> FALSE, overlap |-> FALSE]
      /\ req' = [q \in Requests |-> req'[q]]
  BY DEF RequestInv, Shape, Asked, Unasked
<1>2. IsRequest([kind |-> kind, on |-> on, ask |-> ask, pc |-> "asked",
                 seen |-> "none", moved |-> FALSE, overlap |-> FALSE])
  BY RequestMade, FALSE \in BOOLEAN
<1>3. Shape'
  BY <1>1, <1>2 DEF RequestInv, Shape
<1>4. Aware'
  BY <1>1 DEF RequestInv, Aware
<1> QED
  BY <1>1, <1>3, <1>4 DEF RequestInv, Keeps

LEMMA Reading ==
    ASSUME RequestInv, NEW r \in Requests, NEW kind, NEW on, NEW ask, NEW row,
           HasRead(r, kind, on, ask, row)
    PROVE  /\ RequestInv' /\ Keeps(r)
           /\ req'[r].kind = kind /\ req'[r].on = on /\ req'[r].ask = ask
           /\ req'[r].pc = "read" /\ req'[r].seen = row
           /\ req'[r].moved = FALSE
<1> DEFINE others == UnderWay(r, on)
<1>1. /\ req'[r] = [kind |-> kind, on |-> on, ask |-> ask, pc |-> "read",
                    seen |-> row, moved |-> FALSE, overlap |-> (others # {})]
      /\ req' = [q \in Requests |-> req'[q]]
  BY DEF HasRead, Unasked
<1>2. ASSUME NEW q \in Requests, q # r
      PROVE  /\ IsRequest(req'[q])
             /\ req'[q].kind = req[q].kind /\ req'[q].on = req[q].on
             /\ req'[q].ask = req[q].ask   /\ req'[q].pc = req[q].pc
             /\ req'[q].seen = req[q].seen /\ req'[q].moved = req[q].moved
             /\ req[q].overlap = TRUE => req'[q].overlap = TRUE
             /\ q \in others => req'[q].overlap = TRUE
  <2> DEFINE now == req[q].overlap \/ q \in others
  <2>1. req'[q] = [req[q] EXCEPT !.overlap = now]
    BY <1>2 DEF HasRead
  <2>2. PICK k, o, a, p, s : \E b, v \in BOOLEAN :
           req[q] = [kind |-> k, on |-> o, ask |-> a, pc |-> p, seen |-> s,
                     moved |-> b, overlap |-> v]
    BY DEF RequestInv, Shape, IsRequest
  <2>3. PICK b, v \in BOOLEAN :
           req[q] = [kind |-> k, on |-> o, ask |-> a, pc |-> p, seen |-> s,
                     moved |-> b, overlap |-> v]
    BY <2>2
  <2>4. /\ now \in BOOLEAN
        /\ req[q].overlap = TRUE => now = TRUE
        /\ q \in others => now = TRUE
    OBVIOUS
  <2> HIDE DEF now
  <2>5. req'[q] = [kind |-> k, on |-> o, ask |-> a, pc |-> p, seen |-> s,
                   moved |-> b, overlap |-> now]
    BY <2>1, <2>3
  <2>6. IsRequest(req'[q])
    BY <2>4, <2>5, RequestMade
  <2> QED
    BY <2>3, <2>4, <2>5, <2>6
<1> HIDE DEF others
<1>3. Keeps(r)
  BY <1>2 DEF Keeps
<1>4. Shape'
  <2>1. (others # {}) \in BOOLEAN
    OBVIOUS
  <2>2. IsRequest(req'[r])
    BY <1>1, <2>1, RequestMade
  <2> QED
    BY <1>1, <1>2, <2>2 DEF Shape
<1>5. /\ req'[r].kind = kind /\ req'[r].on = on /\ req'[r].ask = ask
      /\ req'[r].pc = "read" /\ req'[r].seen = row /\ req'[r].moved = FALSE
  BY <1>1
<1>6. Aware'
  <2> SUFFICES ASSUME NEW p \in Requests, NEW q \in Requests, p # q,
                      req'[p].on = req'[q].on,
                      req'[p].pc = "read", req'[q].pc = "read"
               PROVE  req'[p].overlap = TRUE
    BY DEF Aware
  <2>1. CASE p = r
    <3>1. q \in others
      <4>1. req'[p].on = on
        BY <1>5, <2>1
      <4>2. q # r /\ req[q].on = on /\ req[q].pc = "read"
        BY <1>2, <2>1, <4>1
      <4> QED
        BY <4>2 DEF UnderWay, others
    <3>2. req'[p].overlap = (others # {})
      BY <1>1, <2>1
    <3>3. (others # {}) = TRUE
      BY <3>1
    <3> QED
      BY <3>2, <3>3
  <2>2. CASE q = r
    <3>1. p \in others
      <4>1. req'[q].on = on
        BY <1>5, <2>2
      <4>2. p # r /\ req[p].on = on /\ req[p].pc = "read"
        BY <1>2, <2>2, <4>1
      <4> QED
        BY <4>2 DEF UnderWay, others
    <3> QED
      BY <1>2, <2>2, <3>1
  <2>3. CASE p # r /\ q # r
    <3>1. /\ req[p].on = req[q].on
          /\ req[p].pc = "read" /\ req[q].pc = "read"
      BY <1>2, <2>3
    <3>2. req[p].overlap = TRUE
      BY <3>1 DEF RequestInv, Aware
    <3> QED
      BY <1>2, <2>3, <3>2
  <2> QED
    BY <2>1, <2>2, <2>3
<1> QED
  BY <1>3, <1>4, <1>6, <1>5 DEF RequestInv

LEMMA Moving ==
    ASSUME RequestInv, NEW r \in Requests, Moved(r)
    PROVE  /\ RequestInv' /\ Keeps(r)
           /\ req'[r].kind = req[r].kind /\ req'[r].on = req[r].on
           /\ req'[r].ask = req[r].ask   /\ req'[r].pc = req[r].pc
           /\ req'[r].seen = req[r].seen /\ req'[r].moved = TRUE
           /\ req'[r].overlap = req[r].overlap
<1>1. PICK k, o, a, p, s : \E b, v \in BOOLEAN :
         req[r] = [kind |-> k, on |-> o, ask |-> a, pc |-> p, seen |-> s,
                   moved |-> b, overlap |-> v]
  BY DEF RequestInv, Shape, IsRequest
<1>2. PICK b, v \in BOOLEAN :
         req[r] = [kind |-> k, on |-> o, ask |-> a, pc |-> p, seen |-> s,
                   moved |-> b, overlap |-> v]
  BY <1>1
<1> DEFINE yes == TRUE
           after == [kind |-> k, on |-> o, ask |-> a, pc |-> p, seen |-> s,
                     moved |-> yes, overlap |-> v]
<1>a. [req[r] EXCEPT !.moved = TRUE] = after
  <2> DEFINE before == [kind |-> k, on |-> o, ask |-> a, pc |-> p, seen |-> s,
                        moved |-> b, overlap |-> v]
  <2>1. [before EXCEPT !.moved = yes] = after
    <3> HIDE DEF yes
    <3> QED
      OBVIOUS
  <2>2. req[r] = before
    BY <1>2
  <2> HIDE DEF before, after
  <2> QED
    BY <2>1, <2>2, Zenon
<1>3. /\ \A q \in Requests \ {r} : req'[q] = req[q]
      /\ req' = [q \in Requests |-> req'[q]]
      /\ req'[r] = after
  <2>1. req' = [req EXCEPT ![r] = after]
    BY <1>a DEF Moved
  <2> HIDE DEF after
  <2> QED
    BY <2>1 DEF RequestInv, Shape
<1>4. IsRequest(after)
  BY RequestMade, TRUE \in BOOLEAN
<1>5. Shape'
  BY <1>3, <1>4 DEF RequestInv, Shape
<1>6. Aware'
  BY <1>2, <1>3 DEF RequestInv, Aware
<1> QED
  BY <1>2, <1>3, <1>5, <1>6 DEF RequestInv, Keeps

LEMMA Finishing ==
    ASSUME RequestInv, NEW r \in Requests, Done(r)
    PROVE  /\ RequestInv' /\ Keeps(r)
           /\ req'[r].pc = "done" /\ req'[r].overlap = req[r].overlap
<1>1. req[r].overlap \in BOOLEAN
  BY DEF RequestInv, Shape, IsRequest
<1>2. /\ \A q \in Requests \ {r} : req'[q] = req[q]
      /\ req'[r] = [kind |-> "none", on |-> "none", ask |-> "none",
                    pc |-> "done", seen |-> "none", moved |-> FALSE,
                    overlap |-> req[r].overlap]
      /\ req' = [q \in Requests |-> req'[q]]
  BY DEF RequestInv, Shape, Done, Unasked
<1>3. IsRequest([kind |-> "none", on |-> "none", ask |-> "none",
                 pc |-> "done", seen |-> "none", moved |-> FALSE,
                 overlap |-> req[r].overlap])
  BY <1>1, RequestMade, FALSE \in BOOLEAN
<1>4. Shape'
  BY <1>2, <1>3 DEF RequestInv, Shape
<1>5. Aware'
  BY <1>2 DEF RequestInv, Aware
<1> QED
  BY <1>2, <1>4, <1>5 DEF RequestInv, Keeps

LEMMA Flags ==
    ASSUME RequestInv, NEW r \in Requests
    PROVE  req[r].moved \in BOOLEAN /\ req[r].overlap \in BOOLEAN
BY DEF RequestInv, Shape, IsRequest

LEMMA AwareOfEachOther ==
    ASSUME RequestInv, NEW r \in Requests, NEW q \in Requests, r # q,
           req[r].on = req[q].on, req[r].pc = "read", req[q].pc = "read"
    PROVE  req[r].overlap = TRUE /\ req[q].overlap = TRUE
BY DEF RequestInv, Aware

-----------------------------------------------------------------------------
(* Companies and logos.                                                     *)

CompanyKinds == {"update", "upload", "remove", "delete"}

OfCompany(q) ==
    /\ req[q].kind \in CompanyKinds
    /\ req[q].on \in Companies
    /\ req[q].kind = "update" => req[q].ask \in TaxIds \cup {NoTaxId}

\* The copy of a row that request q is going to write: it is the row, unless
\* another request overlapped; whether its URL names the object is right, unless
\* the logo is unsettled.
Copy(q) ==
    LET c == req[q].on IN
    /\ req[q].seen \in Row
    /\ company[c].state # "none"
    /\ req[q].overlap = FALSE => company[c] = req[q].seen
    /\ Live(c) /\ c \notin unsettled =>
          (req[q].seen.logoUrl = "ours" <=> company[c].logoUrl = "ours")
    /\ req[q].moved = TRUE =>
          \/ Ignored(q)
          \/ /\ c \in unsettled
             /\ req[q].overlap = FALSE => (c \in logos <=> req[q].kind = "upload")

CompanyCopies ==
    \A q \in Requests :
        /\ req[q].pc = "asked" => OfCompany(q)
        /\ req[q].pc = "read" /\ req[q].kind \in CompanyKinds
              => OfCompany(q) /\ Copy(q)

TaxIdsUnique == \A c \in Companies : Live(c) => TaxIdFree(c, company[c].taxId)

CompanyInv ==
    /\ CompanyType
    /\ TaxIdsUnique
    /\ \A c \in logos : company[c].state # "none"
    /\ LogoStored
    /\ CompanyCopies

(* A step that leaves the companies alone, and what it makes of its own     *)
(* request is in order.                                                     *)
LEMMA CompaniesRest ==
    ASSUME CompanyInv, RequestInv, RequestInv', NEW r \in Requests, Keeps(r),
           UNCHANGED companyVars,
           req'[r].pc = "asked" => OfCompany(r)',
           req'[r].pc = "read" /\ req'[r].kind \in CompanyKinds
              => OfCompany(r)' /\ Copy(r)'
    PROVE  CompanyInv'
<1>1. /\ company' = company /\ logos' = logos /\ unsettled' = unsettled
  BY DEF companyVars
<1>2. CompanyCopies'
  <2> SUFFICES ASSUME NEW q \in Requests, q # r
               PROVE  /\ req'[q].pc = "asked" => OfCompany(q)'
                      /\ req'[q].pc = "read" /\ req'[q].kind \in CompanyKinds
                            => OfCompany(q)' /\ Copy(q)'
    BY DEF CompanyCopies
  <2>1. req'[q].overlap = FALSE => req[q].overlap = FALSE
    BY Flags DEF Keeps
  <2>2. /\ req[q].pc = "asked" => OfCompany(q)
        /\ req[q].pc = "read" /\ req[q].kind \in CompanyKinds
              => OfCompany(q) /\ Copy(q)
    BY DEF CompanyInv, CompanyCopies
  <2>3. OfCompany(q) => OfCompany(q)'
    BY DEF OfCompany, Keeps
  <2>4. Copy(q) => Copy(q)'
    BY <1>1, <2>1 DEF Copy, Live, Keeps, Ignored
  <2> QED
    BY <2>2, <2>3, <2>4 DEF Keeps
<1>3. CompanyType' /\ TaxIdsUnique' /\ LogoStored'
  BY <1>1 DEF CompanyInv, CompanyType, TaxIdsUnique, TaxIdFree, LogoStored, Live
<1> QED
  BY <1>1, <1>2, <1>3 DEF CompanyInv

(* A request writes the row or the logo of its company: what the others     *)
(* have read of it is known to be stale.                                    *)
LEMMA OtherCopies ==
    ASSUME CompanyInv, RequestInv, NEW r \in Requests, Keeps(r),
           OfCompany(r), req[r].pc = "read", NEW c, c = req[r].on,
           \A d \in Companies \ {c} :
               /\ company'[d] = company[d]
               /\ d \in logos' <=> d \in logos
               /\ d \in unsettled' <=> d \in unsettled,
           company'[c].state # "none",
           req[r].overlap = TRUE /\ c \in unsettled => c \in unsettled',
           req[r].overlap = TRUE /\ Live(c)' /\ c \notin unsettled'
              => /\ Live(c)
                 /\ company'[c].logoUrl = "ours" <=> company[c].logoUrl = "ours",
           NEW q \in Requests, q # r,
           req'[q].pc = "read", req'[q].kind \in CompanyKinds
    PROVE  OfCompany(q)' /\ Copy(q)'
<1>1. /\ req[q].pc = "read" /\ req[q].kind \in CompanyKinds
      /\ OfCompany(q) /\ Copy(q)
  BY DEF Keeps, CompanyInv, CompanyCopies
<1>2. OfCompany(q)'
  BY <1>1 DEF OfCompany, Keeps
<1>3. req'[q].overlap = FALSE => req[q].overlap = FALSE
  BY Flags DEF Keeps
<1>4. CASE req[q].on = c
  <2>1. req[r].overlap = TRUE /\ req[q].overlap = TRUE
    BY <1>1, <1>4, AwareOfEachOther
  <2>2. req'[q].overlap = TRUE
    BY <2>1 DEF Keeps
  <2>3. /\ req'[q].seen = req[q].seen /\ req'[q].on = c
        /\ req'[q].moved = req[q].moved
    BY <1>4 DEF Keeps
  <2>4. /\ req'[q].overlap # FALSE
        /\ req[q].seen \in Row /\ company'[c].state # "none"
    BY <1>1, <2>2 DEF Copy
  <2>5. Live(c)' /\ c \notin unsettled'
           => (req[q].seen.logoUrl = "ours" <=> company'[c].logoUrl = "ours")
    BY <1>1, <1>4, <2>1 DEF Copy
  <2>6. req[q].moved = TRUE => Ignored(q) \/ c \in unsettled'
    BY <1>1, <1>4, <2>1 DEF Copy
  <2>7. Ignored(q) => Ignored(q)'
    BY DEF Ignored, Keeps
  <2> QED
    BY <1>2, <2>3, <2>4, <2>5, <2>6, <2>7 DEF Copy
<1>5. CASE req[q].on # c
  BY <1>1, <1>3, <1>5 DEF Copy, Keeps, OfCompany, Live, Ignored
<1> QED
  BY <1>2, <1>4, <1>5
(* What a statement that writes the whole row does to the table.            *)
LEMMA Saving ==
    ASSUME CompanyInv, NEW r \in Requests, OfCompany(r), Copy(r),
           NEW row \in Row, SaveCompany(r, row)
    PROVE  LET c == req[r].on IN
           /\ company' \in [Companies ->
                   Row \cup {NoRow, [NoRow EXCEPT !.state = "gone"]}]
           /\ TaxIdsUnique'
           /\ \A d \in Companies \ {c} : company'[d] = company[d]
           /\ company'[c] = IF CanSave(c, row) THEN row ELSE company[c]
           /\ \A d \in Companies : company'[d].state = company[d].state
<1> DEFINE c == req[r].on
<1>1. c \in Companies
  BY DEF OfCompany
<1>2. row.state = "live"
  BY DEF Row
<1>3. /\ company' \in [Companies ->
              Row \cup {NoRow, [NoRow EXCEPT !.state = "gone"]}]
      /\ \A d \in Companies \ {c} : company'[d] = company[d]
      /\ company'[c] = IF CanSave(c, row) THEN row ELSE company[c]
  <2> HIDE DEF c
  <2>1. company' = IF CanSave(c, row) THEN [company EXCEPT ![c] = row] ELSE company
    BY DEF SaveCompany, c
  <2>2. company \in [Companies ->
            Row \cup {NoRow, [NoRow EXCEPT !.state = "gone"]}]
    BY DEF CompanyInv, CompanyType
  <2> QED
    BY <1>1, <2>1, <2>2
<1>4. \A d \in Companies : company'[d].state = company[d].state
  <2> HIDE DEF c
  <2> QED
    BY <1>2, <1>3 DEF CanSave, Live
<1>5. TaxIdsUnique'
  <2> HIDE DEF c
  <2>1. CASE CanSave(c, row)
    BY <1>1, <1>3, <1>4, <2>1
       DEF CompanyInv, TaxIdsUnique, TaxIdFree, Live, CanSave
  <2>2. CASE ~CanSave(c, row)
    <3>1. \A d \in Companies : company'[d] = company[d]
      BY <1>1, <1>3, <2>2
    <3> QED
      BY <3>1 DEF CompanyInv, TaxIdsUnique, TaxIdFree, Live
  <2> QED
    BY <2>1, <2>2
<1> QED
  BY <1>3, <1>4, <1>5

LEMMA AbsentRows ==
    /\ NoRow.state = "none" /\ NoRow.logoUrl = "null"
    /\ [NoRow EXCEPT !.state = "gone"].state = "gone"
    /\ [NoRow EXCEPT !.state = "gone"].logoUrl = "null"
BY DEF NoRow

LEMMA RowsOfCompanies ==
    ASSUME CompanyInv, NEW c \in Companies
    PROVE  /\ Live(c) => company[c] \in Row
           /\ company[c] # NoRow => company[c].state # "none"
           /\ company[c] = NoRow => company[c].state = "none"
           /\ ~Live(c) => company[c].logoUrl = "null"
           /\ company[c].logoUrl \in Urls
<1>1. company[c] \in Row \cup {NoRow, [NoRow EXCEPT !.state = "gone"]}
  BY DEF CompanyInv, CompanyType
<1>2. \A row \in Row : row.state = "live" /\ row.logoUrl \in Urls
  BY DEF Row
<1>3. CASE company[c] \in Row
  BY <1>2, <1>3, AbsentRows DEF Live
<1>4. CASE company[c] = NoRow
  BY <1>4, AbsentRows DEF Live, Urls
<1>5. CASE company[c] = [NoRow EXCEPT !.state = "gone"]
  BY <1>5, AbsentRows DEF Live, Urls
<1> QED
  BY <1>1, <1>3, <1>4, <1>5

LEMMA CreatingCompany ==
    ASSUME RequestInv, CompanyInv, NEW r \in Requests,
           NEW c \in Companies, NEW taxId \in TaxIds \cup {NoTaxId},
           CreateCompany(r, c, taxId)
    PROVE  RequestInv' /\ CompanyInv'
<1> DEFINE row == [state |-> "live", taxId |-> taxId, logoUrl |-> "null"]
<1>1. RequestInv' /\ Keeps(r) /\ req'[r].pc = "done"
  BY Finishing DEF CreateCompany
<1>2. CASE ~TaxIdFree(c, taxId)
  <2>1. UNCHANGED companyVars
    BY <1>2 DEF CreateCompany, companyVars
  <2> QED
    BY <1>1, <2>1, CompaniesRest
<1>3. CASE TaxIdFree(c, taxId)
  <2>1. /\ company' = [company EXCEPT ![c] = row]
        /\ company[c] = NoRow /\ logos' = logos /\ unsettled' = unsettled
    BY <1>3 DEF CreateCompany
  <2>2. row \in Row /\ row.state = "live" /\ row.taxId = taxId /\ row.logoUrl = "null"
    BY DEF Row, Urls
  <2> HIDE DEF row
  <2>3. /\ \A d \in Companies \ {c} : company'[d] = company[d]
        /\ company'[c] = row
    BY <2>1 DEF CompanyInv, CompanyType
  <2>4. company[c].state = "none" /\ c \notin logos
    BY <2>1, RowsOfCompanies DEF CompanyInv
  <2>5. CompanyType'
    BY <2>1, <2>2 DEF CompanyInv, CompanyType
  <2>6. TaxIdsUnique'
    BY <1>3, <2>2, <2>3 DEF CompanyInv, TaxIdsUnique, TaxIdFree, Live
  <2>7. LogoStored' /\ \A d \in logos' : company'[d].state # "none"
    BY <2>1, <2>2, <2>3, <2>4 DEF CompanyInv, LogoStored, Live, CompanyType
  <2>8. CompanyCopies'
    <3> SUFFICES ASSUME NEW q \in Requests, q # r
                 PROVE  /\ req'[q].pc = "asked" => OfCompany(q)'
                        /\ req'[q].pc = "read" /\ req'[q].kind \in CompanyKinds
                              => OfCompany(q)' /\ Copy(q)'
      BY <1>1 DEF CompanyCopies
    <3>1. /\ req[q].pc = "asked" => OfCompany(q)
          /\ req[q].pc = "read" /\ req[q].kind \in CompanyKinds
                => OfCompany(q) /\ Copy(q)
      BY DEF CompanyInv, CompanyCopies
    <3>2. OfCompany(q) => OfCompany(q)'
      BY <1>1 DEF OfCompany, Keeps
    <3>3. OfCompany(q) /\ Copy(q) => Copy(q)'
      <4>1. req'[q].overlap = FALSE => req[q].overlap = FALSE
        BY <1>1, Flags DEF Keeps
      <4>2. OfCompany(q) /\ Copy(q) => req[q].on \in Companies \ {c}
        BY <2>4 DEF OfCompany, Copy
      <4> QED
        BY <1>1, <2>1, <2>3, <4>1, <4>2 DEF Copy, Live, Keeps, Ignored
    <3> QED
      BY <1>1, <3>1, <3>2, <3>3 DEF Keeps
  <2> QED
    BY <1>1, <2>5, <2>6, <2>7, <2>8 DEF CompanyInv
<1> QED
  BY <1>2, <1>3

(* A step by which request r, which has read its company, touches nothing   *)
(* but that company.                                                        *)
LEMMA CompanyWritten ==
    ASSUME RequestInv, RequestInv', CompanyInv, NEW r \in Requests, Keeps(r),
           req[r].pc = "read", OfCompany(r), NEW c, c = req[r].on,
           CompanyType', TaxIdsUnique', LogoStored',
           \A d \in logos' : company'[d].state # "none",
           \A d \in Companies \ {c} :
               /\ company'[d] = company[d]
               /\ d \in logos' <=> d \in logos
               /\ d \in unsettled' <=> d \in unsettled,
           company'[c].state # "none",
           req[r].overlap = TRUE /\ c \in unsettled => c \in unsettled',
           req[r].overlap = TRUE /\ Live(c)' /\ c \notin unsettled'
              => /\ Live(c)
                 /\ company'[c].logoUrl = "ours" <=> company[c].logoUrl = "ours",
           req'[r].pc # "done" => req'[r].pc = "read" /\ OfCompany(r)' /\ Copy(r)'
    PROVE  CompanyInv'
<1> SUFFICES ASSUME NEW q \in Requests, q # r
             PROVE  /\ req'[q].pc = "asked" => OfCompany(q)'
                    /\ req'[q].pc = "read" /\ req'[q].kind \in CompanyKinds
                          => OfCompany(q)' /\ Copy(q)'
  BY DEF CompanyInv, CompanyCopies
<1>1. req'[q].pc = "asked" => OfCompany(q)'
  BY DEF CompanyInv, CompanyCopies, OfCompany, Keeps
<1>2. req'[q].pc = "read" /\ req'[q].kind \in CompanyKinds
         => OfCompany(q)' /\ Copy(q)'
  BY OtherCopies
<1> QED
  BY <1>1, <1>2
LEMMA AskingCompany ==
    ASSUME RequestInv, CompanyInv, NEW r \in Requests, NEW c \in Companies,
           NEW kind \in CompanyKinds, NEW ask,
           kind = "update" => ask \in TaxIds \cup {NoTaxId},
           Admitted(r, c, kind, ask)
    PROVE  RequestInv' /\ CompanyInv'
<1>1. /\ RequestInv' /\ Keeps(r)
      /\ req'[r].kind = kind /\ req'[r].on = c /\ req'[r].ask = ask
      /\ req'[r].pc = "asked"
  BY Asking DEF Admitted
<1>2. UNCHANGED companyVars
  BY DEF Admitted
<1>3. OfCompany(r)'
  BY <1>1 DEF OfCompany
<1> QED
  BY <1>1, <1>2, <1>3, CompaniesRest

LEMMA ReadingCompany ==
    ASSUME RequestInv, CompanyInv, NEW r \in Requests, ReadCompany(r)
    PROVE  RequestInv' /\ CompanyInv'
<1>1. OfCompany(r) /\ req[r].on \in Companies
  BY DEF ReadCompany, CompanyInv, CompanyCopies, OfCompany
<1>2. PICK c \in Companies : c = req[r].on
  BY <1>1
<1>3. UNCHANGED companyVars
  BY DEF ReadCompany
<1>4. CASE Live(c)
  <2>1. PICK kind, ask, row :
           kind = req[r].kind /\ ask = req[r].ask /\ row = company[c]
    OBVIOUS
  <2>2. HasRead(r, kind, c, ask, row)
    BY <1>2, <1>4, <2>1 DEF ReadCompany
  <2>3. /\ RequestInv' /\ Keeps(r)
        /\ req'[r].kind = req[r].kind /\ req'[r].on = c
        /\ req'[r].ask = req[r].ask /\ req'[r].pc = "read"
        /\ req'[r].seen = company[c] /\ req'[r].moved = FALSE
    <3>1. /\ RequestInv' /\ Keeps(r)
          /\ req'[r].kind = kind /\ req'[r].on = c /\ req'[r].ask = ask
          /\ req'[r].pc = "read" /\ req'[r].seen = row /\ req'[r].moved = FALSE
      BY <2>2, Reading
    <3> QED
      BY <2>1, <3>1
  <2>4. OfCompany(r)'
    BY <1>1, <1>2, <2>3 DEF OfCompany
  <2>5. company[c] \in Row /\ company[c].state = "live"
    BY <1>2, <1>4, RowsOfCompanies DEF Live
  <2>6. Copy(r)'
    BY <1>3, <2>3, <2>5 DEF Copy, Live, companyVars
  <2> QED
    BY <1>3, <2>3, <2>4, <2>6, CompaniesRest
<1>5. CASE ~Live(c)
  <2>1. RequestInv' /\ Keeps(r) /\ req'[r].pc = "done"
    BY <1>2, <1>5, Finishing DEF ReadCompany
  <2> QED
    BY <1>3, <2>1, CompaniesRest
<1> QED
  BY <1>4, <1>5

LEMMA DoingCompany ==
    ASSUME CompanyInv, NEW r \in Requests, NEW kind \in CompanyKinds, Doing(r, kind)
    PROVE  /\ OfCompany(r) /\ Copy(r) /\ req[r].kind = kind
           /\ req[r].pc = "read" /\ req[r].on \in Companies
BY DEF Doing, CompanyInv, CompanyCopies, OfCompany

LEMMA UpdatingCompany ==
    ASSUME RequestInv, CompanyInv, NEW r \in Requests, UpdateCompany(r)
    PROVE  RequestInv' /\ CompanyInv'
<1>1. /\ OfCompany(r) /\ Copy(r) /\ req[r].kind = "update"
      /\ req[r].pc = "read" /\ req[r].on \in Companies
  BY DoingCompany, "update" \in CompanyKinds DEF UpdateCompany, CompanyKinds
<1> DEFINE row == UpdateProfile(req[r].seen, req[r].ask)
<1>2. PICK c \in Companies : c = req[r].on
  BY <1>1
<1>3. /\ row \in Row /\ row.logoUrl = req[r].seen.logoUrl
  BY <1>1 DEF UpdateProfile, Row, Copy, OfCompany
<1>4. SaveCompany(r, row) /\ logos' = logos /\ unsettled' = unsettled
  BY DEF UpdateCompany
<1> HIDE DEF row
<1>5. RequestInv' /\ Keeps(r) /\ req'[r].pc = "done"
  BY <1>4, Finishing DEF SaveCompany
<1>6. /\ company' \in [Companies ->
              Row \cup {NoRow, [NoRow EXCEPT !.state = "gone"]}]
      /\ TaxIdsUnique'
      /\ \A d \in Companies \ {c} : company'[d] = company[d]
      /\ company'[c] = IF CanSave(c, row) THEN row ELSE company[c]
      /\ \A d \in Companies : company'[d].state = company[d].state
  BY <1>1, <1>2, <1>3, <1>4, Saving
<1>7. Live(c) /\ c \notin unsettled
         => (company'[c].logoUrl = "ours" <=> company[c].logoUrl = "ours")
  BY <1>1, <1>2, <1>3, <1>6 DEF Copy
<1>8. LogoStored'
  BY <1>4, <1>6, <1>7 DEF CompanyInv, LogoStored, Live
<1>9. CompanyType'
  BY <1>4, <1>6 DEF CompanyType, CompanyInv
<1>10. /\ company'[c].state # "none"
       /\ \A d \in logos' : company'[d].state # "none"
  BY <1>1, <1>2, <1>4, <1>6 DEF Copy, CompanyInv, CompanyType
<1>11. req[r].overlap = TRUE /\ Live(c)' /\ c \notin unsettled'
          => /\ Live(c)
             /\ company'[c].logoUrl = "ours" <=> company[c].logoUrl = "ours"
  BY <1>4, <1>6, <1>7 DEF Live
<1>12. /\ \A d \in Companies \ {c} :
             /\ company'[d] = company[d]
             /\ d \in logos' <=> d \in logos
             /\ d \in unsettled' <=> d \in unsettled
       /\ req[r].overlap = TRUE /\ c \in unsettled => c \in unsettled'
  BY <1>4, <1>6
<1> QED
  BY <1>1, <1>2, <1>5, <1>6, <1>8, <1>9, <1>10, <1>11, <1>12, CompanyWritten

LEMMA PuttingLogo ==
    ASSUME RequestInv, CompanyInv, NEW r \in Requests, PutLogo(r)
    PROVE  RequestInv' /\ CompanyInv'
<1>1. /\ OfCompany(r) /\ Copy(r) /\ req[r].kind = "upload"
      /\ req[r].pc = "read" /\ req[r].on \in Companies
  BY DoingCompany, "upload" \in CompanyKinds DEF PutLogo, CompanyKinds
<1>2. PICK c \in Companies : c = req[r].on
  BY <1>1
<1>3. /\ company' = company
      /\ logos' = logos \cup {c} /\ unsettled' = unsettled \cup {c}
  BY <1>2 DEF PutLogo, upload
<1>4. /\ RequestInv' /\ Keeps(r)
      /\ req'[r].kind = "upload" /\ req'[r].on = c
      /\ req'[r].ask = req[r].ask /\ req'[r].pc = "read"
      /\ req'[r].seen = req[r].seen /\ req'[r].moved = TRUE
      /\ req'[r].overlap = req[r].overlap
  BY <1>1, <1>2, Moving DEF PutLogo
<1>5. OfCompany(r)' /\ Copy(r)'
  BY <1>1, <1>2, <1>3, <1>4 DEF OfCompany, Copy, Live
<1>6. CompanyType' /\ TaxIdsUnique' /\ LogoStored'
  BY <1>3 DEF CompanyInv, CompanyType, TaxIdsUnique, TaxIdFree, Live, LogoStored
<1>7. /\ company'[c].state # "none"
      /\ \A d \in logos' : company'[d].state # "none"
  BY <1>1, <1>2, <1>3 DEF Copy, CompanyInv
<1> QED
  BY <1>1, <1>2, <1>3, <1>4, <1>5, <1>6, <1>7, CompanyWritten

LEMMA DeletingLogo ==
    ASSUME RequestInv, CompanyInv, NEW r \in Requests, DeleteLogo(r)
    PROVE  RequestInv' /\ CompanyInv'
<1>1. /\ OfCompany(r) /\ Copy(r) /\ req[r].kind = "remove"
      /\ req[r].pc = "read" /\ req[r].on \in Companies
  BY DoingCompany, "remove" \in CompanyKinds DEF DeleteLogo, CompanyKinds
<1>2. PICK c \in Companies : c = req[r].on
  BY <1>1
<1>3. CASE req[r].seen.logoUrl = "null"
  <2>1. /\ UNCHANGED companyVars
        /\ RequestInv' /\ Keeps(r) /\ req'[r].pc = "done"
    BY <1>3, Finishing DEF DeleteLogo, companyVars
  <2> QED
    BY <2>1, CompaniesRest
<1>4. CASE req[r].seen.logoUrl # "null"
  <2>1. /\ company' = company
        /\ logos' = deleteByUrl(logos, c, req[r].seen.logoUrl)
        /\ unsettled' = IF Ignored(r) THEN unsettled ELSE unsettled \cup {c}
    BY <1>2, <1>4 DEF DeleteLogo
  <2>2. /\ RequestInv' /\ Keeps(r)
        /\ req'[r].kind = "remove" /\ req'[r].on = c
        /\ req'[r].ask = req[r].ask /\ req'[r].pc = "read"
        /\ req'[r].seen = req[r].seen /\ req'[r].moved = TRUE
        /\ req'[r].overlap = req[r].overlap
    BY <1>1, <1>2, <1>4, Moving DEF DeleteLogo
  <2>3. OfCompany(r)'
    BY <1>1, <1>2, <2>2 DEF OfCompany
  <2>4. company'[c].state # "none"
    BY <1>1, <1>2, <2>1 DEF Copy
  <2>5. CASE Ignored(r)
    <3>1. logos' = logos /\ unsettled' = unsettled
      BY <2>1, <2>5 DEF Ignored, deleteByUrl
    <3>2. Copy(r)'
      BY <1>1, <1>2, <2>1, <2>2, <2>5, <3>1 DEF Copy, Live, Ignored
    <3>3. CompanyType' /\ TaxIdsUnique' /\ LogoStored'
      BY <2>1, <3>1 DEF CompanyInv, CompanyType, TaxIdsUnique, TaxIdFree, Live, LogoStored
    <3>4. \A d \in logos' : company'[d].state # "none"
      BY <2>1, <3>1 DEF CompanyInv
    <3> QED
      <4>1. req[r].overlap = TRUE /\ Live(c)' /\ c \notin unsettled'
              => /\ Live(c)
                 /\ company'[c].logoUrl = "ours" <=> company[c].logoUrl = "ours"
        BY <2>1 DEF Live
      <4> QED
        BY <1>1, <1>2, <2>1, <2>2, <2>3, <2>4, <3>1, <3>2, <3>3, <3>4, <4>1,
           CompanyWritten
  <2>6. CASE ~Ignored(r)
    <3>1. req[r].seen.logoUrl = "ours"
      BY <1>1, <1>4, <2>6 DEF Ignored, Copy, Row, Urls
    <3>2. logos' = logos \ {c} /\ unsettled' = unsettled \cup {c}
      BY <2>1, <2>6, <3>1 DEF deleteByUrl
    <3>3. Copy(r)'
      BY <1>1, <1>2, <2>1, <2>2, <3>2 DEF Copy, Live
    <3>4. CompanyType' /\ TaxIdsUnique' /\ LogoStored'
      BY <2>1, <3>2 DEF CompanyInv, CompanyType, TaxIdsUnique, TaxIdFree, Live, LogoStored
    <3>5. \A d \in logos' : company'[d].state # "none"
      BY <2>1, <3>2 DEF CompanyInv
    <3> QED
      BY <1>1, <1>2, <2>1, <2>2, <2>3, <2>4, <3>2, <3>3, <3>4, <3>5, CompanyWritten
  <2> QED
    BY <2>5, <2>6
<1> QED
  BY <1>3, <1>4

LEMMA LinkingLogo ==
    ASSUME RequestInv, CompanyInv, NEW r \in Requests, LinkLogo(r)
    PROVE  RequestInv' /\ CompanyInv'
<1>1. /\ OfCompany(r) /\ Copy(r) /\ req[r].kind \in {"upload", "remove"}
      /\ req[r].pc = "read" /\ req[r].on \in Companies
  BY DoingCompany, "upload" \in CompanyKinds, "remove" \in CompanyKinds
     DEF LinkLogo, CompanyKinds
<1> DEFINE url == IF req[r].kind = "upload" THEN "ours" ELSE "null"
           row == UpdateLogo(req[r].seen, req[r].kind)
<1>2. PICK c \in Companies : c = req[r].on
  BY <1>1
<1>3. row \in Row /\ row.logoUrl = url /\ row.taxId = req[r].seen.taxId
  <2>1. url \in Urls /\ row = [req[r].seen EXCEPT !.logoUrl = url]
    BY DEF UpdateLogo, Urls
  <2> HIDE DEF url
  <2> QED
    BY <1>1, <2>1 DEF Row, Copy
<1>4. /\ SaveCompany(r, row) /\ logos' = logos
      /\ unsettled' = IF req[r].overlap \/ Ignored(r) THEN unsettled
                      ELSE unsettled \ {c}
      /\ req[r].moved = TRUE
  BY <1>2, Flags DEF LinkLogo
<1> HIDE DEF row
<1>5. RequestInv' /\ Keeps(r) /\ req'[r].pc = "done"
  BY <1>4, Finishing DEF SaveCompany
<1>6. /\ company' \in [Companies ->
              Row \cup {NoRow, [NoRow EXCEPT !.state = "gone"]}]
      /\ TaxIdsUnique'
      /\ \A d \in Companies \ {c} : company'[d] = company[d]
      /\ company'[c] = IF CanSave(c, row) THEN row ELSE company[c]
      /\ \A d \in Companies : company'[d].state = company[d].state
  BY <1>1, <1>2, <1>3, <1>4, Saving
<1>7. /\ Ignored(r) \/ c \in unsettled
      /\ req[r].overlap \in BOOLEAN
  BY <1>1, <1>2, <1>4, Flags DEF Copy
<1>14. Ignored(r) => /\ req[r].seen.logoUrl = "foreign" /\ url = "null"
                     /\ unsettled' = unsettled
  BY <1>4 DEF Ignored
<1>8. ASSUME req[r].overlap = FALSE, ~Ignored(r), Live(c)'
      PROVE  company'[c].logoUrl = "ours" <=> c \in logos'
  <2>1. company[c] = req[r].seen /\ (c \in logos <=> url = "ours")
    BY <1>1, <1>2, <1>4, <1>8 DEF Copy
  <2>2. Live(c)
    BY <1>6, <1>8 DEF Live
  <2>3. CanSave(c, row)
    BY <1>3, <2>1, <2>2 DEF CanSave, CompanyInv, TaxIdsUnique
  <2> QED
    BY <1>3, <1>4, <1>6, <2>1, <2>3
<1>15. ASSUME Live(c)', c \notin unsettled', Ignored(r) \/ req[r].overlap = TRUE
       PROVE  /\ Live(c)
              /\ company[c].logoUrl # "ours" /\ company'[c].logoUrl # "ours"
  <2>1. Ignored(r) /\ c \notin unsettled /\ Live(c)
    BY <1>4, <1>6, <1>7, <1>15 DEF Live
  <2>2. company[c].logoUrl # "ours"
    BY <1>1, <1>2, <1>14, <2>1 DEF Copy
  <2>3. company'[c] = company[c] \/ company'[c].logoUrl = "null"
    BY <1>3, <1>6, <1>14, <2>1
  <2> QED
    BY <2>1, <2>2, <2>3
<1>9. LogoStored'
  <2> SUFFICES ASSUME NEW d \in Companies, d \notin unsettled', Live(d)'
               PROVE  company'[d].logoUrl = "ours" <=> d \in logos'
    BY DEF LogoStored
  <2>1. CASE d # c
    BY <1>2, <1>4, <1>6, <2>1 DEF CompanyInv, LogoStored, Live
  <2>2. CASE d = c /\ (Ignored(r) \/ req[r].overlap = TRUE)
    <3>1. c \notin unsettled
      BY <1>4, <2>2
    <3> QED
      BY <1>1, <1>2, <1>4, <1>15, <2>2, <3>1 DEF CompanyInv, LogoStored
  <2>3. CASE d = c /\ ~Ignored(r) /\ req[r].overlap = FALSE
    BY <1>8, <2>3
  <2> QED
    BY <1>7, <2>1, <2>2, <2>3
<1>10. CompanyType'
  BY <1>4, <1>6 DEF CompanyType, CompanyInv
<1>11. /\ company'[c].state # "none"
       /\ \A d \in logos' : company'[d].state # "none"
  BY <1>1, <1>2, <1>4, <1>6 DEF Copy, CompanyInv, CompanyType
<1>12. /\ req[r].overlap = TRUE /\ c \in unsettled => c \in unsettled'
       /\ req[r].overlap = TRUE /\ Live(c)' /\ c \notin unsettled'
            => /\ Live(c)
               /\ company'[c].logoUrl = "ours" <=> company[c].logoUrl = "ours"
  BY <1>4, <1>15
<1>13. \A d \in Companies \ {c} :
             /\ company'[d] = company[d]
             /\ d \in logos' <=> d \in logos
             /\ d \in unsettled' <=> d \in unsettled
  BY <1>4, <1>6
<1> QED
  BY <1>1, <1>2, <1>5, <1>6, <1>9, <1>10, <1>11, <1>12, <1>13, CompanyWritten

LEMMA DeletingCompany ==
    ASSUME RequestInv, CompanyInv, NEW r \in Requests, DeleteCompany(r)
    PROVE  RequestInv' /\ CompanyInv'
<1> DEFINE gone == [NoRow EXCEPT !.state = "gone"]
<1>1. /\ OfCompany(r) /\ Copy(r) /\ req[r].pc = "read" /\ req[r].on \in Companies
  BY DoingCompany, "delete" \in CompanyKinds DEF DeleteCompany, CompanyKinds
<1>2. PICK c \in Companies : c = req[r].on
  BY <1>1
<1>3. /\ company' = [company EXCEPT ![c] = gone]
      /\ logos' = logos /\ unsettled' = unsettled
  BY <1>2 DEF DeleteCompany
<1>4. RequestInv' /\ Keeps(r) /\ req'[r].pc = "done"
  BY Finishing DEF DeleteCompany
<1>5. gone.state = "gone"
  BY AbsentRows
<1>6. CompanyType'
  BY <1>3 DEF CompanyInv, CompanyType
<1> HIDE DEF gone
<1>7. /\ \A d \in Companies \ {c} : company'[d] = company[d]
      /\ company'[c].state = "gone"
  BY <1>3, <1>5 DEF CompanyInv, CompanyType
<1>8. TaxIdsUnique'
  BY <1>7 DEF CompanyInv, TaxIdsUnique, TaxIdFree, Live
<1>9. LogoStored' /\ \A d \in logos' : company'[d].state # "none"
  BY <1>3, <1>7 DEF CompanyInv, LogoStored, Live, CompanyType
<1>10. ~Live(c)'
  BY <1>7 DEF Live
<1> QED
  BY <1>1, <1>2, <1>3, <1>4, <1>6, <1>7, <1>8, <1>9, <1>10, CompanyWritten

LEMMA CompanyStepKeeps ==
    ASSUME RequestInv, CompanyInv, NEW r \in Requests, CompanyStep(r)
    PROVE  RequestInv' /\ CompanyInv'
<1>1. ASSUME NEW c \in Companies, NEW taxId \in TaxIds \cup {NoTaxId},
             CreateCompany(r, c, taxId) \/ Admitted(r, c, "update", taxId)
      PROVE  RequestInv' /\ CompanyInv'
  BY <1>1, CreatingCompany, AskingCompany DEF CompanyKinds
<1>2. ASSUME NEW c \in Companies, NEW file, Admitted(r, c, "upload", file)
      PROVE  RequestInv' /\ CompanyInv'
  BY <1>2, AskingCompany DEF CompanyKinds
<1>3. ASSUME NEW c \in Companies, NEW kind \in {"remove", "delete"},
             Admitted(r, c, kind, "none")
      PROVE  RequestInv' /\ CompanyInv'
  <2>1. kind \in CompanyKinds /\ kind # "update"
    BY DEF CompanyKinds
  <2> QED
    BY <1>3, <2>1, AskingCompany
<1>4. CASE InvalidLogo(r)
  <2>1. RequestInv' /\ Keeps(r) /\ req'[r].pc = "done" /\ UNCHANGED companyVars
    BY <1>4, Finishing DEF InvalidLogo
  <2> QED
    BY <2>1, CompaniesRest
<1>5. CASE \/ ReadCompany(r) \/ UpdateCompany(r) \/ PutLogo(r)
           \/ DeleteLogo(r) \/ LinkLogo(r) \/ DeleteCompany(r)
  BY <1>5, ReadingCompany, UpdatingCompany, PuttingLogo, DeletingLogo,
     LinkingLogo, DeletingCompany
<1> QED
  BY <1>1, <1>2, <1>3, <1>4, <1>5 DEF CompanyStep
(* A row of a company changes as CompanyKept says, and a deleted company     *)
(* stays deleted.                                                           *)
LEMMA CompanyChanges ==
    ASSUME RequestInv, CompanyInv, NEW r \in Requests, CompanyStep(r)
    PROVE  CompanyKept /\ CompanyStaysGone
<1>1. CASE company' = company
  BY <1>1 DEF CompanyKept, CompanyStaysGone
<1>2. ASSUME NEW c \in Companies, NEW taxId, CreateCompany(r, c, taxId)
      PROVE  CompanyKept /\ CompanyStaysGone
  <2>1. /\ company[c] = NoRow /\ ~Live(c) /\ company[c].state = "none"
        /\ \A d \in Companies \ {c} : company'[d] = company[d]
    BY <1>2, AbsentRows
       DEF CreateCompany, CompanyInv, CompanyType, Live
  <2> QED
    BY <2>1 DEF CompanyKept, CompanyStaysGone
<1>3. CASE DeleteCompany(r)
  <2>1. /\ req[r].on \in Companies
        /\ company' = [company EXCEPT ![req[r].on] = [NoRow EXCEPT !.state = "gone"]]
    BY <1>3, DoingCompany, "delete" \in CompanyKinds DEF DeleteCompany, CompanyKinds
  <2>2. PICK c \in Companies : c = req[r].on
    BY <2>1
  <2>3. /\ company'[c].state = "gone"
        /\ \A d \in Companies \ {c} : company'[d] = company[d]
    BY <2>1, <2>2, AbsentRows DEF CompanyInv, CompanyType
  <2> QED
    BY <2>3 DEF CompanyKept, CompanyStaysGone, Live
<1>4. ASSUME NEW row \in Row, SaveCompany(r, row),
             OfCompany(r), Copy(r), req[r].pc = "read",
             \/ req[r].kind = "update" /\ row.logoUrl = req[r].seen.logoUrl
             \/ req[r].kind \in {"upload", "remove"} /\ row.taxId = req[r].seen.taxId
      PROVE  CompanyKept /\ CompanyStaysGone
  <2>1. PICK c \in Companies : c = req[r].on
    BY <1>4 DEF OfCompany
  <2>2. /\ \A d \in Companies \ {c} : company'[d] = company[d]
        /\ company'[c] = IF CanSave(c, row) THEN row ELSE company[c]
        /\ \A d \in Companies : company'[d].state = company[d].state
    BY <1>4, <2>1, Saving
  <2>3. Ends(r)
    BY <1>4, Finishing DEF SaveCompany, Ends
  <2>4. CASE req[r].overlap = TRUE
    BY <2>1, <2>2, <2>3, <2>4 DEF CompanyKept, CompanyStaysGone
  <2>5. CASE req[r].overlap = FALSE
    <3>1. company[c] = req[r].seen
      BY <1>4, <2>1, <2>5 DEF Copy
    <3> QED
      BY <1>4, <2>1, <2>2, <2>3, <3>1 DEF CompanyKept, CompanyStaysGone
  <2> QED
    BY <2>4, <2>5, Flags
<1>5. CASE UpdateCompany(r)
  <2>1. /\ OfCompany(r) /\ Copy(r) /\ req[r].kind = "update" /\ req[r].pc = "read"
    BY <1>5, DoingCompany, "update" \in CompanyKinds DEF UpdateCompany, CompanyKinds
  <2>2. PICK row : row = UpdateProfile(req[r].seen, req[r].ask)
    OBVIOUS
  <2>3. row \in Row /\ row.logoUrl = req[r].seen.logoUrl
    BY <2>1, <2>2 DEF UpdateProfile, Row, Copy, OfCompany
  <2>4. SaveCompany(r, row)
    BY <1>5, <2>2 DEF UpdateCompany, SaveCompany, CanSave
  <2> QED
    BY <1>4, <2>1, <2>3, <2>4
<1>6. CASE LinkLogo(r)
  <2> DEFINE url == IF req[r].kind = "upload" THEN "ours" ELSE "null"
  <2>1. /\ OfCompany(r) /\ Copy(r) /\ req[r].kind \in {"upload", "remove"}
        /\ req[r].pc = "read"
    BY <1>6, DoingCompany, "upload" \in CompanyKinds, "remove" \in CompanyKinds
       DEF LinkLogo, CompanyKinds
  <2>2. PICK row : row = UpdateLogo(req[r].seen, req[r].kind)
    OBVIOUS
  <2>3. row \in Row /\ row.taxId = req[r].seen.taxId
    <3>1. url \in Urls /\ row = [req[r].seen EXCEPT !.logoUrl = url]
      BY <2>2 DEF UpdateLogo, Urls
    <3> HIDE DEF url
    <3> QED
      BY <2>1, <3>1 DEF Row, Copy
  <2>4. SaveCompany(r, row)
    BY <1>6, <2>2 DEF LinkLogo, SaveCompany, CanSave
  <2> QED
    BY <1>4, <2>1, <2>3, <2>4
<1>7. (\E c, kind, ask : Admitted(r, c, kind, ask)) => company' = company
  BY DEF Admitted, companyVars
<1>8. ReadCompany(r) \/ InvalidLogo(r) \/ PutLogo(r) \/ DeleteLogo(r)
         => company' = company
  BY DEF ReadCompany, InvalidLogo, PutLogo, DeleteLogo, companyVars
<1> QED
  BY <1>1, <1>2, <1>3, <1>5, <1>6, <1>7, <1>8 DEF CompanyStep

-----------------------------------------------------------------------------
(* Profiles and avatars.                                                    *)

ProfileKinds == {"create", "contact", "consent", "avatar"}

OfPerson(q) ==
    /\ req[q].kind \in ProfileKinds
    /\ req[q].on \in People
    /\ req[q].kind = "contact" => req[q].ask \in Contacts

\* The copy of a profile that request q is going to write.
Draft(q) ==
    LET u == req[q].on IN
    /\ req[q].seen \in Profile /\ req[q].seen.exists = TRUE
    /\ profile[u].exists = TRUE
    /\ req[q].overlap = FALSE => profile[u] = req[q].seen
    /\ req[q].seen.avatarUrl = TRUE => u \in avatars
    /\ u \in avatars /\ u \notin unlinked => req[q].seen.avatarUrl = TRUE
    /\ req[q].moved = TRUE => u \in avatars

InPerson(q) == OfPerson(q) /\ (req[q].kind # "create" => Draft(q))

ProfileInv ==
    /\ ProfileType
    /\ \A u \in avatars : profile[u].exists = TRUE
    /\ AvatarStored
    /\ \A q \in Requests :
          req[q].pc = "read" /\ req[q].kind \in ProfileKinds => InPerson(q)

(* A step that leaves the profiles alone, and what it makes of its own       *)
(* request is in order.                                                     *)
LEMMA ProfilesRest ==
    ASSUME ProfileInv, RequestInv, RequestInv', NEW r \in Requests, Keeps(r),
           UNCHANGED profileVars,
           req'[r].pc = "read" /\ req'[r].kind \in ProfileKinds => InPerson(r)'
    PROVE  ProfileInv'
<1>1. /\ profile' = profile /\ avatars' = avatars /\ unlinked' = unlinked
  BY DEF profileVars
<1>2. ASSUME NEW q \in Requests, q # r,
             req'[q].pc = "read", req'[q].kind \in ProfileKinds
      PROVE  InPerson(q)'
  <2>1. req'[q].overlap = FALSE => req[q].overlap = FALSE
    BY <1>2, Flags DEF Keeps
  <2>2. InPerson(q)
    BY <1>2 DEF ProfileInv, Keeps
  <2>3. OfPerson(q)'
    BY <1>2, <2>2 DEF InPerson, OfPerson, Keeps
  <2>4. Draft(q) => Draft(q)'
    BY <1>1, <1>2, <2>1 DEF Draft, Keeps
  <2> QED
    BY <1>2, <2>2, <2>3, <2>4 DEF InPerson, Keeps
<1>3. ProfileType' /\ AvatarStored' /\ \A u \in avatars' : profile'[u].exists = TRUE
  BY <1>1 DEF ProfileInv, ProfileType, AvatarStored
<1> QED
  BY <1>2, <1>3 DEF ProfileInv

(* A request writes the row or the avatar of its user.                      *)
LEMMA ProfileWritten ==
    ASSUME ProfileInv, RequestInv, RequestInv', NEW r \in Requests, Keeps(r),
           req[r].pc = "read", NEW u \in People, u = req[r].on,
           ProfileType', AvatarStored',
           \A v \in avatars' : profile'[v].exists = TRUE,
           \A v \in People \ {u} :
               /\ profile'[v] = profile[v]
               /\ v \in avatars' <=> v \in avatars
               /\ v \in unlinked' <=> v \in unlinked,
           profile[u].exists = TRUE => profile'[u].exists = TRUE,
           u \in avatars => u \in avatars',
           req[r].overlap = TRUE /\ u \in avatars' /\ u \notin unlinked'
              => u \in avatars /\ u \notin unlinked,
           req'[r].pc = "read" => InPerson(r)'
    PROVE  ProfileInv'
<1> SUFFICES ASSUME NEW q \in Requests, q # r,
                    req'[q].pc = "read", req'[q].kind \in ProfileKinds
             PROVE  InPerson(q)'
  BY DEF ProfileInv
<1>1. InPerson(q) /\ req[q].pc = "read"
  BY DEF ProfileInv, Keeps
<1>2. OfPerson(q)'
  BY <1>1 DEF InPerson, OfPerson, Keeps
<1>3. req'[q].overlap = FALSE => req[q].overlap = FALSE
  BY Flags DEF Keeps
<1>4. ASSUME Draft(q), req[q].on = u
      PROVE  Draft(q)'
  <2>1. req[r].overlap = TRUE /\ req[q].overlap = TRUE
    BY <1>1, <1>4, AwareOfEachOther
  <2>2. req'[q].overlap = TRUE
    BY <2>1 DEF Keeps
  <2>3. /\ req'[q].seen = req[q].seen /\ req'[q].on = u
        /\ req'[q].moved = req[q].moved
    BY <1>4 DEF Keeps
  <2> QED
    BY <1>4, <2>1, <2>2, <2>3 DEF Draft
<1>5. ASSUME Draft(q), req[q].on # u
      PROVE  Draft(q)'
  <2>1. req[q].on \in People \ {u}
    BY <1>1, <1>5 DEF InPerson, OfPerson
  <2> QED
    BY <1>3, <1>5, <2>1 DEF Draft, Keeps
<1> QED
  BY <1>1, <1>2, <1>4, <1>5 DEF InPerson, Keeps
LEMMA DoingProfile ==
    ASSUME ProfileInv, NEW r \in Requests, NEW kind \in ProfileKinds, Doing(r, kind)
    PROVE  /\ OfPerson(r) /\ (kind # "create" => Draft(r)) /\ req[r].kind = kind
           /\ req[r].pc = "read" /\ req[r].on \in People
BY DEF Doing, ProfileInv, InPerson, OfPerson

LEMMA ProfileRow ==
    ASSUME NEW row \in Profile
    PROVE  /\ row.exists \in BOOLEAN /\ row.avatarUrl \in BOOLEAN
           /\ row.consent \in BOOLEAN
BY DEF Profile

LEMMA ReadingProfile ==
    ASSUME RequestInv, ProfileInv, NEW r \in Requests, NEW u \in People,
           NEW kind \in ProfileKinds, NEW ask, kind = "contact" => ask \in Contacts,
           ReadProfile(r, u, kind, ask)
    PROVE  RequestInv' /\ ProfileInv'
<1>1. PICK row : row = profile[u]
  OBVIOUS
<1>2. HasRead(r, kind, u, ask, row)
  BY <1>1 DEF ReadProfile, AskedAndRead, HasRead
<1>3. /\ RequestInv' /\ Keeps(r)
      /\ req'[r].kind = kind /\ req'[r].on = u /\ req'[r].ask = ask
      /\ req'[r].pc = "read" /\ req'[r].seen = row /\ req'[r].moved = FALSE
  BY <1>2, Reading
<1>4. UNCHANGED profileVars
  BY DEF ReadProfile
<1>5. OfPerson(r)'
  BY <1>3 DEF OfPerson
<1>6. row \in Profile
  BY <1>1 DEF ProfileInv, ProfileType
<1>7. kind # "create" => row.exists = TRUE
  BY <1>1, <1>6, ProfileRow DEF ReadProfile
<1>8. /\ row.avatarUrl = TRUE => u \in avatars
      /\ u \in avatars /\ u \notin unlinked => row.avatarUrl = TRUE
  BY <1>1, <1>6, ProfileRow DEF ProfileInv, AvatarStored
<1>9. kind # "create" => Draft(r)'
  BY <1>1, <1>3, <1>4, <1>6, <1>7, <1>8 DEF Draft, profileVars
<1>10. InPerson(r)'
  BY <1>3, <1>5, <1>9 DEF InPerson
<1> QED
  BY <1>3, <1>4, <1>10, ProfilesRest

LEMMA CreatingProfile ==
    ASSUME RequestInv, ProfileInv, NEW r \in Requests, CreateProfile(r)
    PROVE  RequestInv' /\ ProfileInv'
<1>1. /\ req[r].pc = "read" /\ req[r].on \in People
  BY DoingProfile DEF CreateProfile, ProfileKinds
<1>2. PICK u \in People : u = req[r].on
  BY <1>1
<1>3. RequestInv' /\ Keeps(r) /\ req'[r].pc = "done"
  BY Finishing DEF CreateProfile
<1>4. CASE profile[u].exists = TRUE
  <2>1. UNCHANGED profileVars
    BY <1>2, <1>4 DEF CreateProfile, profileVars
  <2> QED
    BY <1>3, <2>1, ProfilesRest
<1>5. CASE profile[u].exists = FALSE
  <2>1. /\ profile' = [profile EXCEPT ![u] = Created]
        /\ avatars' = avatars /\ unlinked' = unlinked
    BY <1>2, <1>5 DEF CreateProfile
  <2>2. Created \in Profile /\ Created.exists = TRUE /\ Created.avatarUrl = FALSE
    BY DEF Created, Profile
  <2>3. ProfileType'
    BY <2>1, <2>2 DEF ProfileInv, ProfileType
  <2>4. /\ profile'[u] = Created
        /\ \A v \in People \ {u} : profile'[v] = profile[v]
    BY <2>1 DEF ProfileInv, ProfileType
  <2>5. u \notin avatars
    BY <1>5 DEF ProfileInv
  <2>6. AvatarStored' /\ \A v \in avatars' : profile'[v].exists = TRUE
    BY <2>1, <2>2, <2>4, <2>5 DEF ProfileInv, AvatarStored, ProfileType
  <2> QED
    BY <1>1, <1>2, <1>3, <1>5, <2>1, <2>3, <2>4, <2>5, <2>6, ProfileWritten
<1>6. profile[u].exists \in BOOLEAN
  BY ProfileRow DEF ProfileInv, ProfileType
<1> QED
  BY <1>4, <1>5, <1>6

(* What a statement that writes a profile does to the table.                *)
LEMMA SavingProfile ==
    ASSUME ProfileInv, NEW r \in Requests, NEW u \in People, u = req[r].on,
           NEW row \in Profile, row.exists = TRUE, SaveProfile(r, row)
    PROVE  /\ profile' \in [People -> Profile]
           /\ \A v \in People \ {u} : profile'[v] = profile[v]
           /\ profile'[u].exists = TRUE
           /\ profile'[u].contact = row.contact
           /\ profile'[u].avatarUrl = row.avatarUrl
           /\ profile[u].consent = TRUE => profile'[u].consent = TRUE
<1> DEFINE consent == row.consent \/ profile[u].consent
<1>1. profile' = [profile EXCEPT ![u] = [row EXCEPT !.consent = consent]]
  BY DEF SaveProfile, ToPersistence
<1>2. /\ consent \in BOOLEAN
      /\ profile[u].consent = TRUE => consent = TRUE
  OBVIOUS
<1> HIDE DEF consent
<1>3. PICK stored : stored = [row EXCEPT !.consent = consent]
  OBVIOUS
<1>4. /\ stored \in Profile
      /\ stored.exists = row.exists /\ stored.contact = row.contact
      /\ stored.avatarUrl = row.avatarUrl /\ stored.consent = consent
  BY <1>2, <1>3 DEF Profile
<1>5. profile' = [profile EXCEPT ![u] = stored]
  BY <1>1, <1>3
<1>6. /\ profile' \in [People -> Profile] /\ profile'[u] = stored
      /\ \A v \in People \ {u} : profile'[v] = profile[v]
  BY <1>4, <1>5 DEF ProfileInv, ProfileType
<1> QED
  BY <1>2, <1>4, <1>6

(* An edit that leaves the avatar alone.                                    *)
LEMMA EditingProfile ==
    ASSUME RequestInv, ProfileInv, NEW r \in Requests, OfPerson(r), Draft(r),
           req[r].pc = "read",
           NEW row \in Profile, row.exists = TRUE,
           row.avatarUrl = req[r].seen.avatarUrl,
           SaveProfile(r, row), UNCHANGED <<avatars, unlinked>>
    PROVE  RequestInv' /\ ProfileInv'
<1>1. PICK u \in People : u = req[r].on
  BY DEF OfPerson
<1>2. RequestInv' /\ Keeps(r) /\ req'[r].pc = "done"
  BY Finishing DEF SaveProfile
<1>3. /\ profile' \in [People -> Profile]
      /\ \A v \in People \ {u} : profile'[v] = profile[v]
      /\ profile'[u].exists = TRUE
      /\ profile'[u].avatarUrl = row.avatarUrl
  BY <1>1, SavingProfile
<1>4. AvatarStored' /\ \A v \in avatars' : profile'[v].exists = TRUE
  BY <1>1, <1>3 DEF ProfileInv, AvatarStored, ProfileType, Draft
<1>5. ProfileType'
  BY <1>3 DEF ProfileInv, ProfileType
<1> QED
  BY <1>1, <1>2, <1>3, <1>4, <1>5, ProfileWritten

LEMMA ContactOrConsent ==
    ASSUME RequestInv, ProfileInv, NEW r \in Requests,
           UpdateContactInfo(r) \/ AcceptConsent(r)
    PROVE  \E row \in Profile :
              /\ OfPerson(r) /\ Draft(r) /\ req[r].pc = "read"
              /\ row.exists = TRUE /\ row.avatarUrl = req[r].seen.avatarUrl
              /\ row.contact = req[r].seen.contact \/ req[r].kind = "contact"
              /\ SaveProfile(r, row) /\ UNCHANGED <<avatars, unlinked>>
<1>1. CASE UpdateContactInfo(r)
  <2>1. /\ OfPerson(r) /\ Draft(r) /\ req[r].kind = "contact" /\ req[r].pc = "read"
    BY <1>1, DoingProfile DEF UpdateContactInfo, ProfileKinds
  <2>2. PICK row : row = [req[r].seen EXCEPT !.contact = req[r].ask]
    OBVIOUS
  <2>3. /\ row \in Profile /\ row.exists = req[r].seen.exists
        /\ row.avatarUrl = req[r].seen.avatarUrl
    BY <2>1, <2>2 DEF Draft, OfPerson, Profile
  <2>4. SaveProfile(r, row) /\ UNCHANGED <<avatars, unlinked>>
    BY <1>1, <2>2 DEF UpdateContactInfo, SaveProfile
  <2> QED
    BY <2>1, <2>3, <2>4 DEF Draft
<1>2. CASE AcceptConsent(r)
  <2> DEFINE yes == TRUE
  <2>1. /\ OfPerson(r) /\ Draft(r) /\ req[r].pc = "read"
    BY <1>2, DoingProfile DEF AcceptConsent, ProfileKinds
  <2>2. PICK row : row = [req[r].seen EXCEPT !.consent = yes]
    OBVIOUS
  <2>3. /\ row \in Profile /\ row.exists = req[r].seen.exists
        /\ row.avatarUrl = req[r].seen.avatarUrl
        /\ row.contact = req[r].seen.contact
    <3>1. yes \in BOOLEAN
      OBVIOUS
    <3> HIDE DEF yes
    <3> QED
      BY <2>1, <2>2, <3>1 DEF Draft, Profile
  <2>4. SaveProfile(r, row) /\ UNCHANGED <<avatars, unlinked>>
    BY <1>2, <2>2 DEF AcceptConsent, SaveProfile
  <2> QED
    BY <2>1, <2>3, <2>4 DEF Draft
<1> QED
  BY <1>1, <1>2

LEMMA PuttingAvatar ==
    ASSUME RequestInv, ProfileInv, NEW r \in Requests, PutAvatar(r)
    PROVE  RequestInv' /\ ProfileInv'
<1>1. /\ OfPerson(r) /\ Draft(r) /\ req[r].kind = "avatar"
      /\ req[r].pc = "read" /\ req[r].on \in People
  BY DoingProfile DEF PutAvatar, ProfileKinds
<1>2. PICK u \in People : u = req[r].on
  BY <1>1
<1>3. /\ profile' = profile
      /\ avatars' = avatars \cup {u} /\ unlinked' = unlinked \cup {u}
  BY <1>2 DEF PutAvatar, PutObject
<1>4. /\ RequestInv' /\ Keeps(r)
      /\ req'[r].kind = "avatar" /\ req'[r].on = u
      /\ req'[r].pc = "read" /\ req'[r].seen = req[r].seen
      /\ req'[r].overlap = req[r].overlap
  BY <1>1, <1>2, Moving DEF PutAvatar
<1>5. InPerson(r)'
  BY <1>1, <1>2, <1>3, <1>4 DEF InPerson, OfPerson, Draft
<1>6. ProfileType' /\ AvatarStored' /\ \A v \in avatars' : profile'[v].exists = TRUE
  BY <1>1, <1>2, <1>3 DEF ProfileInv, ProfileType, AvatarStored, Draft
<1> QED
  BY <1>1, <1>2, <1>3, <1>4, <1>5, <1>6, ProfileWritten

LEMMA AvatarRow ==
    ASSUME RequestInv, ProfileInv, NEW r \in Requests, LinkAvatar(r)
    PROVE  \E row \in Profile :
              /\ OfPerson(r) /\ Draft(r) /\ req[r].pc = "read"
              /\ req[r].moved = TRUE
              /\ row.exists = TRUE /\ row.avatarUrl = TRUE
              /\ row.contact = req[r].seen.contact
              /\ SaveProfile(r, row) /\ avatars' = avatars
<1> DEFINE yes == TRUE
<1>1. /\ OfPerson(r) /\ Draft(r) /\ req[r].pc = "read"
  BY DoingProfile DEF LinkAvatar, ProfileKinds
<1>2. PICK row : row = [req[r].seen EXCEPT !.avatarUrl = yes]
  OBVIOUS
<1>3. /\ row \in Profile /\ row.exists = req[r].seen.exists
      /\ row.avatarUrl = yes /\ row.contact = req[r].seen.contact
  <2>1. yes \in BOOLEAN
    OBVIOUS
  <2> HIDE DEF yes
  <2> QED
    BY <1>1, <1>2, <2>1 DEF Draft, Profile
<1>4. SaveProfile(r, row) /\ avatars' = avatars /\ req[r].moved = TRUE
  BY <1>2, Flags DEF LinkAvatar, SaveProfile
<1> QED
  BY <1>1, <1>3, <1>4 DEF Draft

LEMMA LinkingAvatar ==
    ASSUME RequestInv, ProfileInv, NEW r \in Requests, LinkAvatar(r)
    PROVE  RequestInv' /\ ProfileInv'
<1>1. PICK row \in Profile :
         /\ OfPerson(r) /\ Draft(r) /\ req[r].pc = "read" /\ req[r].moved = TRUE
         /\ row.exists = TRUE /\ row.avatarUrl = TRUE
         /\ SaveProfile(r, row) /\ avatars' = avatars
  BY AvatarRow
<1>2. PICK u \in People : u = req[r].on
  BY <1>1 DEF OfPerson
<1>3. RequestInv' /\ Keeps(r) /\ req'[r].pc = "done"
  BY <1>1, Finishing DEF SaveProfile
<1>4. /\ profile' \in [People -> Profile]
      /\ \A v \in People \ {u} : profile'[v] = profile[v]
      /\ profile'[u].exists = TRUE /\ profile'[u].avatarUrl = TRUE
  BY <1>1, <1>2, SavingProfile
<1>5. /\ unlinked' \subseteq unlinked
      /\ \A v \in People \ {u} : v \in unlinked' <=> v \in unlinked
      /\ req[r].overlap = TRUE => unlinked' = unlinked
      /\ u \in avatars
  BY <1>1, <1>2 DEF LinkAvatar, Draft
<1>6. AvatarStored' /\ \A v \in avatars' : profile'[v].exists = TRUE
  BY <1>1, <1>4, <1>5 DEF ProfileInv, AvatarStored, ProfileType
<1>7. ProfileType'
  BY <1>1, <1>4, <1>5 DEF ProfileInv, ProfileType
<1> QED
  BY <1>1, <1>2, <1>3, <1>4, <1>5, <1>6, <1>7, ProfileWritten

LEMMA ProfileStepKeeps ==
    ASSUME RequestInv, ProfileInv, NEW r \in Requests, ProfileStep(r)
    PROVE  RequestInv' /\ ProfileInv'
<1>1. ASSUME NEW u \in People, NEW contact \in Contacts,
             ReadProfile(r, u, "contact", contact)
      PROVE  RequestInv' /\ ProfileInv'
  BY <1>1, ReadingProfile DEF ProfileKinds
<1>2. ASSUME NEW u \in People, NEW kind \in {"create", "consent"},
             ReadProfile(r, u, kind, "none")
      PROVE  RequestInv' /\ ProfileInv'
  <2>1. kind \in ProfileKinds /\ kind # "contact"
    BY DEF ProfileKinds
  <2> QED
    BY <1>2, <2>1, ReadingProfile
<1>3. ASSUME NEW u \in People, NEW file, ReadProfile(r, u, "avatar", file)
      PROVE  RequestInv' /\ ProfileInv'
  BY <1>3, ReadingProfile DEF ProfileKinds
<1>4. CASE InvalidAvatar(r)
  <2>1. RequestInv' /\ Keeps(r) /\ req'[r].pc = "done" /\ UNCHANGED profileVars
    BY <1>4, Finishing DEF InvalidAvatar
  <2> QED
    BY <2>1, ProfilesRest
<1>5. CASE UpdateContactInfo(r) \/ AcceptConsent(r)
  BY <1>5, ContactOrConsent, EditingProfile
<1> QED
  BY <1>1, <1>2, <1>3, <1>4, <1>5, CreatingProfile, PuttingAvatar, LinkingAvatar
     DEF ProfileStep

(* A profile changes as ProfileKept says.                                   *)
LEMMA ProfileChanges ==
    ASSUME RequestInv, ProfileInv, NEW r \in Requests, ProfileStep(r)
    PROVE  ProfileKept
<1>1. CASE profile' = profile
  BY <1>1 DEF ProfileKept
<1>2. CASE CreateProfile(r)
  <2>1. PICK u \in People : u = req[r].on
    BY <1>2, DoingProfile DEF CreateProfile, ProfileKinds
  <2>2. /\ \A v \in People \ {u} : profile'[v] = profile[v]
        /\ profile[u].exists = TRUE => profile'[u] = profile[u]
    BY <1>2, <2>1 DEF CreateProfile, ProfileInv, ProfileType
  <2>3. profile[u].exists \in BOOLEAN
    BY ProfileRow DEF ProfileInv, ProfileType
  <2> QED
    BY <2>2, <2>3 DEF ProfileKept
<1>3. ASSUME NEW row \in Profile, SaveProfile(r, row), OfPerson(r), Draft(r),
             req[r].pc = "read", row.exists = TRUE,
             \/ row.avatarUrl = req[r].seen.avatarUrl
             \/ row.avatarUrl = TRUE,
             row.contact = req[r].seen.contact \/ req[r].kind = "contact"
      PROVE  ProfileKept
  <2>1. PICK u \in People : u = req[r].on
    BY <1>3 DEF OfPerson
  <2>2. /\ profile' \in [People -> Profile]
        /\ \A v \in People \ {u} : profile'[v] = profile[v]
        /\ profile'[u].exists = TRUE
        /\ profile'[u].contact = row.contact
        /\ profile'[u].avatarUrl = row.avatarUrl
        /\ profile[u].consent = TRUE => profile'[u].consent = TRUE
    BY <1>3, <2>1, SavingProfile
  <2>3. Ends(r)
    BY <1>3, Finishing DEF SaveProfile, Ends
  <2>4. /\ profile[u].consent \in BOOLEAN /\ profile[u].avatarUrl \in BOOLEAN
        /\ profile'[u].avatarUrl \in BOOLEAN
    BY <2>2, ProfileRow DEF ProfileInv, ProfileType
  <2>5. CASE req[r].overlap = TRUE
    BY <2>1, <2>2, <2>3, <2>4, <2>5 DEF ProfileKept
  <2>6. CASE req[r].overlap = FALSE
    <3>1. profile[u] = req[r].seen
      BY <1>3, <2>1, <2>6 DEF Draft
    <3>2. /\ profile[u].avatarUrl = TRUE => profile'[u].avatarUrl = TRUE
          /\ profile'[u].contact # profile[u].contact => req[r].kind = "contact"
      BY <1>3, <2>2, <3>1
    <3> QED
      BY <2>1, <2>2, <2>3, <2>4, <3>2 DEF ProfileKept
  <2> QED
    BY <2>5, <2>6, Flags
<1>4. CASE UpdateContactInfo(r) \/ AcceptConsent(r)
  BY <1>3, <1>4, ContactOrConsent
<1>5. CASE LinkAvatar(r)
  BY <1>3, <1>5, AvatarRow
<1>6. (\E u, kind, ask : ReadProfile(r, u, kind, ask)) => profile' = profile
  BY DEF ReadProfile, profileVars
<1>7. InvalidAvatar(r) \/ PutAvatar(r) => profile' = profile
  BY DEF InvalidAvatar, PutAvatar, profileVars
<1> QED
  BY <1>1, <1>2, <1>4, <1>5, <1>6, <1>7 DEF ProfileStep
-----------------------------------------------------------------------------
(* Feature flags.                                                           *)

FlagRows == [id : Requests, environment : Environments, enabled : BOOLEAN]

Sets(q) == req[q].pc = "read" /\ req[q].kind = "set"

\* What request q, which is going to set a flag, has read.
Setter(q) ==
    /\ req[q].on \in Environments /\ req[q].ask \in BOOLEAN
    /\ \/ req[q].seen = {}
       \/ \E f \in FlagRows : /\ req[q].seen = {f} /\ f.environment = req[q].on
                              /\ req[f.id].pc = "done"
    /\ req[q].on = AllEnvironments /\ req[q].seen = {} /\ req[q].overlap = FALSE
          => Found(AllEnvironments) = {}

\* A row for all environments with this id is in the table, or may come back.
ForAll(i) ==
    \/ \E f \in flags : f.id = i /\ f.environment = AllEnvironments
    \/ \E q \in Requests : /\ Sets(q)
                           /\ \E f \in req[q].seen :
                                 f.id = i /\ f.environment = AllEnvironments

ForAllOverlapped ==
    \A i, j \in Requests :
        ForAll(i) /\ ForAll(j) /\ i # j
            => req[i].overlap = TRUE \/ req[j].overlap = TRUE

FlagInv ==
    /\ flags \subseteq FlagRows
    /\ \A f \in flags : req[f.id].pc = "done"
    /\ \A f, g \in flags : f.id = g.id => f = g
    /\ \A f, g \in flags : f.id # g.id /\ f.environment = g.environment
                              => f.environment = AllEnvironments
    /\ \A q \in Requests : Sets(q) => Setter(q)
    /\ ForAllOverlapped

LEMMA FlagRow ==
    ASSUME NEW f \in FlagRows
    PROVE  f.id \in Requests /\ f.environment \in Environments /\ f.enabled \in BOOLEAN
BY DEF FlagRows

LEMMA FlagInvUnique ==
    ASSUME RequestInv, FlagInv
    PROVE  FlagsUnique
<1> SUFFICES ASSUME NEW f \in flags, NEW g \in flags, f # g,
                    f.environment = g.environment
             PROVE  /\ f.environment = AllEnvironments
                    /\ req[f.id].overlap \/ req[g.id].overlap
  BY DEF FlagsUnique
<1>1. f.id # g.id /\ f.environment = AllEnvironments
  BY DEF FlagInv
<1>2. ForAll(f.id) /\ ForAll(g.id)
  BY <1>1 DEF ForAll
<1>3. f.id \in Requests /\ g.id \in Requests
  BY FlagRow DEF FlagInv
<1>4. req[f.id].overlap = TRUE \/ req[g.id].overlap = TRUE
  BY <1>1, <1>2, <1>3 DEF FlagInv, ForAllOverlapped
<1> QED
  BY <1>1, <1>4

(* A step that makes no new rows: a row of the table is an old one, or has   *)
(* the id and the environment of an old one.                                *)
LEMMA FlagsRest ==
    ASSUME FlagInv, RequestInv, RequestInv', NEW r \in Requests, Keeps(r),
           req[r].pc # "done",
           flags' \subseteq FlagRows,
           \A f, g \in flags' : f.id = g.id => f = g,
           \A g \in flags' : \E f \in flags :
               f.id = g.id /\ f.environment = g.environment,
           Sets(r)' => Setter(r)' /\ req'[r].seen \subseteq flags
    PROVE  FlagInv'
<1>1. \A f \in flags : f.id \in Requests \ {r} /\ req'[f.id].pc = "done"
  BY FlagRow DEF FlagInv, Keeps
<1>2. \A f \in flags' : req'[f.id].pc = "done"
  BY <1>1
<1>3. \A f, g \in flags' : f.id # g.id /\ f.environment = g.environment
                             => f.environment = AllEnvironments
  BY DEF FlagInv
<1>4. ASSUME NEW q \in Requests, Sets(q)', q # r
      PROVE  Setter(q)'
  <2>1. Sets(q) /\ Setter(q)
    BY <1>4 DEF Keeps, Sets, FlagInv
  <2>2. req'[q].overlap = FALSE => req[q].overlap = FALSE
    BY <1>4, Flags DEF Keeps
  <2>3. Found(AllEnvironments) = {} => Found(AllEnvironments)' = {}
    BY DEF Found
  <2>4. \A f \in FlagRows : req[f.id].pc = "done" => req'[f.id].pc = "done"
    BY FlagRow DEF Keeps
  <2> QED
    BY <1>4, <2>1, <2>2, <2>3, <2>4 DEF Setter, Keeps
<1>5. ASSUME NEW i, ForAll(i)'
      PROVE  ForAll(i) /\ i # r
  <2>1. ASSUME NEW f \in flags', f.id = i, f.environment = AllEnvironments
        PROVE  ForAll(i) /\ i # r
    BY <1>1, <2>1 DEF ForAll
  <2>2. ASSUME NEW q \in Requests, Sets(q)', NEW f \in req'[q].seen,
               f.id = i, f.environment = AllEnvironments
        PROVE  ForAll(i) /\ i # r
    <3>1. CASE q = r
      BY <1>1, <2>2, <3>1 DEF ForAll
    <3>2. CASE q # r
      <4>1. Sets(q) /\ f \in req[q].seen /\ Setter(q)
        BY <2>2, <3>2 DEF Sets, Keeps, FlagInv
      <4>2. req[f.id].pc = "done"
        BY <4>1 DEF Setter
      <4> QED
        BY <2>2, <4>1, <4>2 DEF ForAll
    <3> QED
      BY <3>1, <3>2
  <2> QED
    BY <1>5, <2>1, <2>2 DEF ForAll
<1>6. ForAllOverlapped'
  <2> SUFFICES ASSUME NEW i \in Requests, NEW j \in Requests,
                      ForAll(i)', ForAll(j)', i # j
               PROVE  req'[i].overlap = TRUE \/ req'[j].overlap = TRUE
    BY DEF ForAllOverlapped
  <2>1. ForAll(i) /\ ForAll(j) /\ i # r /\ j # r
    BY <1>5
  <2> QED
    BY <2>1 DEF FlagInv, ForAllOverlapped, Keeps
<1> QED
  BY <1>2, <1>3, <1>4, <1>6 DEF FlagInv

LEMMA FlagsUntouched ==
    ASSUME FlagInv, RequestInv, RequestInv', NEW r \in Requests, Keeps(r),
           req[r].pc # "done", flags' = flags,
           Sets(r)' => Setter(r)' /\ req'[r].seen \subseteq flags
    PROVE  FlagInv'
<1>1. /\ flags' \subseteq FlagRows
      /\ \A f, g \in flags' : f.id = g.id => f = g
      /\ \A g \in flags' : \E f \in flags :
             f.id = g.id /\ f.environment = g.environment
  BY DEF FlagInv
<1> QED
  BY <1>1, FlagsRest

LEMMA ReadingFlag ==
    ASSUME RequestInv, FlagInv, NEW r \in Requests,
           NEW environment \in Environments, NEW enabled \in BOOLEAN,
           ReadFlag(r, environment, enabled)
    PROVE  RequestInv' /\ FlagInv' /\ Keeps(r) /\ req[r].pc = "idle"
           /\ req'[r].pc = "read" /\ req'[r].kind = "set"
<1>1. \E seen : /\ AskedAndRead(r, "set", environment, enabled, seen)
                /\ \/ seen = {} /\ Found(environment) = {}
                   \/ \E f \in Found(environment) : seen = {f}
  BY DEF ReadFlag
<1>2. PICK seen : /\ AskedAndRead(r, "set", environment, enabled, seen)
                  /\ \/ seen = {} /\ Found(environment) = {}
                     \/ \E f \in Found(environment) : seen = {f}
  BY <1>1
<1>3. req[r].pc = "idle" /\ HasRead(r, "set", environment, enabled, seen)
  BY <1>2 DEF AskedAndRead
<1>4. /\ RequestInv' /\ Keeps(r)
      /\ req'[r].kind = "set" /\ req'[r].on = environment
      /\ req'[r].pc = "read" /\ req'[r].seen = seen
      /\ req'[r].ask = enabled
  <2>1. PICK kind, ask : kind = "set" /\ ask = enabled
    OBVIOUS
  <2>2. HasRead(r, kind, environment, ask, seen)
    BY <1>3, <2>1, Zenon
  <2>3. /\ RequestInv' /\ Keeps(r)
        /\ req'[r].kind = kind /\ req'[r].on = environment
        /\ req'[r].pc = "read" /\ req'[r].seen = seen /\ req'[r].ask = ask
    BY <2>2, Reading, Zenon
  <2> QED
    BY <2>1, <2>3
<1>5. req'[r].ask = enabled
  BY <1>4
<1>6. flags' = flags
  BY DEF ReadFlag, settingVars
<1>7. seen \subseteq flags
  BY <1>2 DEF Found
<1>8. Setter(r)'
  <2>1. \A f \in flags : f \in FlagRows /\ req'[f.id].pc = "done"
    BY <1>3, <1>4, FlagRow DEF FlagInv, Keeps
  <2>2. \/ seen = {}
        \/ \E f \in FlagRows : /\ seen = {f} /\ f.environment = environment
                               /\ req'[f.id].pc = "done"
    BY <1>2, <2>1 DEF Found
  <2>3. seen = {} => Found(environment)' = {}
    BY <1>2, <1>6 DEF Found
  <2> QED
    BY <1>4, <1>5, <2>2, <2>3 DEF Setter
<1> QED
  BY <1>3, <1>4, <1>6, <1>7, <1>8, FlagsUntouched

(* A flag that is set goes to the row that the upsert finds, or to a new     *)
(* one, for the environment asked for.                                      *)
LEMMA Upserting ==
    ASSUME RequestInv, FlagInv, NEW r \in Requests, SetFlag(r)
    PROVE  LET key == UpsertKey(req[r].on)
               snap == Snapshot(r) IN
           /\ Sets(r) /\ Setter(r)
           /\ snap \in FlagRows /\ snap.environment = req[r].on
           /\ snap.enabled = req[r].ask
           /\ \/ req[r].seen = {} /\ snap.id = r
              \/ \E f \in req[r].seen : /\ snap.id = f.id /\ req[f.id].pc = "done"
                                        /\ f.environment = req[r].on
           /\ \/ flags' = flags
              \/ flags' = (flags \ Found(key))
                    \cup {[f EXCEPT !.enabled = req[r].ask] : f \in Found(key)}
              \/ /\ Found(key) = {} /\ flags' = flags \cup {snap}
                 /\ \A f \in flags : f.id # snap.id
<1> DEFINE snap == Snapshot(r)
<1>1. Sets(r) /\ Setter(r)
  BY DEF SetFlag, Doing, Sets, FlagInv
<1>2. /\ snap \in FlagRows /\ snap.environment = req[r].on
      /\ snap.enabled = req[r].ask
      /\ \/ req[r].seen = {} /\ snap.id = r
         \/ \E f \in req[r].seen : /\ snap.id = f.id /\ req[f.id].pc = "done"
                                   /\ f.environment = req[r].on
  <2>1. CASE req[r].seen = {}
    <3>1. snap = [id |-> r, environment |-> req[r].on, enabled |-> req[r].ask]
      BY <2>1 DEF Snapshot
    <3> HIDE DEF snap
    <3> QED
      BY <1>1, <2>1, <3>1 DEF Setter, FlagRows
  <2>2. ASSUME NEW f \in FlagRows, req[r].seen = {f},
               f.environment = req[r].on, req[f.id].pc = "done"
        PROVE  /\ snap \in FlagRows /\ snap.environment = req[r].on
               /\ snap.enabled = req[r].ask /\ snap.id = f.id
    <3>1. (CHOOSE g \in {f} : TRUE) = f
      OBVIOUS
    <3>2. snap = [f EXCEPT !.enabled = req[r].ask]
      BY <2>2, <3>1 DEF Snapshot
    <3>3. req[r].ask \in BOOLEAN
      BY <1>1 DEF Setter
    <3> HIDE DEF snap
    <3> QED
      BY <2>2, <3>2, <3>3 DEF FlagRows
  <2> QED
    BY <1>1, <2>1, <2>2 DEF Setter
<1>3. flags' = Upsert(snap)
  BY DEF SetFlag
<1> HIDE DEF snap
<1> QED
  BY <1>1, <1>2, <1>3 DEF Upsert, snap
(* A new row appears, under an id that no row has.                          *)
LEMMA InsertingFlag ==
    ASSUME RequestInv, RequestInv', FlagInv, NEW r \in Requests, Keeps(r),
           req'[r].pc = "done", req'[r].overlap = req[r].overlap,
           Sets(r), Setter(r),
           NEW snap \in FlagRows, snap.environment = req[r].on,
           \/ req[r].seen = {} /\ snap.id = r
           \/ \E f \in req[r].seen : /\ snap.id = f.id /\ req[f.id].pc = "done"
                                     /\ f.environment = req[r].on,
           Found(UpsertKey(req[r].on)) = {}, flags' = flags \cup {snap},
           \A f \in flags : f.id # snap.id
    PROVE  FlagInv'
<1>1. flags' \subseteq FlagRows /\ \A f, g \in flags' : f.id = g.id => f = g
  BY DEF FlagInv
<1>2. \A f \in flags' : req'[f.id].pc = "done"
  <2>1. \A f \in flags : req'[f.id].pc = "done"
    BY FlagRow DEF FlagInv, Keeps
  <2>2. req'[snap.id].pc = "done"
    BY FlagRow DEF Keeps
  <2> QED
    BY <2>1, <2>2
<1>3. \A f, g \in flags' : f.id # g.id /\ f.environment = g.environment
                             => f.environment = AllEnvironments
  <2>1. \A f \in flags : f.environment = snap.environment
                            => snap.environment = AllEnvironments
    BY DEF Found, UpsertKey
  <2> QED
    BY <2>1 DEF FlagInv
<1>4. ASSUME NEW q \in Requests, Sets(q)'
      PROVE  Setter(q)'
  <2>1. q # r /\ Sets(q) /\ Setter(q)
    BY <1>4 DEF Keeps, Sets, FlagInv
  <2>2. req'[q].overlap = FALSE => req[q].overlap = FALSE
    BY <2>1, Flags DEF Keeps
  <2>3. \A f \in FlagRows : req[f.id].pc = "done" => req'[f.id].pc = "done"
    BY FlagRow DEF Keeps
  <2>4. (req'[q].on = AllEnvironments /\ req'[q].seen = {}
          /\ req'[q].overlap = FALSE) => Found(AllEnvironments)' = {}
    <3>1. CASE req[r].on = AllEnvironments /\ req[q].on = AllEnvironments
      <4>1. req[q].overlap = TRUE
        BY <2>1, <3>1, AwareOfEachOther DEF Sets
      <4> QED
        BY <2>2, <4>1
    <3>2. CASE req[r].on # AllEnvironments
      <4>1. Found(AllEnvironments) = {} => Found(AllEnvironments)' = {}
        BY <3>2 DEF Found
      <4> QED
        BY <2>1, <2>2, <4>1 DEF Setter, Keeps
    <3> QED
      BY <2>1, <3>1, <3>2 DEF Keeps
  <2> QED
    BY <2>1, <2>3, <2>4 DEF Setter, Keeps
<1>5. ASSUME NEW i, ForAll(i)'
      PROVE  \/ ForAll(i) /\ i # r
             \/ i = r /\ req[r].on = AllEnvironments /\ req[r].seen = {}
  <2>1. ASSUME NEW f \in flags, f.id = i, f.environment = AllEnvironments
        PROVE  ForAll(i) /\ i # r
    BY <2>1 DEF ForAll, FlagInv, Sets
  <2>2. ASSUME NEW q \in Requests, Sets(q), NEW f \in req[q].seen,
               f.id = i, f.environment = AllEnvironments
        PROVE  ForAll(i) /\ i # r
    <3>1. Setter(q)
      BY <2>2 DEF FlagInv
    <3>2. req[f.id].pc = "done"
      BY <2>2, <3>1 DEF Setter
    <3> QED
      BY <2>2, <3>2 DEF ForAll, Sets
  <2>3. CASE snap.id = i /\ snap.environment = AllEnvironments
    <3>1. CASE req[r].seen = {} /\ snap.id = r
      BY <2>3, <3>1
    <3>2. ASSUME NEW f \in req[r].seen, snap.id = f.id,
                 f.environment = req[r].on
          PROVE  ForAll(i) /\ i # r
      BY <2>2, <2>3, <3>2
    <3> QED
      BY <3>1, <3>2
  <2>4. ASSUME NEW q \in Requests, Sets(q)', NEW f \in req'[q].seen,
               f.id = i, f.environment = AllEnvironments
        PROVE  ForAll(i) /\ i # r
    <3>1. Sets(q) /\ f \in req[q].seen
      BY <2>4 DEF Sets, Keeps
    <3> QED
      BY <2>2, <2>4, <3>1
  <2> QED
    BY <1>5, <2>1, <2>3, <2>4 DEF ForAll
<1>6. ASSUME NEW j, ForAll(j), j # r,
             req[r].on = AllEnvironments, req[r].seen = {}
      PROVE  req[r].overlap = TRUE
  <2>1. CASE \E f \in flags : f.id = j /\ f.environment = AllEnvironments
    <3>1. Found(AllEnvironments) # {}
      BY <2>1 DEF Found
    <3> QED
      BY <1>6, <3>1, Flags DEF Setter
  <2>2. ASSUME NEW q \in Requests, Sets(q), NEW f \in req[q].seen,
               f.environment = AllEnvironments
        PROVE  req[r].overlap = TRUE
    <3>1. Setter(q)
      BY <2>2 DEF FlagInv
    <3>2. q # r /\ req[q].on = AllEnvironments
      BY <1>6, <2>2, <3>1 DEF Setter
    <3> QED
      BY <1>6, <2>2, <3>2, AwareOfEachOther DEF Sets
  <2> QED
    BY <1>6, <2>1, <2>2 DEF ForAll
<1>7. ForAllOverlapped'
  <2> SUFFICES ASSUME NEW i \in Requests, NEW j \in Requests,
                      ForAll(i)', ForAll(j)', i # j
               PROVE  req'[i].overlap = TRUE \/ req'[j].overlap = TRUE
    BY DEF ForAllOverlapped
  <2>1. ASSUME NEW k, ForAll(k)', ForAll(r)', k # r
        PROVE  req'[r].overlap = TRUE
    <3>1. req[r].on = AllEnvironments /\ req[r].seen = {}
      BY <1>5, <2>1
    <3>2. ForAll(k)
      BY <1>5, <2>1
    <3>3. req[r].overlap = TRUE
      BY <1>6, <2>1, <3>1, <3>2
    <3> QED
      BY <3>3
  <2>2. CASE i = r \/ j = r
    BY <2>1, <2>2
  <2>3. CASE i # r /\ j # r
    BY <1>5, <2>3 DEF FlagInv, ForAllOverlapped, Keeps
  <2> QED
    BY <2>2, <2>3
<1> QED
  BY <1>1, <1>2, <1>3, <1>4, <1>7 DEF FlagInv

(* What an update of the rows found does to the table.                      *)
LEMMA UpdatingFlags ==
    ASSUME FlagInv, NEW key, NEW on \in BOOLEAN,
           flags' = (flags \ Found(key))
                       \cup {[f EXCEPT !.enabled = on] : f \in Found(key)}
    PROVE  /\ flags' \subseteq FlagRows
           /\ \A f, g \in flags' : f.id = g.id => f = g
           /\ \A g \in flags' : \E f \in flags :
                 /\ f.id = g.id /\ f.environment = g.environment
                 /\ f = g \/ (g.enabled = on /\ g.environment = key)
<1>1. \A f \in flags : f \in FlagRows
  BY DEF FlagInv
<1>2. \A g \in flags' : \E f \in flags :
         \/ g = f /\ f.environment # key
         \/ g = [f EXCEPT !.enabled = on] /\ f.environment = key
  BY DEF Found
<1>3. \A f \in FlagRows :
         LET g == [f EXCEPT !.enabled = on] IN
         g \in FlagRows /\ g.id = f.id /\ g.environment = f.environment /\ g.enabled = on
  BY DEF FlagRows
<1>4. flags' \subseteq FlagRows
  BY <1>1, <1>2, <1>3
<1>5. ASSUME NEW g \in flags', NEW h \in flags', g.id = h.id
      PROVE  g = h
  <2>1. PICK f \in flags :
           \/ g = f /\ f.environment # key
           \/ g = [f EXCEPT !.enabled = on] /\ f.environment = key
    BY <1>2
  <2>2. PICK e \in flags :
           \/ h = e /\ e.environment # key
           \/ h = [e EXCEPT !.enabled = on] /\ e.environment = key
    BY <1>2
  <2>3. g.id = f.id /\ h.id = e.id
    BY <1>1, <1>3, <2>1, <2>2
  <2>4. f = e
    BY <1>5, <2>3 DEF FlagInv
  <2> QED
    BY <2>1, <2>2, <2>4
<1>6. ASSUME NEW g \in flags'
      PROVE  \E f \in flags :
                /\ f.id = g.id /\ f.environment = g.environment
                /\ f = g \/ (g.enabled = on /\ g.environment = key)
  <2>1. PICK f \in flags :
           \/ g = f /\ f.environment # key
           \/ g = [f EXCEPT !.enabled = on] /\ f.environment = key
    BY <1>2
  <2>2. CASE g = f
    BY <2>2
  <2>3. CASE g = [f EXCEPT !.enabled = on] /\ f.environment = key
    <3>1. g.id = f.id /\ g.environment = f.environment /\ g.enabled = on
      BY <1>1, <1>3, <2>3
    <3> QED
      BY <2>3, <3>1
  <2> QED
    BY <2>1, <2>2, <2>3
<1> QED
  BY <1>4, <1>5, <1>6

LEMMA SettingFlag ==
    ASSUME RequestInv, FlagInv, NEW r \in Requests, SetFlag(r)
    PROVE  RequestInv' /\ FlagInv' /\ FlagsKept
<1>1. /\ RequestInv' /\ Keeps(r) /\ req'[r].pc = "done"
      /\ req'[r].overlap = req[r].overlap /\ ~Sets(r)'
  BY Finishing DEF SetFlag, Sets
<1>2. PICK key, snap : key = UpsertKey(req[r].on) /\ snap = Snapshot(r)
  OBVIOUS
<1>3. /\ Sets(r) /\ Setter(r)
      /\ snap \in FlagRows /\ snap.environment = req[r].on
      /\ \/ req[r].seen = {} /\ snap.id = r
         \/ \E f \in req[r].seen : /\ snap.id = f.id /\ req[f.id].pc = "done"
                                   /\ f.environment = req[r].on
      /\ \/ flags' = flags
         \/ flags' = (flags \ Found(key))
               \cup {[f EXCEPT !.enabled = req[r].ask] : f \in Found(key)}
         \/ /\ Found(key) = {} /\ flags' = flags \cup {snap}
            /\ \A f \in flags : f.id # snap.id
  BY <1>2, Upserting, Zenon
<1>4. Ends(r) /\ req[r].kind = "set" /\ req[r].pc # "done" /\ req[r].ask \in BOOLEAN
  BY <1>1, <1>3 DEF Ends, Sets, Setter
<1>5. key # AllEnvironments
  BY <1>2 DEF UpsertKey, AllEnvironments
<1>6. CASE flags' = flags
  <2>1. FlagInv'
    BY <1>1, <1>4, <1>6, FlagsUntouched
  <2>2. FlagsKept
    BY <1>6 DEF FlagsKept, FlagInv
  <2> QED
    BY <1>1, <2>1, <2>2
<1>7. CASE flags' = (flags \ Found(key))
               \cup {[f EXCEPT !.enabled = req[r].ask] : f \in Found(key)}
  <2>1. PICK on \in BOOLEAN : on = req[r].ask
    BY <1>4
  <2>2. flags' = (flags \ Found(key))
                    \cup {[f EXCEPT !.enabled = on] : f \in Found(key)}
    BY <1>7, <2>1
  <2>3. /\ flags' \subseteq FlagRows
        /\ \A f, g \in flags' : f.id = g.id => f = g
        /\ \A g \in flags' : \E f \in flags :
              /\ f.id = g.id /\ f.environment = g.environment
              /\ f = g \/ (g.enabled = on /\ g.environment = key)
    BY <2>2, UpdatingFlags
  <2>4. FlagInv'
    BY <1>1, <1>4, <2>3, FlagsRest
  <2>5. ASSUME NEW f \in flags, NEW g \in flags', f.id = g.id, f # g
        PROVE  /\ f.environment = g.environment /\ f.environment # AllEnvironments
               /\ req[r].ask = g.enabled /\ UpsertKey(req[r].on) = f.environment
    <3>1. PICK e \in flags :
             /\ e.id = g.id /\ e.environment = g.environment
             /\ e = g \/ (g.enabled = on /\ g.environment = key)
      BY <2>3
    <3>2. e = f
      BY <2>5, <3>1 DEF FlagInv
    <3> QED
      BY <1>2, <1>5, <2>1, <2>5, <3>1, <3>2
  <2>6. FlagsKept
    BY <1>4, <2>5 DEF FlagsKept
  <2> QED
    BY <1>1, <2>4, <2>6
<1>8. CASE /\ Found(key) = {} /\ flags' = flags \cup {snap}
           /\ \A f \in flags : f.id # snap.id
  <2>1. FlagInv'
    BY <1>1, <1>2, <1>3, <1>8, InsertingFlag
  <2>2. FlagsKept
    BY <1>8 DEF FlagsKept, FlagInv
  <2> QED
    BY <1>1, <2>1, <2>2
<1> QED
  BY <1>3, <1>6, <1>7, <1>8

LEMMA DeletingFlag ==
    ASSUME RequestInv, FlagInv, NEW r \in Requests, DeleteFlag(r)
    PROVE  RequestInv' /\ FlagInv' /\ FlagsKept
<1>1. RequestInv' /\ Keeps(r) /\ req'[r].pc = "done" /\ req[r].pc = "read" /\ ~Sets(r)'
  BY Finishing DEF DeleteFlag, Doing, Sets
<1>2. flags' \subseteq flags
  BY DEF DeleteFlag
<1>3. FlagInv'
  <2>1. /\ flags' \subseteq FlagRows
        /\ \A f, g \in flags' : f.id = g.id => f = g
        /\ \A g \in flags' : \E f \in flags :
               f.id = g.id /\ f.environment = g.environment
    BY <1>2 DEF FlagInv
  <2> QED
    BY <1>1, <2>1, FlagsRest
<1>4. FlagsKept
  BY <1>2 DEF FlagsKept, FlagInv
<1> QED
  BY <1>1, <1>3, <1>4
-----------------------------------------------------------------------------
(* Windows of maintenance.                                                  *)

WindowRows == [id : Requests, startAt : Times, endAt : Times, isActive : BOOLEAN]

Schedules(q) == req[q].pc = "read" /\ req[q].kind = "schedule"

\* An active window that request q, which found none, would overlap by now was
\* scheduled meanwhile.
Scheduler(q) ==
    /\ req[q].on = "windows"
    /\ \E startAt, endAt \in Times :
          /\ req[q].ask = <<startAt, endAt>> /\ startAt < endAt
          /\ \A w \in windows : w.isActive = TRUE /\ Overlaps(w, startAt, endAt)
                => req[q].overlap = TRUE /\ req[w.id].overlap = TRUE

WindowInv ==
    /\ windows \subseteq WindowRows
    /\ \A w \in windows : req[w.id].pc = "done" /\ w.startAt < w.endAt
    /\ \A v, w \in windows : v.id = w.id => v = w
    /\ \A q \in Requests : Schedules(q) => Scheduler(q)
    /\ \A v, w \in windows :
          (/\ v.id # w.id /\ v.isActive = TRUE /\ w.isActive = TRUE
           /\ Overlaps(v, w.startAt, w.endAt))
              => req[v.id].overlap = TRUE /\ req[w.id].overlap = TRUE

LEMMA WindowRow ==
    ASSUME NEW w \in WindowRows
    PROVE  /\ w.id \in Requests /\ w.startAt \in Int /\ w.endAt \in Int
           /\ w.startAt \in Times /\ w.endAt \in Times /\ w.isActive \in BOOLEAN
BY DEF WindowRows, Times

LEMMA WindowInvApart ==
    ASSUME RequestInv, WindowInv
    PROVE  WindowsApart
<1> SUFFICES ASSUME NEW v \in windows, NEW w \in windows, v # w,
                    v.isActive = TRUE, w.isActive = TRUE,
                    v.startAt \in w.startAt..(w.endAt - 1)
             PROVE  req[v.id].overlap /\ req[w.id].overlap
  BY WindowRow DEF WindowsApart, WindowInv
<1>1. v.id # w.id
  BY DEF WindowInv
<1>2. Overlaps(v, w.startAt, w.endAt)
  <2>1. /\ v.startAt \in Int /\ v.endAt \in Int
        /\ w.startAt \in Int /\ w.endAt \in Int
        /\ v.startAt < v.endAt
    BY WindowRow DEF WindowInv
  <2> QED
    BY <2>1 DEF Overlaps
<1> QED
  BY <1>1, <1>2 DEF WindowInv

(* A step that makes no new windows, and activates none.                    *)
LEMMA WindowsRest ==
    ASSUME WindowInv, RequestInv, RequestInv', NEW r \in Requests, Keeps(r),
           req[r].pc # "done",
           windows' \subseteq WindowRows,
           \A v, w \in windows' : v.id = w.id => v = w,
           \A w \in windows' : \E v \in windows :
               /\ v.id = w.id /\ v.startAt = w.startAt /\ v.endAt = w.endAt
               /\ w.isActive = TRUE => v.isActive = TRUE,
           Schedules(r)' => Scheduler(r)'
    PROVE  WindowInv'
<1>1. \A w \in windows : w.id \in Requests \ {r} /\ req'[w.id].pc = "done"
  BY WindowRow DEF WindowInv, Keeps
<1>2. \A w \in windows' : req'[w.id].pc = "done" /\ w.startAt < w.endAt
  BY <1>1 DEF WindowInv
<1>3. ASSUME NEW q \in Requests, Schedules(q)', q # r
      PROVE  Scheduler(q)'
  <2>1. Schedules(q) /\ Scheduler(q)
    BY <1>3 DEF Keeps, Schedules, WindowInv
  <2>2. PICK startAt, endAt \in Times :
           /\ req[q].ask = <<startAt, endAt>> /\ startAt < endAt
           /\ \A w \in windows : w.isActive = TRUE /\ Overlaps(w, startAt, endAt)
                 => req[q].overlap = TRUE /\ req[w.id].overlap = TRUE
    BY <2>1 DEF Scheduler
  <2>3. ASSUME NEW w \in windows', w.isActive = TRUE, Overlaps(w, startAt, endAt)
        PROVE  req'[q].overlap = TRUE /\ req'[w.id].overlap = TRUE
    <3>1. PICK v \in windows :
             /\ v.id = w.id /\ v.startAt = w.startAt /\ v.endAt = w.endAt
             /\ v.isActive = TRUE
      BY <2>3
    <3>2. Overlaps(v, startAt, endAt)
      BY <2>3, <3>1 DEF Overlaps
    <3> QED
      BY <1>1, <1>3, <2>2, <3>1, <3>2 DEF Keeps
  <2>4. /\ req'[q].on = "windows" /\ req'[q].ask = <<startAt, endAt>>
    BY <1>3, <2>1, <2>2 DEF Keeps, Scheduler
  <2> QED
    BY <2>2, <2>3, <2>4 DEF Scheduler
<1>4. ASSUME NEW v \in windows', NEW w \in windows', v.id # w.id,
             v.isActive = TRUE, w.isActive = TRUE,
             Overlaps(v, w.startAt, w.endAt)
      PROVE  req'[v.id].overlap = TRUE /\ req'[w.id].overlap = TRUE
  <2>1. PICK x \in windows :
           /\ x.id = v.id /\ x.startAt = v.startAt /\ x.endAt = v.endAt
           /\ x.isActive = TRUE
    BY <1>4
  <2>2. PICK y \in windows :
           /\ y.id = w.id /\ y.startAt = w.startAt /\ y.endAt = w.endAt
           /\ y.isActive = TRUE
    BY <1>4
  <2>3. Overlaps(x, y.startAt, y.endAt)
    BY <1>4, <2>1, <2>2 DEF Overlaps
  <2>4. req[x.id].overlap = TRUE /\ req[y.id].overlap = TRUE
    BY <1>4, <2>1, <2>2, <2>3 DEF WindowInv
  <2> QED
    BY <1>1, <2>1, <2>2, <2>4 DEF Keeps
<1> QED
  BY <1>2, <1>3, <1>4 DEF WindowInv

LEMMA WindowsUntouched ==
    ASSUME WindowInv, RequestInv, RequestInv', NEW r \in Requests, Keeps(r),
           req[r].pc # "done", windows' = windows,
           Schedules(r)' => Scheduler(r)'
    PROVE  WindowInv'
<1>1. /\ windows' \subseteq WindowRows
      /\ \A v, w \in windows' : v.id = w.id => v = w
      /\ \A w \in windows' : \E v \in windows :
             /\ v.id = w.id /\ v.startAt = w.startAt /\ v.endAt = w.endAt
             /\ w.isActive = TRUE => v.isActive = TRUE
  BY DEF WindowInv
<1> QED
  BY <1>1, WindowsRest

LEMMA CheckingWindow ==
    ASSUME RequestInv, WindowInv, NEW r \in Requests,
           NEW startAt \in Times, NEW endAt \in Times, CheckWindow(r, startAt, endAt)
    PROVE  RequestInv' /\ WindowInv' /\ Keeps(r) /\ req[r].pc = "idle"
           /\ req'[r].pc = "read" /\ req'[r].kind = "schedule"
<1>1. PICK kind, on, ask, row :
         kind = "schedule" /\ on = "windows" /\ ask = <<startAt, endAt>> /\ row = "none"
  OBVIOUS
<1>2. req[r].pc = "idle" /\ HasRead(r, kind, on, ask, row)
  BY <1>1, Zenon DEF CheckWindow, AskedAndRead
<1>3. /\ RequestInv' /\ Keeps(r)
      /\ req'[r].kind = kind /\ req'[r].on = on /\ req'[r].ask = ask
      /\ req'[r].pc = "read"
  <2>1. HasRead(r, kind, on, ask, row)
    BY <1>2
  <2> QED
    BY <2>1, Reading, Zenon
<1>4. /\ windows' = windows /\ startAt < endAt
      /\ \A w \in windows : w.isActive = TRUE => ~Overlaps(w, startAt, endAt)
  BY DEF CheckWindow, settingVars
<1>5. Scheduler(r)'
  BY <1>1, <1>3, <1>4 DEF Scheduler, Overlaps
<1> QED
  BY <1>1, <1>2, <1>3, <1>4, <1>5, WindowsUntouched

LEMMA SchedulingWindow ==
    ASSUME RequestInv, WindowInv, NEW r \in Requests, ScheduleWindow(r)
    PROVE  RequestInv' /\ WindowInv' /\ CancelledStays
<1>1. /\ RequestInv' /\ Keeps(r) /\ req'[r].pc = "done"
      /\ req'[r].overlap = req[r].overlap
  BY Finishing DEF ScheduleWindow
<1>2. Schedules(r) /\ Scheduler(r)
  BY DEF ScheduleWindow, Doing, Schedules, WindowInv
<1>3. PICK startAt, endAt \in Times :
         /\ req[r].ask = <<startAt, endAt>> /\ startAt < endAt
         /\ \A w \in windows : w.isActive = TRUE /\ Overlaps(w, startAt, endAt)
               => req[r].overlap = TRUE /\ req[w.id].overlap = TRUE
  BY <1>2 DEF Scheduler
<1> DEFINE yes == TRUE
<1>4. PICK new : new = [id |-> r, startAt |-> startAt, endAt |-> endAt,
                        isActive |-> yes]
  OBVIOUS
<1>5. windows' = windows \cup {new}
  BY <1>3, <1>4 DEF ScheduleWindow
<1>6. /\ new \in WindowRows /\ new.id = r
      /\ new.startAt = startAt /\ new.endAt = endAt
  <2>1. yes \in BOOLEAN
    OBVIOUS
  <2> HIDE DEF yes
  <2> QED
    BY <1>3, <1>4, <2>1 DEF WindowRows
<1>7. \A w \in windows : w.id \in Requests \ {r} /\ req'[w.id].pc = "done"
  <2>1. \A w \in windows : w.id \in Requests /\ req[w.id].pc = "done"
    BY WindowRow DEF WindowInv
  <2>2. req[r].pc = "read"
    BY <1>2 DEF Schedules
  <2> QED
    BY <1>1, <2>1, <2>2 DEF Keeps
<1>8. \A w \in windows' : req'[w.id].pc = "done" /\ w.startAt < w.endAt
  BY <1>1, <1>3, <1>5, <1>6, <1>7 DEF WindowInv
<1>9. \A v, w \in windows' : v.id = w.id => v = w
  BY <1>5, <1>6, <1>7 DEF WindowInv
<1>10. ASSUME NEW q \in Requests, Schedules(q)'
       PROVE  Scheduler(q)'
  <2>1. q # r /\ Schedules(q) /\ Scheduler(q)
    BY <1>1, <1>10 DEF Keeps, Schedules, WindowInv
  <2>2. PICK from, to \in Times :
           /\ req[q].ask = <<from, to>> /\ from < to
           /\ \A w \in windows : w.isActive = TRUE /\ Overlaps(w, from, to)
                 => req[q].overlap = TRUE /\ req[w.id].overlap = TRUE
    BY <2>1 DEF Scheduler
  <2>3. req[r].overlap = TRUE /\ req[q].overlap = TRUE
    BY <1>2, <2>1, AwareOfEachOther DEF Schedules, Scheduler
  <2>4. req'[q].overlap = TRUE /\ req'[new.id].overlap = TRUE
    BY <1>1, <1>6, <2>1, <2>3 DEF Keeps
  <2>5. ASSUME NEW w \in windows, w.isActive = TRUE, Overlaps(w, from, to)
        PROVE  req'[w.id].overlap = TRUE
    BY <1>1, <1>7, <2>2, <2>5 DEF Keeps
  <2>6. req'[q].on = "windows" /\ req'[q].ask = <<from, to>>
    BY <1>1, <2>1, <2>2 DEF Keeps, Scheduler
  <2>7. \A w \in windows' : w.isActive = TRUE /\ Overlaps(w, from, to)
           => req'[q].overlap = TRUE /\ req'[w.id].overlap = TRUE
    BY <1>5, <2>4, <2>5
  <2> QED
    BY <2>2, <2>6, <2>7 DEF Scheduler, Overlaps
<1>11. ASSUME NEW w \in windows, w.isActive = TRUE,
              \/ Overlaps(w, new.startAt, new.endAt)
              \/ Overlaps(new, w.startAt, w.endAt)
       PROVE  req'[new.id].overlap = TRUE /\ req'[w.id].overlap = TRUE
  <2>1. startAt \in Int /\ endAt \in Int /\ w.startAt \in Int /\ w.endAt \in Int
    BY WindowRow DEF WindowInv, Times
  <2>2. Overlaps(w, startAt, endAt)
    BY <1>6, <1>11, <2>1 DEF Overlaps
  <2>3. req[r].overlap = TRUE /\ req[w.id].overlap = TRUE
    BY <1>3, <1>11, <2>2
  <2> QED
    BY <1>1, <1>6, <1>7, <2>3 DEF Keeps
<1>12. ASSUME NEW v \in windows', NEW w \in windows', v.id # w.id,
              v.isActive = TRUE, w.isActive = TRUE,
              Overlaps(v, w.startAt, w.endAt)
       PROVE  req'[v.id].overlap = TRUE /\ req'[w.id].overlap = TRUE
  <2>1. CASE v = new
    BY <1>5, <1>11, <1>12, <2>1
  <2>2. CASE w = new
    BY <1>5, <1>11, <1>12, <2>2
  <2>3. CASE v \in windows /\ w \in windows
    <3>1. req[v.id].overlap = TRUE /\ req[w.id].overlap = TRUE
      BY <1>12, <2>3 DEF WindowInv
    <3> QED
      BY <1>1, <1>7, <2>3, <3>1 DEF Keeps
  <2> QED
    BY <1>5, <2>1, <2>2, <2>3
<1>13. windows' \subseteq WindowRows
  BY <1>5, <1>6 DEF WindowInv
<1>14. WindowInv'
  BY <1>8, <1>9, <1>10, <1>12, <1>13 DEF WindowInv
<1>15. CancelledStays
  BY <1>5, <1>6, <1>7 DEF CancelledStays, WindowInv
<1> QED
  BY <1>1, <1>14, <1>15

LEMMA CancellingWindow ==
    ASSUME RequestInv, WindowInv, NEW r \in Requests, CancelWindow(r)
    PROVE  RequestInv' /\ WindowInv' /\ CancelledStays
<1>1. /\ RequestInv' /\ Keeps(r) /\ req'[r].pc = "done" /\ req[r].pc = "read"
      /\ ~Schedules(r)'
  BY Finishing DEF CancelWindow, Doing, Schedules
<1> DEFINE no == FALSE
<1>2. \A w \in windows' : \E v \in windows :
         w = v \/ (v.id = req[r].on /\ w = [v EXCEPT !.isActive = no])
  BY DEF CancelWindow
<1>3. \A v \in windows : v.id = req[r].on => \A w \in windows' : w = v => w.isActive = no
  <2> SUFFICES ASSUME NEW v \in windows, v.id = req[r].on, v \in windows'
               PROVE  v.isActive = no
    OBVIOUS
  <2>1. PICK x \in windows :
           v = IF x.id = req[r].on THEN [x EXCEPT !.isActive = no] ELSE x
    BY DEF CancelWindow
  <2>2. x \in WindowRows
    BY DEF WindowInv
  <2>3. no \in BOOLEAN
    OBVIOUS
  <2> HIDE DEF no
  <2>4. CASE x.id = req[r].on
    BY <2>1, <2>2, <2>3, <2>4 DEF WindowRows
  <2>5. CASE x.id # req[r].on
    BY <2>1, <2>5
  <2> QED
    BY <2>4, <2>5
<1>4. \A v \in WindowRows : LET w == [v EXCEPT !.isActive = no] IN
         /\ w \in WindowRows /\ w.id = v.id
         /\ w.startAt = v.startAt /\ w.endAt = v.endAt /\ w.isActive = no
  <2>1. no \in BOOLEAN
    OBVIOUS
  <2> HIDE DEF no
  <2> QED
    BY <2>1 DEF WindowRows
<1>5. no = FALSE
  OBVIOUS
<1> HIDE DEF no
<1>6. ASSUME NEW w \in windows'
      PROVE  /\ w \in WindowRows
             /\ \E v \in windows :
                   /\ v.id = w.id /\ v.startAt = w.startAt /\ v.endAt = w.endAt
                   /\ w.isActive = TRUE => v = w
  <2>1. PICK v \in windows :
           w = v \/ (v.id = req[r].on /\ w = [v EXCEPT !.isActive = no])
    BY <1>2
  <2>2. v \in WindowRows
    BY DEF WindowInv
  <2> QED
    BY <1>4, <1>5, <2>1, <2>2
<1>7. ASSUME NEW w \in windows', NEW x \in windows', w.id = x.id
      PROVE  w = x
  <2>1. PICK v \in windows :
           w = v \/ (v.id = req[r].on /\ w = [v EXCEPT !.isActive = no])
    BY <1>2
  <2>2. PICK y \in windows :
           x = y \/ (y.id = req[r].on /\ x = [y EXCEPT !.isActive = no])
    BY <1>2
  <2>3. v \in WindowRows /\ y \in WindowRows
    BY DEF WindowInv
  <2>4. v.id = w.id /\ y.id = x.id
    BY <1>4, <2>1, <2>2, <2>3
  <2>5. v = y
    BY <1>7, <2>4 DEF WindowInv
  <2>6. CASE v.id # req[r].on
    BY <2>1, <2>2, <2>5, <2>6
  <2>7. CASE v.id = req[r].on
    <3>1. \A z \in windows' : z = v => z = [v EXCEPT !.isActive = no]
      <4>1. v \in windows' => v.isActive = no
        BY <1>3, <2>7
      <4>2. v.isActive = no => v = [v EXCEPT !.isActive = no]
        BY <2>3 DEF WindowRows
      <4> QED
        BY <4>1, <4>2
    <3> QED
      BY <2>1, <2>2, <2>5, <3>1
  <2> QED
    BY <2>6, <2>7
<1>8. WindowInv'
  BY <1>1, <1>6, <1>7, WindowsRest
<1>9. CancelledStays
  <2> SUFFICES ASSUME NEW v \in windows, NEW w \in windows', v.id = w.id,
                      w.isActive
               PROVE  v.isActive
    BY DEF CancelledStays
  <2>1. w.isActive = TRUE
    BY <1>6, WindowRow
  <2>2. w \in windows
    BY <1>6, <2>1
  <2>3. v = w
    BY <2>2 DEF WindowInv
  <2> QED
    BY <2>3
<1> QED
  BY <1>1, <1>8, <1>9
-----------------------------------------------------------------------------
(* The steps of one store do not touch the requests of the others.          *)

SettingKinds == {"set", "delete flag", "schedule", "cancel"}

\* Request r makes a step and is then done, or a request of these kinds.
StaysWith(r, kinds) ==
    /\ Keeps(r) /\ req[r].pc # "done"
    /\ req'[r].pc = "done" \/ req'[r].kind \in kinds

LEMMA AskedKind ==
    ASSUME RequestInv, NEW r \in Requests, NEW kinds, NEW kind \in kinds,
           NEW on, NEW ask, Asked(r, kind, on, ask)
    PROVE  StaysWith(r, kinds)
<1>1. Keeps(r) /\ req'[r].kind = kind
  BY Asking
<1>2. req[r].pc = "idle"
  BY DEF Asked
<1> QED
  BY <1>1, <1>2 DEF StaysWith

LEMMA CompanyRequests ==
    ASSUME RequestInv, CompanyInv, NEW r \in Requests, CompanyStep(r)
    PROVE  StaysWith(r, CompanyKinds)
<1>1. ASSUME NEW c \in Companies, NEW kind \in CompanyKinds, NEW ask,
             Admitted(r, c, kind, ask)
      PROVE  StaysWith(r, CompanyKinds)
  BY <1>1, AskedKind DEF Admitted
<1>2. ASSUME Done(r), req[r].pc # "done"
      PROVE  StaysWith(r, CompanyKinds)
  BY <1>2, Finishing DEF StaysWith
<1>3. CASE ReadCompany(r)
  <2>1. req[r].kind \in CompanyKinds /\ req[r].pc = "asked"
    BY <1>3 DEF ReadCompany, CompanyInv, CompanyCopies, OfCompany
  <2>2. PICK c, kind, ask, row :
           c = req[r].on /\ kind = req[r].kind /\ ask = req[r].ask /\ row = company[c]
    OBVIOUS
  <2>3. CASE HasRead(r, kind, c, ask, row)
    <3>1. Keeps(r) /\ req'[r].kind = kind
      BY <2>3, Reading, Zenon
    <3> QED
      BY <2>1, <2>2, <3>1 DEF StaysWith
  <2>4. HasRead(r, kind, c, ask, row) \/ Done(r)
    BY <1>3, <2>2 DEF ReadCompany
  <2> QED
    BY <1>2, <2>1, <2>3, <2>4
<1>4. CASE PutLogo(r) \/ DeleteLogo(r)
  <2>1. req[r].pc = "read" /\ req[r].kind \in CompanyKinds /\ (Moved(r) \/ Done(r))
    BY <1>4 DEF PutLogo, DeleteLogo, Doing, CompanyKinds
  <2>2. CASE Moved(r)
    BY <2>1, <2>2, Moving DEF StaysWith
  <2> QED
    BY <1>2, <2>1, <2>2
<1>5. CASE UpdateCompany(r) \/ LinkLogo(r) \/ DeleteCompany(r) \/ InvalidLogo(r)
  BY <1>2, <1>5
     DEF UpdateCompany, LinkLogo, DeleteCompany, InvalidLogo, SaveCompany, Doing
<1>6. ASSUME NEW c \in Companies, NEW taxId, CreateCompany(r, c, taxId)
      PROVE  StaysWith(r, CompanyKinds)
  BY <1>2, <1>6 DEF CreateCompany
<1>7. {"update", "upload", "remove", "delete"} = CompanyKinds
  BY DEF CompanyKinds
<1> QED
  BY <1>1, <1>3, <1>4, <1>5, <1>6, <1>7 DEF CompanyStep

LEMMA ProfileRequests ==
    ASSUME RequestInv, ProfileInv, NEW r \in Requests, ProfileStep(r)
    PROVE  StaysWith(r, ProfileKinds) /\ req'[r].pc # "asked"
<1>1. ASSUME NEW u \in People, NEW kind \in ProfileKinds, NEW ask,
             ReadProfile(r, u, kind, ask)
      PROVE  StaysWith(r, ProfileKinds) /\ req'[r].pc # "asked"
  <2>1. PICK row : row = profile[u]
    OBVIOUS
  <2>2. req[r].pc = "idle" /\ HasRead(r, kind, u, ask, row)
    BY <1>1, <2>1 DEF ReadProfile, AskedAndRead, HasRead
  <2>3. HasRead(r, kind, u, ask, row)
    BY <2>2
  <2>4. Keeps(r) /\ req'[r].kind = kind /\ req'[r].pc = "read"
    BY <2>3, Reading, Zenon
  <2> QED
    BY <2>2, <2>4 DEF StaysWith
<1>2. ASSUME Done(r), req[r].pc = "read"
      PROVE  StaysWith(r, ProfileKinds) /\ req'[r].pc # "asked"
  BY <1>2, Finishing DEF StaysWith
<1>3. CASE PutAvatar(r)
  <2>1. req[r].pc = "read" /\ req[r].kind \in ProfileKinds /\ Moved(r)
    BY <1>3 DEF PutAvatar, Doing, ProfileKinds
  <2> QED
    BY <2>1, Moving DEF StaysWith
<1>4. CASE \/ CreateProfile(r) \/ UpdateContactInfo(r) \/ AcceptConsent(r)
           \/ InvalidAvatar(r) \/ LinkAvatar(r)
  BY <1>2, <1>4 DEF CreateProfile, UpdateContactInfo, AcceptConsent,
                    InvalidAvatar, LinkAvatar, SaveProfile, Doing
<1>5. {"create", "contact", "consent", "avatar"} = ProfileKinds
  BY DEF ProfileKinds
<1> QED
  BY <1>1, <1>3, <1>4, <1>5 DEF ProfileStep

SettingInv == FlagInv /\ WindowInv

LEMMA SettingRequests ==
    ASSUME RequestInv, SettingInv, NEW r \in Requests, SettingStep(r)
    PROVE  StaysWith(r, SettingKinds) /\ req'[r].pc # "asked"
<1>1. ASSUME NEW kind \in SettingKinds, NEW on, NEW ask, NEW row,
             AskedAndRead(r, kind, on, ask, row)
      PROVE  StaysWith(r, SettingKinds) /\ req'[r].pc # "asked"
  <2>1. req[r].pc = "idle"
    BY <1>1 DEF AskedAndRead
  <2>2. HasRead(r, kind, on, ask, row)
    BY <1>1 DEF AskedAndRead
  <2>3. Keeps(r) /\ req'[r].kind = kind /\ req'[r].pc = "read"
    BY <2>2, Reading, Zenon
  <2> QED
    BY <2>1, <2>3 DEF StaysWith
<1>2. CASE \/ SetFlag(r) \/ DeleteFlag(r) \/ ScheduleWindow(r) \/ CancelWindow(r)
  <2>1. Done(r) /\ req[r].pc = "read"
    BY <1>2 DEF SetFlag, DeleteFlag, ScheduleWindow, CancelWindow, Doing
  <2> QED
    BY <2>1, Finishing DEF StaysWith
<1>3. ASSUME NEW environment \in Environments, NEW enabled \in BOOLEAN,
             ReadFlag(r, environment, enabled)
      PROVE  StaysWith(r, SettingKinds) /\ req'[r].pc # "asked"
  BY <1>3, ReadingFlag DEF StaysWith, SettingKinds, SettingInv
<1>4. ASSUME NEW startAt \in Times, NEW endAt \in Times,
             CheckWindow(r, startAt, endAt)
      PROVE  StaysWith(r, SettingKinds) /\ req'[r].pc # "asked"
  BY <1>4, CheckingWindow DEF StaysWith, SettingKinds, SettingInv
<1>5. ASSUME NEW f \in flags, ReadFlagId(r, f)
      PROVE  StaysWith(r, SettingKinds) /\ req'[r].pc # "asked"
  <2>1. PICK kind, on, ask, row :
           kind \in SettingKinds /\ kind = "delete flag" /\ on = f.environment /\ ask = "none" /\ row = {f}
    BY DEF SettingKinds
  <2>2. AskedAndRead(r, kind, on, ask, row)
    BY <1>5, <2>1 DEF ReadFlagId
  <2>3. kind \in SettingKinds
    BY <2>1
  <2> QED
    BY <1>1, <2>2, <2>3, Zenon
<1>6. ASSUME NEW w \in windows, ReadWindow(r, w)
      PROVE  StaysWith(r, SettingKinds) /\ req'[r].pc # "asked"
  <2>1. PICK kind, on, ask, row :
           kind \in SettingKinds /\ kind = "cancel" /\ on = w.id /\ ask = "none" /\ row = w
    BY DEF SettingKinds
  <2>2. AskedAndRead(r, kind, on, ask, row)
    BY <1>6, <2>1 DEF ReadWindow
  <2>3. kind \in SettingKinds
    BY <2>1
  <2> QED
    BY <1>1, <2>2, <2>3, Zenon
<1> QED
  BY <1>2, <1>3, <1>4, <1>5, <1>6 DEF SettingStep
(* A step on one flag or window keeps the invariant of both, and changes the *)
(* rows as FlagsKept and CancelledStays say.                                *)
LEMMA SettingStepKeeps ==
    ASSUME RequestInv, SettingInv, NEW r \in Requests, SettingStep(r)
    PROVE  RequestInv' /\ SettingInv' /\ FlagsKept /\ CancelledStays
<1>1. /\ Keeps(r) /\ req[r].pc # "done"
      /\ req'[r].pc = "done" \/ req'[r].kind \in SettingKinds
  BY SettingRequests DEF StaysWith
<1>2. ASSUME UNCHANGED flags
      PROVE  FlagsKept
  BY <1>2 DEF FlagsKept, SettingInv, FlagInv
<1>3. ASSUME UNCHANGED windows
      PROVE  CancelledStays
  BY <1>3 DEF CancelledStays, SettingInv, WindowInv
<1>4. ASSUME RequestInv', UNCHANGED windows, ~Schedules(r)'
      PROVE  WindowInv'
  BY <1>1, <1>4, WindowsUntouched DEF SettingInv
<1>5. ASSUME RequestInv', UNCHANGED flags, ~Sets(r)'
      PROVE  FlagInv'
  BY <1>1, <1>5, FlagsUntouched DEF SettingInv
<1>6. ASSUME NEW environment \in Environments, NEW enabled \in BOOLEAN,
             ReadFlag(r, environment, enabled)
      PROVE  RequestInv' /\ SettingInv' /\ FlagsKept /\ CancelledStays
  <2>1. RequestInv' /\ FlagInv' /\ ~Schedules(r)'
    BY <1>6, ReadingFlag DEF SettingInv, Schedules
  <2>2. UNCHANGED flags /\ UNCHANGED windows
    BY <1>6 DEF ReadFlag, settingVars
  <2> QED
    BY <1>2, <1>3, <1>4, <2>1, <2>2 DEF SettingInv
<1>7. ASSUME NEW startAt \in Times, NEW endAt \in Times,
             CheckWindow(r, startAt, endAt)
      PROVE  RequestInv' /\ SettingInv' /\ FlagsKept /\ CancelledStays
  <2>1. RequestInv' /\ WindowInv' /\ ~Sets(r)'
    BY <1>7, CheckingWindow DEF SettingInv, Sets
  <2>2. UNCHANGED flags /\ UNCHANGED windows
    BY <1>7 DEF CheckWindow, settingVars
  <2> QED
    BY <1>2, <1>3, <1>5, <2>1, <2>2 DEF SettingInv
<1>8. ASSUME NEW kind \in {"delete flag", "cancel"}, NEW on, NEW ask, NEW row,
             AskedAndRead(r, kind, on, ask, row), UNCHANGED settingVars
      PROVE  RequestInv' /\ SettingInv' /\ FlagsKept /\ CancelledStays
  <2>1. HasRead(r, kind, on, ask, row)
    BY <1>8 DEF AskedAndRead
  <2>2. RequestInv' /\ req'[r].kind = kind
    BY <2>1, Reading, Zenon
  <2>3. ~Sets(r)' /\ ~Schedules(r)'
    BY <2>2 DEF Sets, Schedules
  <2>4. UNCHANGED flags /\ UNCHANGED windows
    BY <1>8 DEF settingVars
  <2> QED
    BY <1>2, <1>3, <1>4, <1>5, <2>2, <2>3, <2>4 DEF SettingInv
<1>9. ASSUME NEW f \in flags, ReadFlagId(r, f)
      PROVE  RequestInv' /\ SettingInv' /\ FlagsKept /\ CancelledStays
  <2>1. PICK kind, on, ask, row :
           kind = "delete flag" /\ on = f.environment /\ ask = "none" /\ row = {f}
    OBVIOUS
  <2>2. AskedAndRead(r, kind, on, ask, row)
    BY <1>9, <2>1 DEF ReadFlagId
  <2>3. kind \in {"delete flag", "cancel"}
    BY <2>1
  <2>4. UNCHANGED settingVars
    BY <1>9 DEF ReadFlagId
  <2> QED
    BY <1>8, <2>2, <2>3, <2>4, Zenon
<1>10. ASSUME NEW w \in windows, ReadWindow(r, w)
       PROVE  RequestInv' /\ SettingInv' /\ FlagsKept /\ CancelledStays
  <2>1. PICK kind, on, ask, row :
           kind = "cancel" /\ on = w.id /\ ask = "none" /\ row = w
    OBVIOUS
  <2>2. AskedAndRead(r, kind, on, ask, row)
    BY <1>10, <2>1 DEF ReadWindow
  <2>3. kind \in {"delete flag", "cancel"}
    BY <2>1
  <2>4. UNCHANGED settingVars
    BY <1>10 DEF ReadWindow
  <2> QED
    BY <1>8, <2>2, <2>3, <2>4, Zenon
<1>11. CASE SetFlag(r) \/ DeleteFlag(r)
  <2>1. RequestInv' /\ FlagInv' /\ FlagsKept
    BY <1>11, SettingFlag, DeletingFlag DEF SettingInv
  <2>2. UNCHANGED windows /\ Done(r)
    BY <1>11 DEF SetFlag, DeleteFlag
  <2>3. ~Schedules(r)'
    BY <2>2, Finishing DEF Schedules
  <2> QED
    BY <1>3, <1>4, <2>1, <2>2, <2>3 DEF SettingInv
<1>12. CASE ScheduleWindow(r) \/ CancelWindow(r)
  <2>1. RequestInv' /\ WindowInv' /\ CancelledStays
    BY <1>12, SchedulingWindow, CancellingWindow DEF SettingInv
  <2>2. UNCHANGED flags /\ Done(r)
    BY <1>12 DEF ScheduleWindow, CancelWindow
  <2>3. ~Sets(r)'
    BY <2>2, Finishing DEF Sets
  <2> QED
    BY <1>2, <1>5, <2>1, <2>2, <2>3 DEF SettingInv
<1> QED
  BY <1>6, <1>7, <1>9, <1>10, <1>11, <1>12 DEF SettingStep

-----------------------------------------------------------------------------
(* The stores together.                                                     *)

StoreInv == RequestInv /\ CompanyInv /\ ProfileInv /\ SettingInv

LEMMA StoreInit == Init => StoreInv
<1> SUFFICES ASSUME Init
             PROVE  StoreInv
  OBVIOUS
<1> USE DEF Init, RequestInit, CompanyInit, ProfileInit, SettingInit
<1>1. /\ req = [r \in Requests |-> Unasked]
      /\ \A r \in Requests : req[r] = Unasked /\ req[r].pc = "idle"
  BY DEF Unasked
<1>2. RequestInv
  <2>1. IsRequest(Unasked)
    BY RequestMade, FALSE \in BOOLEAN DEF Unasked
  <2> QED
    BY <1>1, <2>1 DEF RequestInv, Shape, Aware
<1>3. CompanyInv
  <2>1. \A c \in Companies : company[c] \in Row \/ company[c] = NoRow
    OBVIOUS
  <2>2. \A row \in Row : row.state = "live"
    BY DEF Row
  <2>3. \A c \in Companies : ~Live(c) => company[c].logoUrl = "null"
    BY <2>1, <2>2, AbsentRows DEF Live
  <2>4. CompanyType /\ TaxIdsUnique
    BY DEF CompanyType, TaxIdsUnique
  <2>5. LogoStored
    BY DEF LogoStored
  <2>6. ASSUME NEW c \in logos
        PROVE  company[c].state # "none"
    <3>1. c \in Companies /\ company[c].logoUrl = "ours"
      OBVIOUS
    <3> QED
      BY <2>3, <3>1 DEF Live
  <2> QED
    BY <1>1, <2>4, <2>5, <2>6 DEF CompanyInv, CompanyCopies
<1>4. ProfileInv
  <2> DEFINE absent == [Created EXCEPT !.exists = FALSE]
  <2>1. /\ absent \in Profile /\ absent.avatarUrl = FALSE
        /\ Provisioned \in Profile /\ Provisioned.avatarUrl = FALSE
    <3> DEFINE no == FALSE
               yes == TRUE
    <3>1. Created = [exists |-> yes, contact |-> Given, avatarUrl |-> no,
                     consent |-> yes]
      BY DEF Created
    <3>2. no \in BOOLEAN /\ yes \in BOOLEAN
      OBVIOUS
    <3>3. absent = [Created EXCEPT !.exists = no]
          /\ Provisioned = [Created EXCEPT !.consent = no]
      BY DEF Provisioned
    <3>4. no = FALSE
      OBVIOUS
    <3> HIDE DEF no, yes, absent
    <3>5. /\ absent \in Profile /\ absent.avatarUrl = no
          /\ Provisioned \in Profile /\ Provisioned.avatarUrl = no
      BY <3>1, <3>2, <3>3 DEF Profile
    <3> QED
      BY <3>4, <3>5
  <2> HIDE DEF absent
  <2>2. profile \in [People -> {absent, Provisioned}]
    BY DEF absent
  <2>3. \A u \in People : profile[u] \in Profile /\ profile[u].avatarUrl = FALSE
    BY <2>1, <2>2
  <2>4. ProfileType
    BY <2>1, <2>2 DEF ProfileType
  <2> QED
    BY <1>1, <2>3, <2>4 DEF ProfileInv, AvatarStored
<1>5. SettingInv
  <2>1. \A i : ~ForAll(i)
    BY <1>1 DEF ForAll, Sets
  <2> QED
    BY <1>1, <2>1
       DEF SettingInv, FlagInv, WindowInv, ForAllOverlapped, Sets, Schedules
<1> QED
  BY <1>2, <1>3, <1>4, <1>5 DEF StoreInv

LEMMA Kinds ==
    /\ \A k \in CompanyKinds : k \notin ProfileKinds /\ k \notin SettingKinds
    /\ \A k \in ProfileKinds : k \notin CompanyKinds /\ k \notin SettingKinds
    /\ \A k \in SettingKinds : k \notin CompanyKinds /\ k \notin ProfileKinds
BY DEF CompanyKinds, ProfileKinds, SettingKinds

(* Whatever a step does, it keeps the invariant of the stores it leaves     *)
(* alone, if the request that makes it stays with its own store.            *)
LEMMA OtherStores ==
    ASSUME StoreInv, RequestInv', NEW r \in Requests, NEW kinds,
           StaysWith(r, kinds)
    PROVE  /\ UNCHANGED companyVars /\ req'[r].pc # "asked"
              /\ kinds \cap CompanyKinds = {} => CompanyInv'
           /\ UNCHANGED profileVars /\ kinds \cap ProfileKinds = {} => ProfileInv'
           /\ UNCHANGED settingVars /\ kinds \cap SettingKinds = {}
              => SettingInv' /\ FlagsKept /\ CancelledStays
<1>1. /\ Keeps(r) /\ req[r].pc # "done"
      /\ req'[r].pc = "done" \/ req'[r].kind \in kinds
  BY DEF StaysWith
<1>2. ASSUME UNCHANGED companyVars, req'[r].pc # "asked",
             kinds \cap CompanyKinds = {}
      PROVE  CompanyInv'
  BY <1>1, <1>2, CompaniesRest DEF StoreInv
<1>3. ASSUME UNCHANGED profileVars, kinds \cap ProfileKinds = {}
      PROVE  ProfileInv'
  BY <1>1, <1>3, ProfilesRest DEF StoreInv
<1>4. ASSUME UNCHANGED settingVars, kinds \cap SettingKinds = {}
      PROVE  SettingInv' /\ FlagsKept /\ CancelledStays
  <2>1. ~Sets(r)' /\ ~Schedules(r)'
    BY <1>1, <1>4 DEF Sets, Schedules, SettingKinds
  <2>2. flags' = flags /\ windows' = windows
    BY <1>4 DEF settingVars
  <2>3. SettingInv'
    BY <1>1, <2>1, <2>2, FlagsUntouched, WindowsUntouched DEF StoreInv, SettingInv
  <2>4. FlagsKept /\ CancelledStays
    BY <2>2 DEF FlagsKept, CancelledStays, StoreInv, SettingInv, FlagInv, WindowInv
  <2> QED
    BY <2>3, <2>4
<1> QED
  BY <1>2, <1>3, <1>4

\* What EditsKept says of one step.
Edit == /\ CompanyKept /\ CompanyStaysGone
        /\ ProfileKept
        /\ FlagsKept /\ CancelledStays

LEMMA StoreNext == StoreInv /\ [Next]_vars => StoreInv' /\ [Edit]_vars
<1>1. ASSUME StoreInv, UNCHANGED vars
      PROVE  StoreInv' /\ [Edit]_vars
  <2>1. /\ req' = req /\ company' = company /\ logos' = logos
        /\ unsettled' = unsettled /\ profile' = profile /\ avatars' = avatars
        /\ unlinked' = unlinked /\ flags' = flags /\ windows' = windows
    BY <1>1 DEF vars
  <2>2. RequestInv'
    BY <1>1, <2>1 DEF StoreInv, RequestInv, Shape, Aware
  <2>3. CompanyInv'
    BY <1>1, <2>1 DEF StoreInv, CompanyInv, CompanyType, TaxIdsUnique, TaxIdFree,
                      Live, LogoStored, CompanyCopies, OfCompany, Copy, Ignored
  <2>4. ProfileInv'
    BY <1>1, <2>1 DEF StoreInv, ProfileInv, ProfileType, AvatarStored, InPerson,
                      OfPerson, Draft
  <2>5. FlagInv'
    BY <1>1, <2>1 DEF StoreInv, SettingInv, FlagInv, Setter, Sets, Found,
                      ForAllOverlapped, ForAll
  <2>6. WindowInv'
    BY <1>1, <2>1 DEF StoreInv, SettingInv, WindowInv, Schedules, Scheduler, Overlaps
  <2> QED
    BY <1>1, <2>2, <2>3, <2>4, <2>5, <2>6 DEF StoreInv, SettingInv
<1>2. ASSUME company' = company
      PROVE  CompanyKept /\ CompanyStaysGone
  BY <1>2 DEF CompanyKept, CompanyStaysGone
<1>3. ASSUME profile' = profile
      PROVE  ProfileKept
  BY <1>3 DEF ProfileKept
<1>4. ASSUME StoreInv, NEW r \in Requests, CompanyStep(r),
             UNCHANGED <<profileVars, settingVars>>
      PROVE  StoreInv' /\ Edit
  <2>1. RequestInv' /\ CompanyInv' /\ StaysWith(r, CompanyKinds)
    BY <1>4, CompanyStepKeeps, CompanyRequests DEF StoreInv
  <2>2. CompanyKept /\ CompanyStaysGone
    BY <1>4, CompanyChanges DEF StoreInv
  <2>3. CompanyKinds \cap ProfileKinds = {} /\ CompanyKinds \cap SettingKinds = {}
    BY Kinds
  <2>4. ProfileInv' /\ SettingInv' /\ FlagsKept /\ CancelledStays
    BY <1>4, <2>1, <2>3, OtherStores
  <2>5. ProfileKept
    BY <1>3, <1>4 DEF profileVars
  <2> QED
    BY <2>1, <2>2, <2>4, <2>5 DEF StoreInv, Edit
<1>5. ASSUME StoreInv, NEW r \in Requests, ProfileStep(r),
             UNCHANGED <<companyVars, settingVars>>
      PROVE  StoreInv' /\ Edit
  <2>1. /\ RequestInv' /\ ProfileInv' /\ StaysWith(r, ProfileKinds)
        /\ req'[r].pc # "asked"
    BY <1>5, ProfileStepKeeps, ProfileRequests DEF StoreInv
  <2>2. ProfileKept
    BY <1>5, ProfileChanges DEF StoreInv
  <2>3. ProfileKinds \cap CompanyKinds = {} /\ ProfileKinds \cap SettingKinds = {}
    BY Kinds
  <2>4. CompanyInv' /\ SettingInv' /\ FlagsKept /\ CancelledStays
    BY <1>5, <2>1, <2>3, OtherStores
  <2>5. CompanyKept /\ CompanyStaysGone
    BY <1>2, <1>5 DEF companyVars
  <2> QED
    BY <2>1, <2>2, <2>4, <2>5 DEF StoreInv, Edit
<1>6. ASSUME StoreInv, NEW r \in Requests, SettingStep(r),
             UNCHANGED <<companyVars, profileVars>>
      PROVE  StoreInv' /\ Edit
  <2>1. /\ RequestInv' /\ SettingInv' /\ FlagsKept /\ CancelledStays
        /\ StaysWith(r, SettingKinds) /\ req'[r].pc # "asked"
    BY <1>6, SettingStepKeeps, SettingRequests DEF StoreInv
  <2>2. SettingKinds \cap CompanyKinds = {} /\ SettingKinds \cap ProfileKinds = {}
    BY Kinds
  <2>3. CompanyInv' /\ ProfileInv'
    BY <1>6, <2>1, <2>2, OtherStores
  <2>4. CompanyKept /\ CompanyStaysGone /\ ProfileKept
    BY <1>2, <1>3, <1>6 DEF companyVars, profileVars
  <2> QED
    BY <2>1, <2>3, <2>4 DEF StoreInv, Edit
<1>7. ASSUME StoreInv, NEW r \in Requests, Stop(r),
             UNCHANGED <<companyVars, profileVars, settingVars>>
      PROVE  StoreInv' /\ Edit
  <2>1. RequestInv' /\ StaysWith(r, {}) /\ req'[r].pc # "asked"
    BY <1>7, Finishing DEF Stop, StoreInv, StaysWith
  <2>2. CompanyInv' /\ ProfileInv' /\ SettingInv' /\ FlagsKept /\ CancelledStays
    BY <1>7, <2>1, OtherStores
  <2>3. CompanyKept /\ CompanyStaysGone /\ ProfileKept
    BY <1>2, <1>3, <1>7 DEF companyVars, profileVars
  <2> QED
    BY <2>1, <2>2, <2>3 DEF StoreInv, Edit
<1>8. StoreInv /\ Next => StoreInv' /\ Edit
  BY <1>4, <1>5, <1>6, <1>7 DEF Next
<1> QED
  BY <1>1, <1>8

(* The invariant holds of every state, and every step is an edit.           *)
LEMMA StoreAlways == Spec => []StoreInv /\ [][Edit]_vars
  BY StoreInit, StoreNext, PTL DEF Spec

(* Every column, bucket, flag and window keeps its type.                    *)
THEOREM TypeCorrect == Spec => []TypeOK
<1>1. StoreInv => TypeOK
  BY DEF StoreInv, CompanyInv, ProfileInv, SettingInv, FlagInv, WindowInv, TypeOK,
         SettingType, FlagRows, WindowRows
<1> QED
  BY <1>1, StoreAlways, PTL

(* A stored image and the URL in its row agree: every step of the uploads   *)
(* and removals of logos and avatars keeps them so, or leaves its mark.      *)
THEOREM ImagesAreStored == Spec => []ImagesStored
<1>1. StoreInv => ImagesStored
  BY DEF StoreInv, CompanyInv, ProfileInv, ImagesStored
<1> QED
  BY <1>1, StoreAlways, PTL

(* Flags and windows that were set one after the other do not contradict    *)
(* each other, however the requests of administrators interleave.           *)
THEOREM SettingsAreAgreed == Spec => []SettingsAgree
<1>1. StoreInv => SettingsAgree
  BY FlagInvUnique, WindowInvApart DEF StoreInv, SettingInv, SettingsAgree
<1> QED
  BY <1>1, StoreAlways, PTL

(* A column of a company or of a profile changes only by a request that was *)
(* asked to change it, or by one that overlapped another request on the same *)
(* row, which may take an older state back.  A row of a flag changes only by *)
(* a request for its environment, or for all environments if it is that of   *)
(* ""; of a flag that is deleted and set again nothing is said.  No step     *)
(* takes consent back, makes a deleted company live or a cancelled window    *)
(* active.                                                                   *)
THEOREM EditsAreKept == Spec => EditsKept
<1>1. [Edit]_vars => [/\ CompanyKept /\ CompanyStaysGone
                      /\ ProfileKept
                      /\ FlagsKept /\ CancelledStays]_vars
  BY DEF Edit
<1> QED
  BY <1>1, StoreAlways, PTL DEF EditsKept

=============================================================================
