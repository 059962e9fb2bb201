--------------------------- MODULE TwoFactorProofs ---------------------------
(***************************************************************************)
(* Theorems about TwoFactor, for any number of requests, devices,          *)
(* countries, secrets and lots of codes.                                   *)
(***************************************************************************)
EXTENDS TwoFactor, TLAPS

USE BoundsAreNat

-----------------------------------------------------------------------------
(* The invariant.  s, c, l, d, v and t stand for sec, codes, lots, devices, *)
(* proved and countries.                                                   *)

Answering == {"answer_factor", "code_mark", "answer_device", "answer_country"}

\* A request has what its next steps are going to use.
Shaped(o) ==
    /\ o.pc \in Answering \cup {"login_profile", "login_device", "session"}
       \/ o.proven => o.dev \in Devices
    /\ o.pc = "country_push" => o.country \in Countries
    /\ o.pc \in {"country_again", "country_write"} => o.country \in Countries
    /\ o.first => /\ o.country \in Countries
                  /\ ~o.proven /\ o.pc \notin Answering
    /\ o.pc = "code_mark" => o.code \in Codes
    /\ o.pc \in {"answer_device", "answer_country"} => o.proven
    /\ o.pc \in {"login_profile", "login_device"} => ~o.proven

\* A login that the factor guards is asked for it.
Sealed(o, s, d) ==
    /\ o.guarded => s.enabled
    /\ o.pc = "login_device" => (o.guarded => o.two)
    /\ o.pc = "session" => o.proven \/ (~o.guarded /\ o.dev \in d)

\* A code that was dead when the request began is not found.
Buried(o, c, l) ==
    o.dead => /\ o.pc = "answer_factor"
              /\ o.code \in Codes /\ o.code[1] <= l /\ c[o.code] # "unused"

\* An activation whose readings still stand activates what it has proved.
Backed(o, s, v) ==
    ~o.stale =>
        /\ o.pc = "activate_read" => o.secret = s.pending /\ o.secret \in v
        /\ o.pc = "activate_write" => o.secret \in v

\* The old codes are gone when new ones are inserted.
Emptied(o, c) ==
    ~o.stale /\ o.pc = "codes_create" => \A x \in Codes : c[x] = "none"

\* A country that is going to be trusted is not yet, and what a removal has
\* read of the list is the list.
Listed(o, t) ==
    ~o.stale =>
        /\ o.pc = "country_push" => t[o.country] = 0
        /\ o.pc \in {"login_device", "session"} /\ o.first =>
                t[o.country] = 0
        /\ o.pc = "country_write" => o.list = t

Ok(o, s, c, l, d, v, t) ==
    /\ Shaped(o) /\ Sealed(o, s, d) /\ Buried(o, c, l) /\ Backed(o, s, v)
    /\ Emptied(o, c) /\ Listed(o, t)

OkNow(o) == Ok(o, sec, codes, lots, devices, proved, countries)

\* Once the factor is off, either its codes are about to be deleted, or they
\* are gone and nobody brings new ones.
Cleared ==
    "codes" \notin hurt /\ ~sec.enabled =>
        \/ \E q \in Procs : op[q].pc = "disable_codes"
        \/ /\ \A x \in Codes : codes[x] = "none"
           /\ \A q \in Procs :
                 op[q].pc \in {"codes_delete", "codes_create"} => op[q].stale

OneLot == "codes" \notin hurt =>
    \A x, y \in Codes : Present(x) /\ Present(y) => x[1] = y[1]

NoSecretOff == ~sec.enabled => sec.secret = NoSecret

CodesInv == Cleared /\ OneLot /\ NoSecretOff

FactorInv == /\ TypeOK /\ SecretIsProven /\ CountriesAsAsked
             /\ CodesInv
             /\ \A p \in Procs : OkNow(op[p])

-----------------------------------------------------------------------------
(* How a step of one request leaves the invariant in force.                *)

(* A request that is not there is well typed, *)
LEMMA IdleType == Idle \in Op
<1>1. EmptyList \in List
  BY DEF EmptyList, List
<1>2. NoSecret \in 0..MaxSecrets
  BY DEF NoSecret
<1> QED
  BY <1>1, <1>2 DEF Idle, Op, PC

(* and has no claims, *)
LEMMA IdleOk == ASSUME NEW s, NEW c, NEW l, NEW d, NEW v, NEW t
                PROVE  Ok(Idle, s, c, l, d, v, t)
BY DEF Ok, Shaped, Sealed, Buried, Backed, Emptied, Listed, Idle, Answering

(* like one that has only begun, as long as it is no login or answer. *)
LEMMA BegunOk ==
    ASSUME NEW pc \in {"enable_save", "regen_totp", "disable_totp",
                       "codes_delete", "disable_codes"},
           NEW s, NEW c, NEW l, NEW d, NEW v, NEW t
    PROVE  Begun(pc) \in Op /\ Ok(Begun(pc), s, c, l, d, v, t)
<1>1. Begun(pc) \in Op
  BY IdleType DEF Begun, Op, PC, SecretPC, CodePC
<1>2. Ok(Begun(pc), s, c, l, d, v, t)
  BY DEF Begun, Ok, Shaped, Sealed, Buried, Backed, Emptied, Listed, Idle, Answering
<1> QED
  BY <1>1, <1>2

(* What is known of the request that takes the step. *)
LEMMA Known ==
    ASSUME FactorInv, NEW p \in Procs
    PROVE  op[p] \in Op /\ OkNow(op[p])
BY DEF FactorInv, TypeOK

\* The variables that most steps leave alone.
Still == UNCHANGED <<sec, countries, codes, devices, secrets, lots, proved,
                     asked, hurt>>

(* A step that only the request itself notices. *)
LEMMA Moves ==
    ASSUME FactorInv, NEW p \in Procs, NEW new \in Op, Goto(p, new),
           OkNow(new),
           op[p].pc \notin CodePC, new.pc \in CodePC => sec.enabled,
           challenges' \subseteq Challenge, Still
    PROVE  FactorInv'
<1>1. /\ UNCHANGED <<sec, countries, codes, devices, secrets, lots, proved,
                     asked, hurt>>
      /\ TypeOK /\ op' = [op EXCEPT ![p] = new]
  BY DEF Still, FactorInv, Goto
<1>2. \A q \in Procs : OkNow(op'[q])
  BY <1>1 DEF FactorInv, TypeOK
<1>3. TypeOK'
  BY <1>1 DEF TypeOK
<1>4. SecretIsProven' /\ CountriesAsAsked'
  BY <1>1 DEF FactorInv, SecretIsProven, CountriesAsAsked
<1>5. OneLot' /\ NoSecretOff'
  BY <1>1 DEF FactorInv, CodesInv, OneLot, NoSecretOff, Present
<1>6. Cleared'
  <2> SUFFICES ASSUME "codes" \notin hurt, ~sec.enabled PROVE Cleared'
    BY <1>1 DEF Cleared
  <2>1. new.pc \notin CodePC
    OBVIOUS
  <2>2. CASE \E q \in Procs : op[q].pc = "disable_codes"
    <3>1. PICK q \in Procs : op[q].pc = "disable_codes"
      BY <2>2
    <3>2. q # p
      BY <3>1 DEF CodePC
    <3>3. op'[q].pc = "disable_codes"
      BY <1>1, <3>1, <3>2 DEF TypeOK
    <3> QED
      BY <3>3 DEF Cleared
  <2>3. CASE /\ \A x \in Codes : codes[x] = "none"
             /\ \A q \in Procs : op[q].pc \in {"codes_delete", "codes_create"}
                                   => op[q].stale
    <3>1. \A q \in Procs : op'[q].pc \in {"codes_delete", "codes_create"}
                             => op'[q].stale
      BY <1>1, <2>1, <2>3 DEF TypeOK, CodePC
    <3> QED
      BY <1>1, <2>3, <3>1 DEF Cleared
  <2> QED
    BY <2>2, <2>3 DEF FactorInv, CodesInv, Cleared
<1>7. \A q \in Procs : OkNow(op[q])'
  BY <1>1, <1>2 DEF OkNow
<1> QED
  BY <1>3, <1>4, <1>5, <1>6, <1>7 DEF FactorInv, CodesInv

\* What the others may do to a request: nothing is handed out or trusted
\* less, no old code comes to life, and what it has read changes only when it
\* is made stale.
Bears(o, n) ==
    /\ n.pc = o.pc /\ n.secret = o.secret /\ n.code = o.code
    /\ n.dead = o.dead /\ n.dev = o.dev /\ n.country = o.country
    /\ n.two = o.two /\ n.first = o.first /\ n.proven = o.proven
    /\ n.list = o.list
    /\ n.guarded => o.guarded /\ sec'.enabled
    /\ o.stale => n.stale
    /\ ~n.stale =>
        /\ o.pc = "activate_read" => sec'.pending = sec.pending
        /\ o.pc = "codes_create" =>
              \A x \in Codes : codes[x] = "none" => codes'[x] = "none"
        /\ o.pc \in CountryPC => countries' = countries

Grows ==
    /\ lots \in Nat /\ lots' \in Nat /\ lots <= lots'
    /\ devices \subseteq devices' /\ proved \subseteq proved'
    /\ \A x \in Codes :
          codes'[x] = "unused" => codes[x] = "unused" \/ x[1] > lots

(* A request that bears a step keeps its claims. *)
LEMMA Endures ==
    ASSUME NEW o \in Op, NEW n \in Op, OkNow(o), Grows, Bears(o, n)
    PROVE  Ok(n, sec', codes', lots', devices', proved', countries')
<1>1. Shaped(n)
  BY DEF OkNow, Ok, Shaped, Bears
<1>2. Sealed(n, sec', devices')
  BY DEF OkNow, Ok, Sealed, Bears, Grows
<1>3. Buried(n, codes', lots')
  <2> SUFFICES ASSUME n.dead PROVE Buried(n, codes', lots')
    BY DEF Buried
  <2>1. /\ n.pc = "answer_factor" /\ n.code \in Codes
        /\ n.code[1] <= lots /\ codes[n.code] # "unused"
    BY DEF OkNow, Ok, Buried, Bears
  <2>2. n.code[1] \in Nat
    BY <2>1 DEF Codes
  <2>3. n.code[1] <= lots' /\ codes'[n.code] # "unused"
    BY <2>1, <2>2 DEF Grows
  <2> QED
    BY <2>1, <2>3 DEF Buried
<1>4. Backed(n, sec', proved')
  BY DEF OkNow, Ok, Backed, Bears, Grows
<1>5. Emptied(n, codes')
  BY DEF OkNow, Ok, Emptied, Bears
<1>6. Listed(n, countries')
  BY DEF OkNow, Ok, Listed, Bears, CountryPC
<1> QED
  BY <1>1, <1>2, <1>3, <1>4, <1>5, <1>6 DEF Ok

(* A step that changes what the claims are about, but only for the better. *)
LEMMA Changes ==
    ASSUME FactorInv, NEW p \in Procs, NEW new \in Op, Goto(p, new), Grows,
           op[p].pc \notin CodePC, new.pc \notin CodePC,
           UNCHANGED <<sec, countries, challenges, secrets, lots, asked, hurt>>,
           codes' \in [Codes -> {"none", "unused", "used"}],
           \A x \in Codes : codes[x] = "none" <=> codes'[x] = "none",
           devices' \subseteq Devices, proved' \subseteq Secrets,
           Ok(new, sec', codes', lots', devices', proved', countries')
    PROVE  FactorInv'
<1>1. /\ TypeOK /\ SecretIsProven /\ CountriesAsAsked /\ CodesInv
      /\ op' = [op EXCEPT ![p] = new]
  BY DEF FactorInv, Goto
<1>2. ASSUME NEW q \in Procs
      PROVE  /\ op'[q] \in Op
             /\ Ok(op'[q], sec', codes', lots', devices', proved', countries')
  <2>1. op[q] \in Op /\ OkNow(op[q])
    BY Known
  <2>2. op'[q] = IF q = p THEN new ELSE op[q]
    BY <1>1 DEF TypeOK
  <2>3. op[q].guarded => sec'.enabled
    BY <2>1 DEF OkNow, Ok, Sealed
  <2>4. Bears(op[q], op[q])
    BY <2>3 DEF Bears
  <2> QED
    BY <2>1, <2>2, <2>4, Endures
<1>3. op' \in [Procs -> Op]
  BY <1>1, <1>2 DEF TypeOK
<1>4. TypeOK'
  BY <1>1, <1>3 DEF TypeOK
<1>5. SecretIsProven' /\ CountriesAsAsked'
  BY <1>1 DEF SecretIsProven, CountriesAsAsked, Grows
<1>6. OneLot' /\ NoSecretOff'
  BY <1>1 DEF CodesInv, OneLot, NoSecretOff, Present
<1>7. \A q \in Procs : op'[q] = op[q] \/ op'[q].pc \notin CodePC
  BY <1>1 DEF TypeOK
<1>8. \A q \in Procs : op[q].pc = "disable_codes" => op'[q] = op[q]
  BY <1>1 DEF TypeOK, CodePC
<1>9. Cleared'
  BY <1>1, <1>7, <1>8 DEF CodesInv, Cleared, CodePC
<1> QED
  BY <1>2, <1>4, <1>5, <1>6, <1>9 DEF FactorInv, CodesInv, OkNow

(* A request that takes a step which others may notice. *)
LEMMA Writes ==
    ASSUME FactorInv, NEW p \in Procs, NEW new \in Op, NEW pcs, NEW what,
           Overwrite(p, new, pcs, what),
           what \in {"secret", "codes", "countries"},
           sec' \in SecurityRow, sec.enabled => sec'.enabled,
           sec' = sec \/ SecretPC \subseteq pcs,
           countries' \in List, UNCHANGED <<challenges, devices, proved>>,
           countries' = countries \/ CountryPC \subseteq pcs,
           codes' \in [Codes -> {"none", "unused", "used"}],
           codes' = codes \/ CodePC \subseteq pcs,
           asked' \subseteq Countries,
           secrets' \in 0..MaxSecrets, lots' \in 0..MaxLots, lots <= lots',
           \A x \in Codes :
               codes'[x] = "unused" => codes[x] = "unused" \/ x[1] > lots,
           Ok(new, sec', codes', lots', devices', proved', countries'),
           SecretIsProven', CountriesAsAsked', CodesInv'
    PROVE  FactorInv'
<1>1. /\ op \in [Procs -> Op] /\ hurt \subseteq {"secret", "codes", "countries"}
      /\ lots \in Nat /\ lots' \in Nat
  BY DEF FactorInv, TypeOK
<1>2. ASSUME NEW q \in Procs
      PROVE  /\ op'[q] \in Op
             /\ Ok(op'[q], sec', codes', lots', devices', proved', countries')
  <2> DEFINE o == op[q]
             m == [o EXCEPT !.stale = TRUE]
  <2>1. o \in Op /\ OkNow(o)
    BY Known
  <2>2. op'[q] = IF q = p THEN new ELSE IF o.pc \in pcs THEN m ELSE o
    BY DEF Overwrite
  <2>3. o.guarded => sec'.enabled
    BY <2>1 DEF OkNow, Ok, Sealed
  <2>4. /\ o.pc \notin pcs /\ o.pc = "activate_read" => sec' = sec
        /\ o.pc \notin pcs /\ o.pc = "codes_create" => codes' = codes
        /\ o.pc \notin pcs /\ o.pc \in CountryPC => countries' = countries
    BY DEF SecretPC, CodePC
  <2> HIDE DEF o
  <2>5. m \in Op
    BY <2>1 DEF Op
  <2>6. /\ m.pc = o.pc /\ m.secret = o.secret /\ m.code = o.code
        /\ m.dead = o.dead /\ m.dev = o.dev /\ m.country = o.country
        /\ m.two = o.two /\ m.first = o.first /\ m.proven = o.proven
        /\ m.list = o.list /\ m.guarded = o.guarded /\ m.stale
    BY <2>1 DEF Op
  <2> HIDE DEF m
  <2>7. Grows
    BY <1>1 DEF Grows
  <2>8. Ok(m, sec', codes', lots', devices', proved', countries')
    BY <2>1, <2>3, <2>5, <2>6, <2>7, Endures DEF Bears
  <2>9. ASSUME o.pc \notin pcs
        PROVE  Ok(o, sec', codes', lots', devices', proved', countries')
    BY <2>1, <2>3, <2>4, <2>7, <2>9, Endures DEF Bears
  <2> QED
    BY <2>1, <2>2, <2>5, <2>8, <2>9
<1>3. op' \in [Procs -> Op]
  BY <1>2 DEF Overwrite
<1>4. hurt' \subseteq {"secret", "codes", "countries"}
  BY <1>1 DEF Overwrite
<1>5. TypeOK'
  BY <1>3, <1>4 DEF FactorInv, TypeOK
<1> QED
  BY <1>2, <1>5 DEF FactorInv, OkNow

(* A write that is not about the codes leaves them as they were. *)
LEMMA CodesStay ==
    ASSUME FactorInv, NEW p \in Procs, NEW new \in Op, NEW pcs, NEW what,
           Overwrite(p, new, pcs, what), UNCHANGED codes,
           op[p].pc \notin CodePC, new.pc \notin CodePC,
           sec'.enabled = sec.enabled, sec'.secret = sec.secret
    PROVE  CodesInv'
<1>1. CodesInv /\ op \in [Procs -> Op] /\ (hurt \subseteq hurt')
  BY DEF FactorInv, TypeOK, Overwrite
<1>2. OneLot' /\ NoSecretOff'
  BY <1>1 DEF CodesInv, OneLot, NoSecretOff, Present
<1>3. ASSUME NEW q \in Procs
      PROVE  \/ op'[q].pc = op[q].pc /\ (op[q].stale => op'[q].stale)
             \/ op[q].pc \notin CodePC /\ op'[q].pc \notin CodePC
  BY <1>1 DEF Overwrite, Op
<1>4. Cleared'
  BY <1>1, <1>3 DEF CodesInv, Cleared, CodePC
<1> QED
  BY <1>2, <1>4 DEF CodesInv

-----------------------------------------------------------------------------
(* Each action preserves the invariant.                                    *)

(* A request that begins with nothing but its kind.                        *)
LEMMA PlainStep ==
    ASSUME FactorInv, NEW p \in Procs,
           EnableRead(p) \/ RegenerateRead(p) \/ DisableRead(p)
    PROVE  FactorInv'
<1>1. /\ UNCHANGED challenges /\ Still /\ op[p].pc \notin CodePC
      /\ \/ Goto(p, Begun("enable_save")) \/ Goto(p, Begun("regen_totp"))
         \/ Goto(p, Begun("disable_totp"))
  BY DEF EnableRead, RegenerateRead, DisableRead, At, history, Still, CodePC
<1>2. challenges' \subseteq Challenge
  BY <1>1 DEF FactorInv, TypeOK
<1>3. ASSUME NEW pc \in {"enable_save", "regen_totp", "disable_totp"},
             Goto(p, Begun(pc))
      PROVE  FactorInv'
  <2>1. Begun(pc) \in Op /\ OkNow(Begun(pc))
    BY BegunOk DEF OkNow
  <2>2. Begun(pc).pc = pc
    BY DEF Begun, Idle
  <2>3. Begun(pc).pc \notin CodePC
    BY <2>2 DEF CodePC
  <2> QED
    BY <1>1, <1>2, <1>3, <2>1, <2>3, Moves
<1> QED
  BY <1>1, <1>3

(* The code of the authenticator that a change of the factor asks for. *)
LEMMA TotpStep ==
    ASSUME FactorInv, NEW p \in Procs, RegenerateTotp(p) \/ DisableTotp(p)
    PROVE  FactorInv'
<1> DEFINE o == op[p]
           n == [o EXCEPT !.pc = "codes_delete"]
           m == [o EXCEPT !.pc = "disable_write"]
<1>1. o \in Op /\ OkNow(o)
  BY Known
<1>2. /\ o.pc \in {"regen_totp", "disable_totp"}
      /\ UNCHANGED challenges /\ Still /\ op[p].pc \notin CodePC
      /\ (RightTotp /\ (Goto(p, n) \/ Goto(p, m))) \/ Goto(p, Idle)
  BY DEF RegenerateTotp, DisableTotp, At, Move, Done, history, Still, CodePC
<1> HIDE DEF o
<1>3. n \in Op /\ m \in Op
  BY <1>1 DEF Op, PC, CodePC, SecretPC
<1>4. OkNow(n) /\ OkNow(m)
  <2>1. /\ n.pc = "codes_delete" /\ m.pc = "disable_write"
        /\ n.dev = o.dev /\ n.country = o.country /\ n.first = o.first
        /\ n.proven = o.proven /\ n.guarded = o.guarded /\ n.dead = o.dead
        /\ m.dev = o.dev /\ m.country = o.country /\ m.first = o.first
        /\ m.proven = o.proven /\ m.guarded = o.guarded /\ m.dead = o.dead
    BY <1>1 DEF Op
  <2> HIDE DEF n, m
  <2> QED
    BY <1>1, <1>2, <2>1
    DEF OkNow, Ok, Shaped, Sealed, Buried, Backed, Emptied, Listed, Answering
<1>5. challenges' \subseteq Challenge
  BY <1>2 DEF FactorInv, TypeOK
<1>6. OkNow(Idle) /\ Idle.pc \notin CodePC
  BY IdleOk DEF OkNow, Idle, CodePC
<1>7. RightTotp => sec.enabled
  BY DEF RightTotp, FactorInv, CodesInv, NoSecretOff
<1> HIDE DEF n, m
<1> QED
  BY <1>2, <1>3, <1>4, <1>5, <1>6, <1>7, IdleType, Moves

(* The pending secret: stored, *)
LEMMA EnableSaveStep ==
    ASSUME FactorInv, NEW p \in Procs, EnableSave(p) PROVE FactorInv'
<1>1. /\ secrets < MaxSecrets /\ secrets' = secrets + 1
      /\ sec' = [sec EXCEPT !.pending = secrets + 1]
      /\ Overwrite(p, Idle, SecretPC, "secret")
      /\ UNCHANGED <<countries, codes, devices, challenges, lots, proved, asked>>
  BY DEF EnableSave
<1>2. TypeOK /\ SecretIsProven
  BY DEF FactorInv
<1>3. secrets + 1 \in 0..MaxSecrets
  BY <1>1, <1>2 DEF TypeOK
<1>4. /\ sec' \in SecurityRow /\ sec'.enabled = sec.enabled
      /\ sec'.secret = sec.secret
  BY <1>1, <1>2, <1>3 DEF TypeOK, SecurityRow
<1>5. SecretIsProven' /\ CountriesAsAsked'
  BY <1>1, <1>2, <1>4 DEF FactorInv, SecretIsProven, CountriesAsAsked, Overwrite
<1>6. lots \in Nat /\ lots <= lots
  BY <1>2 DEF TypeOK
<1>7. CodesInv'
  <2>1. op[p].pc \notin CodePC /\ Idle.pc \notin CodePC
    BY DEF EnableSave, At, Idle, CodePC
  <2> QED
    BY <1>1, <1>4, <2>1, IdleType, CodesStay
<1> QED
  BY <1>1, <1>2, <1>3, <1>4, <1>5, <1>6, <1>7, IdleType, IdleOk, Writes
  DEF TypeOK

(* proved by a code, *)
LEMMA VerifyReadStep ==
    ASSUME FactorInv, NEW p \in Procs, VerifyRead(p) PROVE FactorInv'
<1> DEFINE n == [Begun("activate_read") EXCEPT !.secret = sec.pending]
<1>1. /\ Goto(p, n) /\ sec.pending # NoSecret
      /\ proved' = proved \cup {sec.pending}
      /\ UNCHANGED <<sec, countries, codes, devices, challenges, secrets, lots,
                     asked, hurt>>
  BY DEF VerifyRead
<1>2. TypeOK /\ SecretIsProven
  BY DEF FactorInv
<1>3. sec.pending \in 0..MaxSecrets /\ sec.pending \in Secrets
  BY <1>1, <1>2 DEF TypeOK, SecurityRow, Secrets, NoSecret
<1>4. n \in Op
  BY <1>3, IdleType DEF Begun, Op, PC, SecretPC
<1>5. Ok(n, sec', codes', lots', devices', proved', countries')
  <2>1. /\ n.pc = "activate_read" /\ n.secret = sec.pending /\ ~n.proven
        /\ ~n.first /\ ~n.guarded /\ ~n.dead
    BY DEF Begun, Idle
  <2> HIDE DEF n
  <2> QED
    BY <1>1, <2>1 DEF Ok, Shaped, Sealed, Buried, Backed, Emptied, Listed, Answering
<1> HIDE DEF n
<1>6. Grows /\ proved' \subseteq Secrets
  BY <1>1, <1>2, <1>3 DEF Grows, TypeOK
<1>7. op[p].pc \notin CodePC /\ n.pc \notin CodePC
  BY DEF VerifyRead, At, n, Begun, Idle, CodePC
<1> QED
  BY <1>1, <1>2, <1>4, <1>5, <1>6, <1>7, Changes DEF TypeOK

(* read once more, *)
LEMMA ActivateReadStep ==
    ASSUME FactorInv, NEW p \in Procs, ActivateRead(p) PROVE FactorInv'
<1> DEFINE o == op[p]
           n == [o EXCEPT !.pc = "activate_write", !.secret = sec.pending]
<1>1. o \in Op /\ OkNow(o)
  BY Known
<1>2. /\ o.pc = "activate_read" /\ Goto(p, n)
      /\ UNCHANGED challenges /\ Still /\ op[p].pc \notin CodePC
  BY DEF ActivateRead, At, history, Still, CodePC
<1>3. challenges' \subseteq Challenge /\ sec.pending \in 0..MaxSecrets
  BY <1>2 DEF FactorInv, TypeOK, SecurityRow
<1> HIDE DEF o
<1>4. n \in Op
  BY <1>1, <1>3 DEF Op, PC, SecretPC
<1>5. /\ n.pc = "activate_write" /\ n.secret = sec.pending
      /\ n.dev = o.dev /\ n.country = o.country /\ n.first = o.first
      /\ n.proven = o.proven /\ n.guarded = o.guarded /\ n.dead = o.dead
      /\ n.stale = o.stale
  BY <1>1 DEF Op
<1> HIDE DEF n
<1>6. OkNow(n)
  BY <1>1, <1>2, <1>5 DEF OkNow, Ok, Shaped, Sealed, Buried, Backed, Emptied, Listed, Answering
<1> QED
  BY <1>2, <1>3, <1>4, <1>5, <1>6, Moves DEF CodePC

(* and made the active one. *)
LEMMA ActivateWriteStep ==
    ASSUME FactorInv, NEW p \in Procs, ActivateWrite(p) PROVE FactorInv'
<1> DEFINE o == op[p]
<1>1. o \in Op /\ OkNow(o)
  BY Known
<1>2. /\ o.pc = "activate_write"
      /\ sec' = [enabled |-> TRUE, secret |-> o.secret, pending |-> NoSecret]
      /\ Overwrite(p, Begun("codes_delete"), SecretPC, "secret")
      /\ UNCHANGED <<countries, codes, devices, challenges, secrets, lots,
                     proved, asked>>
  BY DEF ActivateWrite, At, Begun
<1>3. TypeOK
  BY DEF FactorInv
<1>4. hurt' = IF o.stale THEN hurt \cup {"secret"} ELSE hurt
  BY <1>2 DEF Overwrite
<1> HIDE DEF o
<1>5. o.secret \in 0..MaxSecrets /\ NoSecret \in 0..MaxSecrets
  BY <1>1 DEF Op, NoSecret
<1>6. sec' \in SecurityRow /\ sec'.enabled /\ sec'.secret = o.secret
  BY <1>2, <1>5 DEF SecurityRow
<1>7. ~o.stale => o.secret \in proved
  BY <1>1, <1>2 DEF OkNow, Ok, Backed
<1>8. SecretIsProven' /\ CountriesAsAsked' /\ CodesInv'
  <2>1. SecretIsProven'
    BY <1>2, <1>4, <1>6, <1>7 DEF FactorInv, SecretIsProven
  <2>2. CountriesAsAsked'
    BY <1>2, <1>4 DEF FactorInv, CountriesAsAsked
  <2>3. CodesInv'
    BY <1>2, <1>4, <1>6
    DEF FactorInv, CodesInv, Cleared, OneLot, NoSecretOff, Present
  <2> QED
    BY <2>1, <2>2, <2>3
<1>9. lots \in Nat /\ lots <= lots
  BY <1>3 DEF TypeOK
<1>10. /\ Begun("codes_delete") \in Op
       /\ Ok(Begun("codes_delete"), sec', codes', lots', devices', proved', countries')
  BY BegunOk
<1> QED
  BY <1>2, <1>3, <1>6, <1>8, <1>9, <1>10, Writes DEF TypeOK

(* Codes are replaced in two writes, *)
LEMMA NewCodesStep ==
    ASSUME FactorInv, NEW p \in Procs,
           CodesDelete(p) \/ CodesCreate(p) \/ DisableCodes(p)
    PROVE  FactorInv'
<1> DEFINE o == op[p]
           n == [o EXCEPT !.pc = "codes_create"]
<1>1. o \in Op /\ OkNow(o)
  BY Known
<1>2. TypeOK /\ SecretIsProven /\ CountriesAsAsked /\ CodesInv
  BY DEF FactorInv
<1>3. /\ o.pc \in CodePC
      /\ UNCHANGED <<sec, countries, devices, challenges, secrets, proved, asked>>
      /\ Overwrite(p, n, CodePC, "codes") \/ Overwrite(p, Idle, CodePC, "codes")
  BY DEF CodesDelete, CodesCreate, DisableCodes, At, CodePC
<1>4. n \in Op
  BY <1>1 DEF Op, PC, CodePC
<1>5. /\ n.pc = "codes_create" /\ n.dev = o.dev /\ n.country = o.country
      /\ n.first = o.first /\ n.proven = o.proven /\ n.guarded = o.guarded
      /\ n.dead = o.dead /\ n.stale = o.stale
  BY <1>1 DEF Op
<1>6. /\ codes' \in [Codes -> {"none", "unused", "used"}]
      /\ lots' \in 0..MaxLots /\ lots <= lots'
      /\ \A x \in Codes :
            codes'[x] = "unused" => codes[x] = "unused" \/ x[1] > lots
  <2>1. CASE CodesDelete(p) \/ DisableCodes(p)
    BY <1>2, <2>1 DEF CodesDelete, DisableCodes, TypeOK
  <2>2. CASE CodesCreate(p)
    <3>1. /\ lots' = lots + 1 /\ lots < MaxLots /\ lots \in Nat
          /\ codes' = [x \in Codes |-> IF x[1] = lots + 1 THEN "unused"
                                       ELSE codes[x]]
      BY <1>2, <2>2 DEF CodesCreate, TypeOK
    <3> QED
      BY <1>2, <3>1 DEF TypeOK
  <2> QED
    BY <2>1, <2>2
<1>7. SecretIsProven' /\ CountriesAsAsked' /\ NoSecretOff'
  BY <1>2, <1>3
  DEF SecretIsProven, CountriesAsAsked, CodesInv, NoSecretOff, Overwrite
<1>8. /\ "codes" \notin hurt' => "codes" \notin hurt /\ ~o.stale
      /\ op \in [Procs -> Op]
  BY <1>2, <1>3 DEF Overwrite, TypeOK
<1>9. OneLot' /\ Cleared'
  <2>1. ASSUME NEW q \in Procs, q # p
        PROVE  /\ op'[q].pc = op[q].pc
               /\ op[q].pc \in CodePC => op'[q].stale
    BY <1>3, <1>8, <2>1 DEF Overwrite, Op
  <2>2. ASSUME "codes" \notin hurt', ~sec.enabled, o.pc # "disable_codes"
        PROVE  \E q \in Procs : op'[q].pc = "disable_codes"
    <3>1. o.pc \in {"codes_delete", "codes_create"}
      BY <1>3, <2>2 DEF CodePC
    <3>2. PICK q \in Procs : op[q].pc = "disable_codes"
      BY <1>2, <1>8, <2>2, <3>1 DEF CodesInv, Cleared
    <3> QED
      BY <2>1, <2>2, <3>2
  <2>3. CASE CodesDelete(p)
    <3>1. o.pc # "disable_codes" /\ codes' = [x \in Codes |-> "none"]
      BY <2>3 DEF CodesDelete, At
    <3> QED
      BY <1>3, <2>2, <3>1 DEF OneLot, Cleared, Present
  <2>4. CASE CodesCreate(p)
    <3>1. /\ o.pc = "codes_create"
          /\ codes' = [x \in Codes |-> IF x[1] = lots + 1 THEN "unused"
                                       ELSE codes[x]]
      BY <2>4 DEF CodesCreate, At
    <3>2. "codes" \notin hurt' => \A x \in Codes : codes[x] = "none"
      BY <1>1, <1>8, <3>1 DEF OkNow, Ok, Emptied
    <3>3. OneLot'
      BY <3>1, <3>2 DEF OneLot, Present
    <3>4. o.pc # "disable_codes"
      BY <3>1
    <3> QED
      BY <1>3, <2>2, <3>3, <3>4 DEF Cleared
  <2>5. CASE DisableCodes(p)
    <3>1. codes' = [x \in Codes |-> "none"] /\ op'[p] = Idle
      BY <1>8, <2>5 DEF DisableCodes, Overwrite
    <3>2. \A q \in Procs : op'[q].pc \in {"codes_delete", "codes_create"}
                             => op'[q].stale
      BY <2>1, <3>1 DEF Idle, CodePC
    <3> QED
      BY <3>1, <3>2 DEF OneLot, Cleared, Present
  <2> QED
    BY <2>3, <2>4, <2>5
<1>10. CodesDelete(p) => codes' = [x \in Codes |-> "none"]
  BY DEF CodesDelete
<1>11. CodesDelete(p) \/ Overwrite(p, Idle, CodePC, "codes")
  BY DEF CodesCreate, DisableCodes
<1> HIDE DEF o, n
<1>12. CodesDelete(p) => Ok(n, sec', codes', lots', devices', proved', countries')
  BY <1>1, <1>3, <1>5, <1>10
  DEF OkNow, Ok, Shaped, Sealed, Buried, Backed, Emptied, Listed, Answering,
      CodePC
<1>13. CodesDelete(p) => Overwrite(p, n, CodePC, "codes")
  BY DEF CodesDelete, n, o
<1>14. CodesInv'
  BY <1>7, <1>9 DEF CodesInv
<1> QED
  BY <1>2, <1>3, <1>4, <1>6, <1>7, <1>11, <1>12, <1>13, <1>14,
     IdleType, IdleOk, Writes DEF TypeOK

(* The factor is switched off: no request relies on it any more. *)
LEMMA DisableWriteStep ==
    ASSUME FactorInv, NEW p \in Procs, DisableWrite(p) PROVE FactorInv'
<1>1. /\ sec' = [enabled |-> FALSE, secret |-> NoSecret, pending |-> NoSecret]
      /\ op' = [q \in Procs |->
                  IF q = p THEN Begun("disable_codes")
                  ELSE [op[q] EXCEPT !.guarded = FALSE,
                                     !.stale = @ \/ op[q].pc \in SecretPC]]
      /\ hurt' \in {hurt, hurt \cup {"secret"}}
      /\ UNCHANGED <<countries, codes, devices, challenges, secrets, lots,
                     proved, asked>>
  BY DEF DisableWrite, Begun
<1>2. TypeOK
  BY DEF FactorInv
<1>3. Grows
  <2>1. UNCHANGED <<codes, devices, lots, proved>>
    BY DEF DisableWrite
  <2>2. lots \in Nat
    BY <1>2 DEF TypeOK
  <2> QED
    BY <2>1, <2>2 DEF Grows
<1>4. ASSUME NEW q \in Procs
      PROVE  op'[q] \in Op /\ Ok(op'[q], sec', codes', lots', devices', proved', countries')
  <2>1. CASE q = p
    BY <1>1, <2>1, BegunOk
  <2>2. CASE q # p
    <3> DEFINE o == op[q]
               m == [o EXCEPT !.guarded = FALSE]
               n == [m EXCEPT !.stale = o.stale \/ o.pc \in SecretPC]
    <3>1. o \in Op /\ OkNow(o)
      BY Known
    <3>2. op'[q] = [o EXCEPT !.guarded = FALSE,
                             !.stale = @ \/ o.pc \in SecretPC]
      BY <1>1, <2>2
    <3> HIDE DEF o
    <3>3. n \in Op
      <4>1. m \in Op
        BY <3>1 DEF Op
      <4>2. (o.stale \/ o.pc \in SecretPC) \in BOOLEAN
        BY DEF SecretPC
      <4> HIDE DEF m
      <4> QED
        BY <4>1, <4>2 DEF Op
    <3>4. op'[q] = n
      BY <3>1, <3>2 DEF Op
    <3>5. Bears(o, n)
      BY <1>1, <3>1 DEF Bears, Op, SecretPC
    <3> HIDE DEF n
    <3> QED
      BY <1>3, <3>1, <3>3, <3>4, <3>5, Endures
  <2> QED
    BY <2>1, <2>2
<1>5. TypeOK'
  <2>1. op' \in [Procs -> Op]
    BY <1>1, <1>4
  <2>2. sec' \in SecurityRow
    <3>1. NoSecret \in 0..MaxSecrets
      BY DEF NoSecret
    <3>2. sec' = [enabled |-> FALSE, secret |-> NoSecret, pending |-> NoSecret]
      BY <1>1
    <3> QED
      BY <3>1, <3>2 DEF SecurityRow
  <2> QED
    BY <1>1, <1>2, <2>1, <2>2 DEF TypeOK
<1>6. SecretIsProven' /\ CountriesAsAsked'
  <2>1. /\ ~sec'.enabled /\ UNCHANGED <<countries, asked>>
        /\ "countries" \in hurt <=> "countries" \in hurt'
    BY <1>1
  <2> QED
    BY <2>1 DEF FactorInv, SecretIsProven, CountriesAsAsked
<1>7. CodesInv'
  <2>1. /\ sec'.secret = NoSecret /\ UNCHANGED codes
        /\ "codes" \in hurt <=> "codes" \in hurt'
    BY <1>1
  <2>2. op'[p].pc = "disable_codes"
    BY <1>1 DEF Begun, Idle
  <2> QED
    BY <2>1, <2>2
    DEF FactorInv, CodesInv, Cleared, OneLot, NoSecretOff, Present
<1> QED
  BY <1>4, <1>5, <1>6, <1>7 DEF FactorInv, OkNow

(* A login begins, *)
LEMMA LoginBeginStep ==
    ASSUME FactorInv, NEW p \in Procs, LoginBegin(p) PROVE FactorInv'
<1>1. PICK from \in Origins :
          Goto(p, [Begun("login_profile") EXCEPT
                      !.dev = from[1], !.country = from[2],
                      !.guarded = sec.enabled])
  BY DEF LoginBegin
<1> DEFINE n == [Begun("login_profile") EXCEPT
                    !.dev = from[1], !.country = from[2],
                    !.guarded = sec.enabled]
<1>2. UNCHANGED challenges /\ Still /\ op[p].pc \notin CodePC
  BY DEF LoginBegin, At, history, Still, CodePC
<1>3. /\ from[1] \in Devices /\ from[2] \in Countries \cup {NoCountry}
      /\ sec.enabled \in BOOLEAN /\ challenges' \subseteq Challenge
  BY <1>2, OriginsArePairs DEF FactorInv, TypeOK, SecurityRow
<1>4. n \in Op
  BY <1>3, IdleType DEF Begun, Op, PC
<1>5. /\ n.pc = "login_profile" /\ n.dev = from[1] /\ n.guarded = sec.enabled
      /\ ~n.proven /\ ~n.first /\ ~n.dead
  BY DEF Begun, Idle
<1>6. Goto(p, n)
  BY <1>1
<1> HIDE DEF n
<1>7. OkNow(n)
  BY <1>3, <1>5 DEF OkNow, Ok, Shaped, Sealed, Buried, Backed, Emptied, Listed, Answering
<1> QED
  BY <1>2, <1>3, <1>4, <1>5, <1>6, <1>7, Moves DEF CodePC

(* reads whether the factor is on, *)
LEMMA LoginProfileStep ==
    ASSUME FactorInv, NEW p \in Procs, LoginProfile(p) PROVE FactorInv'
<1> DEFINE o == op[p]
           first == countries = EmptyList /\ o.country # NoCountry
           odd   == /\ countries # EmptyList /\ o.country # NoCountry
                    /\ ~Trusted(o.country)
           n == [o EXCEPT !.pc = "login_device", !.two = sec.enabled,
                          !.first = first, !.odd = odd]
<1>1. o \in Op /\ OkNow(o)
  BY Known
<1>2. /\ o.pc = "login_profile" /\ Goto(p, n)
      /\ UNCHANGED challenges /\ Still /\ op[p].pc \notin CodePC
  BY DEF LoginProfile, At, history, Still, CodePC
<1>3. challenges' \subseteq Challenge /\ sec.enabled \in BOOLEAN
  BY <1>2 DEF FactorInv, TypeOK, SecurityRow
<1>4. first \in BOOLEAN /\ odd \in BOOLEAN
  OBVIOUS
<1>5. first => o.country \in Countries /\ countries[o.country] = 0
  BY <1>1 DEF Op, EmptyList
<1> HIDE DEF o, first, odd
<1>6. n \in Op
  BY <1>1, <1>3, <1>4 DEF Op, PC, CountryPC
<1>7. /\ n.pc = "login_device" /\ n.two = sec.enabled /\ n.first = first
      /\ n.dev = o.dev /\ n.country = o.country
      /\ n.proven = o.proven /\ n.guarded = o.guarded /\ n.dead = o.dead
  BY <1>1 DEF Op
<1> HIDE DEF n
<1>8. OkNow(n)
  BY <1>1, <1>2, <1>5, <1>7
  DEF OkNow, Ok, Shaped, Sealed, Buried, Backed, Emptied, Listed, Answering
<1> QED
  BY <1>2, <1>3, <1>6, <1>7, <1>8, Moves DEF CodePC

(* and is challenged, or goes on. *)
LEMMA LoginDeviceStep ==
    ASSUME FactorInv, NEW p \in Procs, LoginDevice(p) PROVE FactorInv'
<1> DEFINE o == op[p]
           n == [o EXCEPT !.pc = "session", !.two = FALSE]
<1>1. o \in Op /\ OkNow(o)
  BY Known
<1>2. /\ o.pc = "login_device" /\ Still /\ op[p].pc \notin CodePC
      /\ \/ challenges' = challenges \cup {NewChallenge(o)} /\ Goto(p, Idle)
         \/ UNCHANGED challenges /\ ~Challenged(o) /\ Goto(p, n)
  BY DEF LoginDevice, At, Done, history, Still, CodePC
<1>3. challenges \subseteq Challenge
  BY DEF FactorInv, TypeOK
<1> HIDE DEF o
<1>4. CASE challenges' = challenges \cup {NewChallenge(o)} /\ Goto(p, Idle)
  <2>1. NewChallenge(o) \in Challenge
    BY <1>1, <1>2 DEF NewChallenge, Challenge, Op, OkNow, Ok, Shaped
  <2>2. challenges' \subseteq Challenge
    BY <1>3, <1>4, <2>1
  <2>3. OkNow(Idle) /\ Idle.pc \notin CodePC
    BY IdleOk DEF OkNow, Idle, CodePC
  <2> QED
    BY <1>2, <1>4, <2>2, <2>3, IdleType, Moves
<1>5. CASE UNCHANGED challenges /\ ~Challenged(o) /\ Goto(p, n)
  <2>1. n \in Op
    BY <1>1 DEF Op, PC, CountryPC
  <2>2. /\ n.pc = "session" /\ n.first = o.first /\ n.dev = o.dev
        /\ n.country = o.country /\ n.proven = o.proven
        /\ n.guarded = o.guarded /\ n.dead = o.dead
        /\ n.stale = o.stale
    BY <1>1 DEF Op
  <2> HIDE DEF n
  <2>3. o.dev \in devices /\ ~o.two
    BY <1>5 DEF Challenged
  <2>4. OkNow(n)
    BY <1>1, <1>2, <2>2, <2>3
    DEF OkNow, Ok, Shaped, Sealed, Buried, Backed, Emptied, Listed, Answering
  <2> QED
    BY <1>2, <1>3, <1>5, <2>1, <2>2, <2>4, Moves DEF CodePC
<1> QED
  BY <1>2, <1>4, <1>5

(* An answer to a challenge begins with a code, *)
LEMMA AnswerBeginStep ==
    ASSUME FactorInv, NEW p \in Procs, AnswerBegin(p) PROVE FactorInv'
<1>1. PICK ch \in challenges, c \in {x \in Codes : x[1] <= lots} \cup {NoCode} :
          Goto(p, [Begun("answer_factor") EXCEPT
                      !.dev = ch.dev, !.country = ch.country, !.code = c,
                      !.dead = c # NoCode /\ codes[c] # "unused"])
  BY DEF AnswerBegin
<1> DEFINE dead == c # NoCode /\ codes[c] # "unused"
           n == [Begun("answer_factor") EXCEPT
                    !.dev = ch.dev, !.country = ch.country, !.code = c,
                    !.dead = dead]
<1>2. UNCHANGED challenges /\ Still /\ op[p].pc \notin CodePC
  BY DEF AnswerBegin, At, history, Still, CodePC
<1>3. /\ ch.dev \in Devices /\ ch.country \in Countries \cup {NoCountry}
      /\ challenges' \subseteq Challenge
  BY <1>2 DEF FactorInv, TypeOK, Challenge
<1>4. dead \in BOOLEAN
  OBVIOUS
<1>5. dead => c \in Codes /\ c[1] <= lots /\ codes[c] # "unused"
  OBVIOUS
<1>6. Goto(p, n)
  BY <1>1
<1> HIDE DEF dead
<1>7. n \in Op
  BY <1>3, <1>4, IdleType DEF Begun, Op, PC
<1>8. /\ n.pc = "answer_factor" /\ n.dev = ch.dev /\ n.code = c
      /\ n.dead = dead /\ ~n.guarded /\ ~n.proven /\ ~n.first
  BY DEF Begun, Idle
<1> HIDE DEF n
<1>9. OkNow(n)
  BY <1>3, <1>5, <1>8 DEF OkNow, Ok, Shaped, Sealed, Buried, Backed, Emptied, Listed, Answering
<1> QED
  BY <1>2, <1>3, <1>6, <1>7, <1>8, <1>9, Moves DEF CodePC

(* which is looked at, *)
LEMMA AnswerFactorStep ==
    ASSUME FactorInv, NEW p \in Procs, AnswerTotp(p) \/ AnswerCode(p)
    PROVE  FactorInv'
<1> DEFINE o == op[p]
           n == [o EXCEPT !.pc = "answer_device", !.proven = TRUE]
           m == [o EXCEPT !.pc = "code_mark"]
<1>1. o \in Op /\ OkNow(o)
  BY Known
<1>2. /\ o.pc = "answer_factor"
      /\ UNCHANGED challenges /\ Still /\ op[p].pc \notin CodePC
      /\ \/ o.code = NoCode /\ Goto(p, n)
         \/ o.code # NoCode /\ Found(o.code) /\ Goto(p, m)
         \/ Goto(p, Idle)
  BY DEF AnswerTotp, AnswerCode, At, Move, Done, history, Still, CodePC
<1>3. challenges' \subseteq Challenge
  BY <1>2 DEF FactorInv, TypeOK
<1> HIDE DEF o
<1>4. CASE o.code = NoCode /\ Goto(p, n)
  <2>1. n \in Op
    BY <1>1 DEF Op, PC
  <2>2. /\ n.pc = "answer_device" /\ n.proven /\ n.dev = o.dev
        /\ n.country = o.country /\ n.first = o.first
        /\ n.guarded = o.guarded /\ n.dead = o.dead
    BY <1>1 DEF Op
  <2>3. ~o.dead
    <3>1. NoCode \notin Codes
      BY DEF NoCode, Codes
    <3> QED
      BY <1>1, <1>4, <3>1 DEF OkNow, Ok, Buried
  <2> HIDE DEF n
  <2>4. OkNow(n)
    BY <1>1, <1>2, <1>4, <2>2, <2>3
    DEF OkNow, Ok, Shaped, Sealed, Buried, Backed, Emptied, Listed, Answering
  <2> QED
    BY <1>2, <1>3, <1>4, <2>1, <2>2, <2>4, Moves DEF CodePC
<1>5. CASE o.code # NoCode /\ Found(o.code) /\ Goto(p, m)
  <2>1. m \in Op
    BY <1>1 DEF Op, PC
  <2>2. /\ m.pc = "code_mark" /\ m.proven = o.proven /\ m.dev = o.dev
        /\ m.country = o.country /\ m.first = o.first /\ m.code = o.code
        /\ m.guarded = o.guarded /\ m.dead = o.dead
    BY <1>1 DEF Op
  <2>3. o.code \in Codes
    BY <1>1, <1>5 DEF Op
  <2> HIDE DEF m
  <2>4. OkNow(m)
    BY <1>1, <1>2, <1>5, <2>2, <2>3
    DEF OkNow, Ok, Shaped, Sealed, Buried, Backed, Emptied, Listed, Answering, Found
  <2> QED
    BY <1>2, <1>3, <1>5, <2>1, <2>2, <2>4, Moves DEF CodePC
<1>6. OkNow(Idle) /\ Idle.pc \notin CodePC
  BY IdleOk DEF OkNow, Idle, CodePC
<1> QED
  BY <1>2, <1>3, <1>4, <1>5, <1>6, IdleType, Moves

(* and marked. *)
LEMMA MarkUsedStep ==
    ASSUME FactorInv, NEW p \in Procs, MarkUsed(p) PROVE FactorInv'
<1> DEFINE o == op[p]
           n == [o EXCEPT !.pc = "answer_device", !.proven = TRUE,
                          !.code = NoCode]
<1>1. o \in Op /\ OkNow(o)
  BY Known
<1>2. /\ o.pc = "code_mark" /\ op[p].pc \notin CodePC
      /\ UNCHANGED <<sec, countries, devices, challenges, secrets, lots,
                     proved, asked, hurt>>
      /\ \/ /\ codes[o.code] # "none" /\ Goto(p, n)
            /\ codes' = [codes EXCEPT ![o.code] = "used"]
         \/ codes' = codes /\ Goto(p, Idle)
  BY DEF MarkUsed, At, Done, Present, history, CodePC
<1>3. TypeOK
  BY DEF FactorInv
<1> HIDE DEF o
<1>4. o.code \in Codes
  BY <1>1, <1>2 DEF OkNow, Ok, Shaped
<1>5. /\ codes' \in [Codes -> {"none", "unused", "used"}]
      /\ \A x \in Codes : codes'[x] = "unused" => codes[x] = "unused"
      /\ \A x \in Codes : codes[x] = "none" <=> codes'[x] = "none"
  BY <1>2, <1>3, <1>4 DEF TypeOK
<1>6. Grows
  BY <1>2, <1>3, <1>5 DEF Grows, TypeOK
<1>7. n \in Op
  BY <1>1 DEF Op, PC
<1>8. /\ n.pc = "answer_device" /\ n.proven /\ n.dev = o.dev
      /\ n.country = o.country /\ n.first = o.first
      /\ n.guarded = o.guarded /\ n.dead = o.dead
  BY <1>1 DEF Op
<1> HIDE DEF n
<1>9. Ok(n, sec', codes', lots', devices', proved', countries')
  BY <1>1, <1>2, <1>8
  DEF OkNow, Ok, Shaped, Sealed, Buried, Backed, Emptied, Listed, Answering
<1>10. n.pc \notin CodePC /\ Idle.pc \notin CodePC
  BY <1>8 DEF Idle, CodePC
<1>11. devices' \subseteq Devices /\ proved' \subseteq Secrets
  BY <1>2, <1>3 DEF TypeOK
<1> QED
  BY <1>2, <1>5, <1>6, <1>7, <1>9, <1>10, <1>11, IdleType, IdleOk, Changes

(* The device and the country are looked at, *)
LEMMA AnswerPlaceStep ==
    ASSUME FactorInv, NEW p \in Procs, AnswerDevice(p) \/ AnswerCountry(p)
    PROVE  FactorInv'
<1> DEFINE o == op[p]
           fresh == o.dev \notin devices
           n == [o EXCEPT !.pc = "answer_country", !.fresh = fresh]
           m == [o EXCEPT !.pc = "country_push"]
           k == [o EXCEPT !.pc = "session", !.country = NoCountry]
<1>1. o \in Op /\ OkNow(o)
  BY Known
<1>2. /\ o.pc \in {"answer_device", "answer_country"}
      /\ UNCHANGED challenges /\ Still /\ op[p].pc \notin CodePC
      /\ \/ Goto(p, n)
         \/ NeedsTrust(o.country) /\ Goto(p, m)
         \/ Goto(p, k)
  BY DEF AnswerDevice, AnswerCountry, At, Move, history, Still, CodePC
<1>3. challenges' \subseteq Challenge
  BY <1>2 DEF FactorInv, TypeOK
<1>4. fresh \in BOOLEAN
  OBVIOUS
<1> HIDE DEF o, fresh
<1>5. n \in Op /\ m \in Op /\ k \in Op
  BY <1>1, <1>4 DEF Op, PC, CountryPC
<1>6. /\ n.pc = "answer_country" /\ n.proven = o.proven /\ n.dev = o.dev
      /\ n.country = o.country /\ n.first = o.first
      /\ n.guarded = o.guarded /\ n.dead = o.dead
  BY <1>1 DEF Op
<1>7. /\ m.pc = "country_push" /\ m.proven = o.proven /\ m.dev = o.dev
      /\ m.country = o.country /\ m.first = o.first
      /\ m.guarded = o.guarded /\ m.dead = o.dead
  BY <1>1 DEF Op
<1>8. /\ k.pc = "session" /\ k.proven = o.proven /\ k.dev = o.dev
      /\ k.first = o.first /\ k.guarded = o.guarded /\ k.dead = o.dead
  BY <1>1 DEF Op
<1>9. /\ o.proven /\ o.dev \in Devices /\ ~o.first /\ ~o.dead
      /\ o.guarded => sec.enabled
      /\ o.country \in Countries \cup {NoCountry}
  BY <1>1, <1>2 DEF OkNow, Ok, Shaped, Sealed, Buried, Answering, Op
<1> HIDE DEF n, m, k
<1>10. OkNow(n)
  BY <1>6, <1>9 DEF OkNow, Ok, Shaped, Sealed, Buried, Backed, Emptied, Listed, Answering
<1>11. NeedsTrust(o.country) => OkNow(m)
  <2>1. NeedsTrust(o.country)
          => o.country \in Countries /\ countries[o.country] = 0
    <3>1. \A x \in Countries : countries[x] \in Nat
      BY DEF FactorInv, TypeOK, List
    <3> QED
      BY <1>9, <3>1 DEF NeedsTrust, Trusted
  <2> QED
    BY <1>7, <1>9, <2>1 DEF OkNow, Ok, Shaped, Sealed, Buried, Backed, Emptied, Listed, Answering
<1>12. OkNow(k)
  BY <1>8, <1>9 DEF OkNow, Ok, Shaped, Sealed, Buried, Backed, Emptied, Listed, Answering
<1> QED
  BY <1>2, <1>3, <1>5, <1>6, <1>7, <1>8, <1>10, <1>11, <1>12, Moves DEF CodePC

(* and the session is opened. *)
LEMMA OpenSessionStep ==
    ASSUME FactorInv, NEW p \in Procs, OpenSession(p) PROVE FactorInv'
<1> DEFINE o == op[p]
           n == [o EXCEPT !.pc = "country_push"]
<1>1. o \in Op /\ OkNow(o)
  BY Known
<1>2. /\ o.pc = "session" /\ op[p].pc \notin CodePC
      /\ UNCHANGED <<sec, countries, codes, challenges, secrets, lots, proved,
                     asked, hurt>>
      /\ devices' \in {devices, devices \cup {o.dev}}
      /\ Goto(p, Idle) \/ (o.first /\ Goto(p, n))
  BY DEF OpenSession, At, Done, Move, CodePC
<1>3. TypeOK
  BY DEF FactorInv
<1> HIDE DEF o
<1>4. o.dev \in Devices
  BY <1>1, <1>2 DEF OkNow, Ok, Shaped
<1>5. Grows
  BY <1>2, <1>3 DEF Grows, TypeOK
<1>6. n \in Op
  BY <1>1 DEF Op, PC, CountryPC
<1>7. /\ n.pc = "country_push" /\ n.proven = o.proven /\ n.dev = o.dev
      /\ n.country = o.country /\ n.first = o.first
      /\ n.guarded = o.guarded /\ n.dead = o.dead /\ n.stale = o.stale
  BY <1>1 DEF Op
<1> HIDE DEF n
<1>8. o.first => Ok(n, sec', codes', lots', devices', proved', countries')
  BY <1>1, <1>2, <1>7
  DEF OkNow, Ok, Shaped, Sealed, Buried, Backed, Emptied, Listed, Answering
<1>9. n.pc \notin CodePC /\ Idle.pc \notin CodePC
  BY <1>7 DEF Idle, CodePC
<1>10. /\ devices' \subseteq Devices /\ proved' \subseteq Secrets
       /\ codes' \in [Codes -> {"none", "unused", "used"}]
       /\ \A x \in Codes : codes[x] = "none" <=> codes'[x] = "none"
  BY <1>2, <1>3, <1>4 DEF TypeOK
<1> QED
  BY <1>2, <1>5, <1>6, <1>8, <1>9, <1>10, IdleType, IdleOk, Changes

(* The list of countries: read, *)
LEMMA CountryReadStep ==
    ASSUME FactorInv, NEW p \in Procs,
           AddCountryRead(p) \/ RemoveCountryRead(p)
    PROVE  FactorInv'
<1>1. PICK c \in Countries :
          \/ ~Trusted(c) /\ Goto(p, [Begun("country_push") EXCEPT !.country = c])
          \/ Goto(p, [Begun("country_again") EXCEPT !.country = c])
  BY DEF AddCountryRead, RemoveCountryRead
<1> DEFINE n == [Begun("country_push") EXCEPT !.country = c]
           m == [Begun("country_again") EXCEPT !.country = c]
<1>2. UNCHANGED challenges /\ Still /\ op[p].pc \notin CodePC
  BY DEF AddCountryRead, RemoveCountryRead, At, history, Still, CodePC
<1>3. challenges' \subseteq Challenge
  BY <1>2 DEF FactorInv, TypeOK
<1>4. n \in Op /\ m \in Op
  BY IdleType DEF Begun, Op, PC, CountryPC
<1>5. /\ n.pc = "country_push" /\ n.country = c
      /\ ~n.proven /\ ~n.first /\ ~n.guarded /\ ~n.dead
      /\ m.pc = "country_again" /\ m.country = c
      /\ ~m.proven /\ ~m.first /\ ~m.guarded /\ ~m.dead
  BY DEF Begun, Idle
<1>6. ~Trusted(c) => countries[c] = 0
  <2>1. \A x \in Countries : countries[x] \in Nat
    BY DEF FactorInv, TypeOK, List
  <2> QED
    BY <2>1 DEF Trusted
<1>7. (~Trusted(c) /\ Goto(p, n)) \/ Goto(p, m)
  BY <1>1
<1> HIDE DEF n, m
<1>8. (~Trusted(c) => OkNow(n)) /\ OkNow(m)
  BY <1>5, <1>6
  DEF OkNow, Ok, Shaped, Sealed, Buried, Backed, Emptied, Listed, Answering
<1> QED
  BY <1>2, <1>3, <1>4, <1>5, <1>7, <1>8, Moves DEF CodePC

(* read again, *)
LEMMA RemoveAgainStep ==
    ASSUME FactorInv, NEW p \in Procs, RemoveCountryAgain(p) PROVE FactorInv'
<1> DEFINE o == op[p]
           n == [o EXCEPT !.pc = "country_write", !.list = countries]
<1>1. o \in Op /\ OkNow(o)
  BY Known
<1>2. /\ o.pc = "country_again" /\ Goto(p, n)
      /\ UNCHANGED challenges /\ Still /\ op[p].pc \notin CodePC
  BY DEF RemoveCountryAgain, At, history, Still, CodePC
<1>3. challenges' \subseteq Challenge /\ countries \in List
  BY <1>2 DEF FactorInv, TypeOK
<1> HIDE DEF o
<1>4. n \in Op
  BY <1>1, <1>3 DEF Op, PC, CountryPC
<1>5. /\ n.pc = "country_write" /\ n.list = countries
      /\ n.proven = o.proven /\ n.dev = o.dev
      /\ n.country = o.country /\ n.first = o.first
      /\ n.guarded = o.guarded /\ n.dead = o.dead
  BY <1>1 DEF Op
<1> HIDE DEF n
<1>6. OkNow(n)
  BY <1>1, <1>2, <1>5
  DEF OkNow, Ok, Shaped, Sealed, Buried, Backed, Emptied, Listed, Answering
<1> QED
  BY <1>2, <1>3, <1>4, <1>5, <1>6, Moves DEF CodePC

(* and written: a country is added, *)
LEMMA CountryPushStep ==
    ASSUME FactorInv, NEW p \in Procs, CountryPush(p) PROVE FactorInv'
<1> DEFINE o == op[p]
           k == [o EXCEPT !.pc = "session", !.stale = FALSE,
                          !.country = NoCountry]
           n == IF ~o.proven THEN Idle ELSE k
<1>1. o \in Op /\ OkNow(o)
  BY Known
<1>2. TypeOK /\ SecretIsProven /\ CountriesAsAsked
  BY DEF FactorInv
<1>3. /\ o.pc = "country_push" /\ op[p].pc \notin CodePC
      /\ countries' = [countries EXCEPT ![o.country] = @ + 1]
      /\ asked' = asked \cup {o.country}
      /\ Overwrite(p, n, CountryPC, "countries")
      /\ UNCHANGED <<sec, codes, devices, challenges, secrets, lots, proved>>
  BY DEF CountryPush, At, CodePC
<1>4. hurt' = IF o.stale THEN hurt \cup {"countries"} ELSE hurt
  BY <1>3 DEF Overwrite
<1> HIDE DEF o
<1>5. o.country \in Countries
  BY <1>1, <1>3 DEF OkNow, Ok, Shaped
<1>6. countries' \in List /\ asked' \subseteq Countries
  BY <1>2, <1>3, <1>5 DEF TypeOK, List
<1>7. ~o.stale => countries[o.country] = 0
  BY <1>1, <1>3 DEF OkNow, Ok, Listed
<1>8. CountriesAsAsked'
  <2> SUFFICES ASSUME "countries" \notin hurt', NEW c \in Countries
               PROVE  countries'[c] = IF c \in asked' THEN 1 ELSE 0
    BY DEF CountriesAsAsked
  <2>1. /\ ~o.stale /\ "countries" \notin hurt
        /\ countries[c] = IF c \in asked THEN 1 ELSE 0
    BY <1>2, <1>4 DEF CountriesAsAsked
  <2>2. countries'[c] = IF c = o.country THEN countries[c] + 1 ELSE countries[c]
    BY <1>2, <1>3, <1>5 DEF TypeOK, List
  <2> QED
    BY <1>3, <1>7, <2>1, <2>2
<1>9. SecretIsProven'
  BY <1>2, <1>3, <1>4 DEF SecretIsProven
<1>10. k \in Op
  BY <1>1 DEF Op, PC, CountryPC
<1>11. /\ k.pc = "session" /\ ~k.stale /\ k.proven = o.proven
       /\ k.dev = o.dev /\ k.first = o.first /\ k.guarded = o.guarded
       /\ k.dead = o.dead
  BY <1>1 DEF Op
<1> HIDE DEF k
<1>12. o.proven => Ok(k, sec', codes', lots', devices', proved', countries')
  BY <1>1, <1>3, <1>11
  DEF OkNow, Ok, Shaped, Sealed, Buried, Backed, Emptied, Listed, Answering
<1>13. /\ n \in Op /\ n.pc \notin CodePC
       /\ Ok(n, sec', codes', lots', devices', proved', countries')
  BY <1>10, <1>11, <1>12, IdleType, IdleOk DEF Idle, CodePC
<1> HIDE DEF n
<1>14. CodesInv'
  BY <1>3, <1>13, CodesStay
<1>15. /\ Overwrite(p, n, CountryPC, "countries")
       /\ UNCHANGED <<sec, codes, devices, challenges, secrets, lots, proved>>
  BY <1>3
<1>16. /\ lots \in Nat /\ lots' \in 0..MaxLots /\ secrets' \in 0..MaxSecrets
       /\ sec' \in SecurityRow
       /\ codes' \in [Codes -> {"none", "unused", "used"}]
  BY <1>2, <1>15 DEF TypeOK
<1> QED
  BY <1>6, <1>8, <1>9, <1>13, <1>14, <1>15, <1>16, Writes

(* or removed. *)
LEMMA RemoveWriteStep ==
    ASSUME FactorInv, NEW p \in Procs, RemoveCountryWrite(p) PROVE FactorInv'
<1> DEFINE o == op[p]
<1>1. o \in Op /\ OkNow(o)
  BY Known
<1>2. TypeOK /\ SecretIsProven /\ CountriesAsAsked
  BY DEF FactorInv
<1>3. /\ o.pc = "country_write" /\ op[p].pc \notin CodePC
      /\ countries' = [o.list EXCEPT ![o.country] = 0]
      /\ asked' = asked \ {o.country}
      /\ Overwrite(p, Idle, CountryPC, "countries")
      /\ UNCHANGED <<sec, codes, devices, challenges, secrets, lots, proved>>
  BY DEF RemoveCountryWrite, Without, At, CodePC
<1>4. hurt' = IF o.stale THEN hurt \cup {"countries"} ELSE hurt
  BY <1>3 DEF Overwrite
<1> HIDE DEF o
<1>5. o.list \in List /\ o.country \in Countries
  BY <1>1, <1>3 DEF Op, OkNow, Ok, Shaped
<1>6. countries' \in List /\ asked' \subseteq Countries
  BY <1>2, <1>3, <1>5 DEF TypeOK, List
<1>7. ~o.stale => o.list = countries
  BY <1>1, <1>3 DEF OkNow, Ok, Listed
<1>8. CountriesAsAsked'
  BY <1>2, <1>3, <1>4, <1>5, <1>7 DEF CountriesAsAsked, List
<1>9. SecretIsProven'
  BY <1>2, <1>3, <1>4 DEF SecretIsProven
<1>10. Idle.pc \notin CodePC
  BY DEF Idle, CodePC
<1>11. CodesInv'
  BY <1>3, <1>10, IdleType, CodesStay
<1>12. lots \in Nat
  BY <1>2 DEF TypeOK
<1> QED
  BY <1>2, <1>3, <1>6, <1>8, <1>9, <1>11, <1>12, IdleType, IdleOk, Writes
  DEF TypeOK

(* A request that fails leaves the codes half done, or nothing at all. *)
LEMMA FailStep == ASSUME FactorInv, NEW p \in Procs, Fail(p) PROVE FactorInv'
<1>1. /\ TypeOK /\ SecretIsProven /\ CountriesAsAsked /\ CodesInv
      /\ op' = [op EXCEPT ![p] = Idle]
      /\ hurt' = IF op[p].pc \in CodePC THEN hurt \cup {"codes"} ELSE hurt
      /\ UNCHANGED <<sec, countries, codes, devices, challenges, secrets, lots,
                     proved, asked>>
  BY DEF FactorInv, Fail, Done, Goto
<1>2. \A q \in Procs : OkNow(op'[q])
  BY <1>1, IdleOk DEF FactorInv, TypeOK, OkNow
<1>3. \A q \in Procs : OkNow(op[q])'
  BY <1>1, <1>2 DEF OkNow
<1>4. TypeOK'
  BY <1>1, IdleType DEF TypeOK
<1>5. SecretIsProven' /\ CountriesAsAsked'
  BY <1>1 DEF SecretIsProven, CountriesAsAsked
<1>6. OneLot' /\ NoSecretOff'
  BY <1>1 DEF CodesInv, OneLot, NoSecretOff, Present
<1>7. \A q \in Procs : op'[q] = IF q = p THEN Idle ELSE op[q]
  BY <1>1 DEF TypeOK
<1>8. Cleared'
  BY <1>1, <1>7 DEF CodesInv, Cleared, CodePC, Idle
<1> QED
  BY <1>3, <1>4, <1>5, <1>6, <1>8 DEF FactorInv, CodesInv

-----------------------------------------------------------------------------
(* The theorems.                                                           *)

(* The invariant holds at first, *)
LEMMA InitInv == Init => FactorInv
<1> SUFFICES ASSUME Init PROVE FactorInv
  OBVIOUS
<1>1. PICK home \in Origins :
          /\ devices \in {{}, {home[1]}}
          /\ countries = [c \in Countries |-> IF c = home[2] THEN 1 ELSE 0]
          /\ asked = {home[2]} \ {NoCountry}
  BY DEF Init
<1>2. home[1] \in Devices /\ home[2] \in Countries \cup {NoCountry}
  BY OriginsArePairs
<1>3. /\ sec = [enabled |-> FALSE, secret |-> NoSecret, pending |-> NoSecret]
      /\ codes = [x \in Codes |-> "none"]
      /\ challenges = {} /\ secrets = 0 /\ lots = 0
      /\ op = [p \in Procs |-> Idle] /\ proved = {} /\ hurt = {}
  BY DEF Init
<1>4. TypeOK
  <2>1. NoSecret \in 0..MaxSecrets /\ 0 \in 0..MaxSecrets /\ 0 \in 0..MaxLots
    BY DEF NoSecret
  <2>2. sec \in SecurityRow
    BY <1>3, <2>1 DEF SecurityRow
  <2>3. countries \in List /\ devices \subseteq Devices /\ asked \subseteq Countries
    BY <1>1, <1>2 DEF List
  <2> QED
    BY <1>3, <2>1, <2>2, <2>3, IdleType DEF TypeOK
<1>5. CountriesAsAsked
  BY <1>1, <1>2, NullsDiffer DEF CountriesAsAsked
<1>6. SecretIsProven /\ CodesInv
  BY <1>3
  DEF SecretIsProven, CodesInv, Cleared, OneLot, NoSecretOff, Present, Idle
<1>7. \A p \in Procs : OkNow(op[p])
  BY <1>3, IdleOk DEF OkNow
<1> QED
  BY <1>4, <1>5, <1>6, <1>7 DEF FactorInv

(* after each step, *)
LEMMA StepInv == FactorInv /\ [Next]_vars => FactorInv'
<1> SUFFICES ASSUME FactorInv, [Next]_vars PROVE FactorInv'
  OBVIOUS
<1>1. ASSUME UNCHANGED <<sec, countries, codes, devices, secrets, lots, op,
                         proved, asked, hurt>>,
             challenges' \subseteq challenges
      PROVE  FactorInv'
  <2>1. TypeOK'
    BY <1>1 DEF FactorInv, TypeOK
  <2>2. SecretIsProven' /\ CountriesAsAsked'
    BY <1>1 DEF FactorInv, SecretIsProven, CountriesAsAsked
  <2>3. CodesInv'
    BY <1>1 DEF FactorInv, CodesInv, Cleared, OneLot, NoSecretOff, Present
  <2>4. \A p \in Procs : OkNow(op[p])'
    BY <1>1 DEF FactorInv, OkNow
  <2> QED
    BY <2>1, <2>2, <2>3, <2>4 DEF FactorInv
<1>2. CASE UNCHANGED vars
  BY <1>1, <1>2 DEF vars
<1>3. CASE ChallengeExpires
  BY <1>1, <1>3 DEF ChallengeExpires, history
<1>4. ASSUME NEW p \in Procs, Enrol(p) \/ Activate(p) \/ NewCodes(p) \/ Disable(p)
      PROVE  FactorInv'
  BY <1>4, PlainStep, TotpStep, EnableSaveStep, VerifyReadStep,
     ActivateReadStep, ActivateWriteStep, NewCodesStep, DisableWriteStep
  DEF Enrol, Activate, NewCodes, Disable
<1>5. ASSUME NEW p \in Procs, Login(p) \/ Answer(p) PROVE FactorInv'
  BY <1>5, LoginBeginStep, LoginProfileStep, LoginDeviceStep, OpenSessionStep,
     AnswerBeginStep, AnswerFactorStep, MarkUsedStep, AnswerPlaceStep
  DEF Login, Answer
<1>6. ASSUME NEW p \in Procs, Country(p) \/ Fail(p) PROVE FactorInv'
  BY <1>6, CountryReadStep, CountryPushStep, RemoveAgainStep, RemoveWriteStep,
     FailStep DEF Country
<1> QED
  BY <1>2, <1>3, <1>4, <1>5, <1>6 DEF Next

(* and so in every state of every behaviour. *)
LEMMA Inductive == Spec => []FactorInv
BY InitInv, StepInv, PTL DEF Spec

(* Every variable keeps its type. *)
THEOREM TypeCorrect == Spec => []TypeOK
<1>1. FactorInv => TypeOK
  BY DEF FactorInv
<1> QED
  BY <1>1, Inductive, PTL

(* Unless an overlap wrote its columns, an account whose second factor is  *)
(* on has the secret of which Verify2faUseCase has seen a code.            *)
THEOREM SecretProven == Spec => []SecretIsProven
<1>1. FactorInv => SecretIsProven
  BY DEF FactorInv
<1> QED
  BY <1>1, Inductive, PTL

(* Unless two requests replaced the recovery codes at once or one stopped  *)
(* between its two statements, they are of one lot, and go with the factor. *)
THEOREM CodesGoWithFactor == Spec => []CodesFollowFactor
<1>1. FactorInv => CodesFollowFactor
  BY DEF FactorInv, CodesInv, Cleared, OneLot, Present, CodesFollowFactor
<1> QED
  BY <1>1, Inductive, PTL

(* No login gets past the second factor that was on ever since it began,   *)
(* and none from a device that is not known, without a factor.             *)
THEOREM NotBypassed == Spec => []NoBypass
<1>1. FactorInv => NoBypass
  BY DEF FactorInv, OkNow, Ok, Sealed, NoBypass, At
<1> QED
  BY <1>1, Inductive, PTL

(* A recovery code that is used or replaced opens no later session.        *)
THEOREM DeadCodesStayDead == Spec => []NoDeadCode
<1>1. FactorInv => NoDeadCode
  BY DEF FactorInv, OkNow, Ok, Buried, NoDeadCode, At
<1> QED
  BY <1>1, Inductive, PTL

(* Unless a stale list was written, the trusted countries are the ones     *)
(* that were asked for.                                                    *)
THEOREM CountriesKept == Spec => []CountriesAsAsked
<1>1. FactorInv => CountriesAsAsked
  BY DEF FactorInv
<1> QED
  BY <1>1, Inductive, PTL
=============================================================================
