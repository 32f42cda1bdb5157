---------------------------- MODULE DevicesProofs ----------------------------
(***************************************************************************)
(* Who is let past the portal, for any devices, users, groups, threads and *)
(* bounds.                                                                 *)
(*                                                                         *)
(* The routes name a row by its id, so what they do to a device depends on *)
(* whom a page or a form holds that id for (Names): unless the id was      *)
(* given to another MAC meanwhile (reissued), it is still the same device. *)
(* The limiter's bound holds because a thread that may still record a      *)
(* failure counts as one already (Budget).                                 *)
(***************************************************************************)
EXTENDS Devices, TLAPS, FiniteSetTheorems

Trusted(r) == r.is_authenticated \/ r.bypass_login \/ r.ignored

\* The ids that are held name whom they are held for.
Names ==
    /\ \A n \in Id \ reissued : Exists(n) /\ page[n] # None => rows[n].mac = page[n]
    /\ \A n \in Id \ reissued, h \in Handler :
          Exists(n) /\ form[h].id = n => rows[n].mac = form[h].mac
    /\ \A n \in Id \ reissued : Exists(n) /\ vouching = n => rows[n].mac \in vouched

\* The threads that serve a form of m.
Busy(m) == {h \in Handler : pc[h] # "idle" /\ form[h].mac = m}

Budget == \A m \in Mac : attempts[m] + Cardinality(Busy(m)) < MaxAttempts + Cardinality(Handler)

\* A thread at work has a MAC; a finished form has no id.
Serving == \A h \in Handler : IF pc[h] = "idle" THEN form[h].id = 0 ELSE form[h].mac \in Mac

IInv == TypeOK /\ Serving /\ Names /\ AccessIsVouched /\ AssignedIsAuthenticated /\ Budget

-----------------------------------------------------------------------------
(* Rows.                                                                   *)

\* No row comes, goes or changes its MAC.
Retained ==
    /\ rows' \in [Id -> Row \union {None}]
    /\ \A n \in Id : /\ rows[n] = None <=> rows'[n] = None
                     /\ rows[n] # None => rows'[n].mac = rows[n].mac

\* Whoever is let in by this step is vouched for, and whoever is assigned is authenticated.
Warranted ==
    /\ \A n \in Id \ reissued : rows[n] # None /\ Trusted(rows'[n]) =>
          Trusted(rows[n]) \/ rows[n].mac \in vouched'
    /\ \A n \in Id : rows[n] # None /\ Assigned(rows'[n]) =>
          rows'[n].is_authenticated \/ n = vouching'
    /\ vouching' \in Id \ reissued /\ rows[vouching'] # None => rows[vouching'].mac \in vouched'

\* What the assignment box may say is what a row may hold.
LEMMA Assignments ==
    ASSUME TypeOK, NEW a \in Assignment
    PROVE  /\ a.user \in User \union {None} /\ a.group \in Group \union {None} /\ a.ignored \in BOOLEAN
           /\ a.user = None \/ a.group = None
<1>1. users \subseteq User /\ groups \subseteq Group
  BY DEF TypeOK
<1>2. CASE \E b \in BOOLEAN : a = [user |-> None, group |-> None, ignored |-> b]
  BY <1>2
<1>3. CASE \E u \in users : a = [user |-> u, group |-> None, ignored |-> FALSE]
  BY <1>1, <1>3
<1>4. CASE \E g \in groups : a = [user |-> None, group |-> g, ignored |-> FALSE]
  BY <1>1, <1>4
<1> QED  BY <1>2, <1>3, <1>4 DEF Assignment

LEMMA UpdateDeviceEdits ==
    ASSUME IInv, NEW n \in Shown, UpdateDevice(n) PROVE Retained /\ Warranted
<1>1. PICK a \in Assignment, bypass \in BOOLEAN :
          /\ Change({n}, LAMBDA r : [r EXCEPT !.user = a.user, !.group = a.group,
                        !.bypass_login = bypass,
                        !.ignored = a.ignored \/ (bypass /\ ~Assigned(a) /\ ~r.bypass_login)])
          /\ vouching' = IF Assigned(a) THEN n ELSE 0
          /\ IF bypass \/ a.ignored \/ Assigned(a) THEN Vouch({n}) ELSE UNCHANGED vouched
  BY DEF UpdateDevice
<1>2. \A k \in Id : rows[k] \in Row \union {None}
  BY DEF IInv, TypeOK
<1>3. /\ a.user \in User \union {None} /\ a.group \in Group \union {None} /\ a.ignored \in BOOLEAN
      /\ a.user = None \/ a.group = None
  BY Assignments DEF IInv
<1>4. Retained
  BY <1>1, <1>2, <1>3, RowAssumption DEF Retained, Change, Exists, Row
<1>5. vouching = 0 /\ 0 \notin Id /\ n \in Id /\ page[n] # None
  BY BoundAssumption DEF UpdateDevice, Shown, Id
<1>6. ASSUME NEW k \in Id, rows[k] # None, k # n PROVE rows'[k] = rows[k]
  BY <1>1, <1>6 DEF Change, Exists
<1>7. ASSUME rows[n] # None
      PROVE  /\ rows'[n].is_authenticated = rows[n].is_authenticated
             /\ rows'[n].bypass_login = bypass
             /\ rows'[n].user = a.user /\ rows'[n].group = a.group
             /\ rows'[n].ignored => a.ignored \/ bypass
  BY <1>1, <1>2, <1>5, <1>7 DEF Change, Exists, Row
<1>8. n \notin reissued /\ rows[n] # None => rows[n].mac = page[n]
  BY <1>5 DEF IInv, Names, Exists
<1>9. bypass \/ a.ignored \/ Assigned(a) => page[n] \in vouched'
  BY <1>1 DEF Vouch
<1>10. Warranted
  <2>1. ASSUME NEW k \in Id \ reissued, rows[k] # None, Trusted(rows'[k])
        PROVE  Trusted(rows[k]) \/ rows[k].mac \in vouched'
    BY <1>6, <1>7, <1>8, <1>9, <2>1 DEF Trusted
  <2>2. ASSUME NEW k \in Id, rows[k] # None, Assigned(rows'[k])
        PROVE  rows'[k].is_authenticated \/ k = vouching'
    BY <1>1, <1>5, <1>6, <1>7, <2>2 DEF Assigned, IInv, AssignedIsAuthenticated, Exists
  <2>3. vouching' \in Id \ reissued /\ rows[vouching'] # None => rows[vouching'].mac \in vouched'
    BY <1>1, <1>5, <1>8, <1>9
  <2> QED  BY <2>1, <2>2, <2>3 DEF Warranted
<1> QED  BY <1>4, <1>10

\* A row that a page shows and that is known is the page's, unless it was reissued.
LEMMA ShownIs ==
    ASSUME IInv, NEW n \in Shown, n \notin reissued, rows[n] # None
    PROVE  n \in Id /\ rows[n].mac = page[n]
  BY DEF IInv, Names, Shown, Exists

\* What UpdateDevice leaves to its second statement.
LEMMA Vouching ==
    ASSUME IInv
    PROVE  /\ vouching \in Id \ reissued /\ rows[vouching] # None => rows[vouching].mac \in vouched
           /\ 0 \notin Id
  BY DEF IInv, Names, Exists, Id

LEMMA BypassEdits ==
    ASSUME IInv, NEW n \in Shown, BypassLogin(n) PROVE Retained /\ Warranted
<1>1. /\ Change({n}, LAMBDA r : [r EXCEPT !.bypass_login = TRUE, !.ignored = @ \/ ~Assigned(r)])
      /\ vouched' = vouched \union {page[n]} /\ vouching' = vouching
  BY DEF BypassLogin, Vouch
<1>2. \A k \in Id : rows[k] \in Row \union {None}
  BY DEF IInv, TypeOK
<1>3. Retained
  BY <1>1, <1>2, RowAssumption DEF Retained, Change, Exists, Row
<1>4. ASSUME NEW k \in Id, rows[k] # None
      PROVE  /\ k # n => rows'[k] = rows[k]
             /\ rows'[k].user = rows[k].user /\ rows'[k].group = rows[k].group
             /\ rows'[k].is_authenticated = rows[k].is_authenticated
  BY <1>1, <1>2, <1>4 DEF Change, Exists, Row
<1>5. Warranted
  BY <1>1, <1>4, ShownIs, Vouching DEF Warranted, Trusted, Assigned, IInv, AssignedIsAuthenticated, Exists
<1> QED  BY <1>3, <1>5

LEMMA BatchEdits ==
    ASSUME IInv, NEW S \in SUBSET Shown, NEW g \in Group, BatchAssign(S, g) PROVE Retained /\ Warranted
<1>1. /\ Change(S, LAMBDA r : [r EXCEPT !.user = None, !.group = g, !.ignored = FALSE,
                                        !.is_authenticated = TRUE])
      /\ vouched' = vouched \union {page[n] : n \in S} /\ vouching' = vouching
  BY DEF BatchAssign, Vouch
<1>2. \A k \in Id : rows[k] \in Row \union {None}
  BY DEF IInv, TypeOK
<1>3. Retained
  BY <1>1, <1>2, RowAssumption DEF Retained, Change, Exists, Row
<1>4. ASSUME NEW k \in Id, rows[k] # None
      PROVE  /\ k \notin S => rows'[k] = rows[k]
             /\ k \in S => rows'[k].is_authenticated
  BY <1>1, <1>2, <1>4 DEF Change, Exists, Row
<1>5. ASSUME NEW k \in S, k \notin reissued, rows[k] # None PROVE rows[k].mac \in vouched'
  BY <1>1, <1>5, ShownIs
<1>6. Warranted
  BY <1>1, <1>4, <1>5, Vouching DEF Warranted, Trusted, Assigned, IInv, AssignedIsAuthenticated, Exists
<1> QED  BY <1>3, <1>6

LEMMA IgnoreEdits ==
    ASSUME IInv, NEW S \in SUBSET Shown, BulkIgnore(S) PROVE Retained /\ Warranted
<1>1. \A k \in Id : rows[k] \in Row \union {None}
  BY DEF IInv, TypeOK
<1>2. CASE /\ Change(S, LAMBDA r : [r EXCEPT !.ignored = TRUE, !.user = None, !.group = None])
           /\ Vouch(S)
  <2>1. Retained
    BY <1>1, <1>2, RowAssumption DEF Retained, Change, Exists, Row
  <2>2. ASSUME NEW k \in Id, rows[k] # None
        PROVE  /\ k \notin S => rows'[k] = rows[k]
               /\ k \in S => rows'[k].user = None /\ rows'[k].group = None
    BY <1>1, <1>2, <2>2 DEF Change, Exists, Row
  <2>3. ASSUME NEW k \in S, k \notin reissued, rows[k] # None PROVE rows[k].mac \in vouched'
    BY <1>2, <2>3, ShownIs DEF Vouch
  <2>4. vouching' = vouching /\ vouched \subseteq vouched'
    BY <1>2 DEF BulkIgnore, Vouch
  <2>5. Warranted
    BY <2>2, <2>3, <2>4, Vouching DEF Warranted, Trusted, Assigned, IInv, AssignedIsAuthenticated, Exists
  <2> QED  BY <2>1, <2>5
<1>3. CASE /\ Change(S, LAMBDA r : [r EXCEPT !.ignored = FALSE])
           /\ UNCHANGED vouched
  <2>1. Retained
    BY <1>1, <1>3, RowAssumption DEF Retained, Change, Exists, Row
  <2>2. ASSUME NEW k \in Id, rows[k] # None
        PROVE  /\ rows'[k].user = rows[k].user /\ rows'[k].group = rows[k].group
               /\ rows'[k].is_authenticated = rows[k].is_authenticated
               /\ rows'[k].bypass_login = rows[k].bypass_login
               /\ rows'[k].ignored => rows[k].ignored
    BY <1>1, <1>3, <2>2 DEF Change, Exists, Row
  <2>3. Warranted
    BY <1>3, <2>2, Vouching DEF Warranted, Trusted, Assigned, IInv, AssignedIsAuthenticated, Exists, BulkIgnore
  <2> QED  BY <2>1, <2>3
<1> QED  BY <1>2, <1>3 DEF BulkIgnore

\* A deleted user or group takes assignments away and lets nobody in.
LEMMA DeletionEdits ==
    ASSUME IInv, (\E u \in User : DeleteUser(u)) \/ (\E g \in Group : DeleteGroup(g))
    PROVE  Retained /\ Warranted
<1>1. \A k \in Id : rows[k] \in Row \union {None}
  BY DEF IInv, TypeOK
<1>2. vouched' = vouched /\ vouching' = vouching
  BY DEF DeleteUser, DeleteGroup
<1>3. \/ \E u \in User : Change(Id, LAMBDA r : [r EXCEPT !.user = IF @ = u THEN None ELSE @])
      \/ \E g \in Group : Change(Id, LAMBDA r : [r EXCEPT !.group = IF @ = g THEN None ELSE @])
  BY DEF DeleteUser, DeleteGroup
<1>4. Retained
  BY <1>1, <1>3, RowAssumption DEF Retained, Change, Exists, Row
<1>5. ASSUME NEW k \in Id, rows[k] # None
      PROVE  /\ Assigned(rows'[k]) => Assigned(rows[k])
             /\ rows'[k].is_authenticated = rows[k].is_authenticated
             /\ rows'[k].bypass_login = rows[k].bypass_login
             /\ rows'[k].ignored = rows[k].ignored
  BY <1>1, <1>3, <1>5 DEF Change, Exists, Row, Assigned
<1>6. Warranted
  BY <1>2, <1>5, Vouching DEF Warranted, Trusted, IInv, AssignedIsAuthenticated, Exists
<1> QED  BY <1>4, <1>6

LEMMA VouchEdits == ASSUME IInv, UpdateDeviceVouch PROVE Retained /\ Warranted
<1>1. \A k \in Id : rows[k] \in Row \union {None}
  BY DEF IInv, TypeOK
<1>2. /\ Change({vouching}, LAMBDA r : [r EXCEPT !.is_authenticated = TRUE])
      /\ vouching' = 0 /\ vouched' = vouched
  BY DEF UpdateDeviceVouch
<1>3. Retained
  BY <1>1, <1>2, RowAssumption DEF Retained, Change, Exists, Row
<1>4. ASSUME NEW k \in Id, rows[k] # None
      PROVE  /\ k # vouching => rows'[k] = rows[k]
             /\ k = vouching => rows'[k].is_authenticated
  BY <1>1, <1>2, <1>4 DEF Change, Exists, Row
<1>5. Warranted
  BY <1>2, <1>4, Vouching DEF Warranted, Trusted, IInv, AssignedIsAuthenticated, Exists
<1> QED  BY <1>3, <1>5

LEMMA RestartEdits == ASSUME IInv, Restart PROVE Retained /\ Warranted
<1>1. \A k \in Id : rows[k] \in Row \union {None}
  BY DEF IInv, TypeOK
<1>2. /\ Change(Id, LAMBDA r : [r EXCEPT !.is_authenticated = @ \/ Assigned(r)])
      /\ vouching' = 0 /\ vouched' = vouched
  BY DEF Restart
<1>3. Retained
  BY <1>1, <1>2, RowAssumption DEF Retained, Change, Exists, Row, Assigned
<1>4. ASSUME NEW k \in Id, rows[k] # None
      PROVE  /\ rows'[k].user = rows[k].user /\ rows'[k].group = rows[k].group
             /\ rows'[k].is_authenticated <=> rows[k].is_authenticated \/ Assigned(rows[k])
             /\ rows'[k].bypass_login = rows[k].bypass_login
             /\ rows'[k].ignored = rows[k].ignored
  BY <1>1, <1>2, <1>4 DEF Change, Exists, Row
<1>5. Warranted
  BY <1>2, <1>4, Vouching DEF Warranted, Trusted, Assigned, IInv, AssignedIsAuthenticated, Exists
<1> QED  BY <1>3, <1>5

\* A form holds its id for its own MAC.
LEMMA FormIs ==
    ASSUME IInv, NEW h \in Handler, form[h].id \in Id \ reissued, rows[form[h].id] # None
    PROVE  rows[form[h].id].mac = form[h].mac
  BY DEF IInv, Names, Exists

LEMMA LoginEdits == ASSUME IInv, NEW h \in Handler, LoginUpdate(h) PROVE Retained /\ Warranted
<1> DEFINE n == form[h].id
<1>1. \A k \in Id : rows[k] \in Row \union {None}
  BY DEF IInv, TypeOK
<1>2. vouching' = vouching
  BY DEF LoginUpdate
<1>3. CASE UNCHANGED <<rows, vouched>>
  BY <1>2, <1>3, Vouching DEF Retained, Warranted, IInv, TypeOK, AssignedIsAuthenticated, Exists
<1>4. CASE /\ ~(Exists(n) /\ \/ rows[n].group # None
                             \/ rows[n].user = None /\ form[h].user \notin users)
           /\ Change({n}, LAMBDA r : [r EXCEPT !.is_authenticated = TRUE,
                                               !.user = IF @ = None THEN form[h].user ELSE @])
           /\ vouched' = vouched \union {form[h].mac}
  <2>1. form[h].user \in User \union {None}
    BY DEF IInv, TypeOK, Form
  <2>2. Retained
    BY <1>1, <1>4, <2>1, RowAssumption DEF Retained, Change, Exists, Row
  <2>3. ASSUME NEW k \in Id, rows[k] # None
        PROVE  /\ k # n => rows'[k] = rows[k]
               /\ k = n => rows'[k].is_authenticated
    BY <1>1, <1>4, <2>3 DEF Change, Exists, Row
  <2>4. Warranted
    BY <1>2, <1>4, <2>3, FormIs, Vouching DEF Warranted, Trusted, IInv, AssignedIsAuthenticated, Exists
  <2> QED  BY <2>2, <2>4
<1> QED  BY <1>3, <1>4 DEF LoginUpdate

LEMMA AdminEdits == ASSUME IInv, NEW h \in Handler, AdminAction(h) PROVE Retained /\ Warranted
<1> DEFINE n == form[h].id
<1>1. \A k \in Id : rows[k] \in Row \union {None}
  BY DEF IInv, TypeOK
<1>2. vouching' = vouching
  BY DEF AdminAction
<1>3. CASE UNCHANGED <<rows, vouched>>
  BY <1>2, <1>3, Vouching DEF Retained, Warranted, IInv, TypeOK, AssignedIsAuthenticated, Exists
<1>4. CASE vouched' = vouched \union {form[h].mac} /\ ~UNCHANGED <<rows, vouched>>
  <2>1. CASE Change({n}, LAMBDA r : [r EXCEPT !.bypass_login = TRUE])
    <3>1. Retained
      BY <1>1, <2>1, RowAssumption DEF Retained, Change, Exists, Row
    <3>2. ASSUME NEW k \in Id, rows[k] # None
          PROVE  /\ k # n => rows'[k] = rows[k]
                 /\ rows'[k].user = rows[k].user /\ rows'[k].group = rows[k].group
                 /\ rows'[k].is_authenticated = rows[k].is_authenticated
      BY <1>1, <2>1, <3>2 DEF Change, Exists, Row
    <3>3. Warranted
      BY <1>2, <1>4, <3>2, FormIs, Vouching DEF Warranted, Trusted, Assigned, IInv, AssignedIsAuthenticated, Exists
    <3> QED  BY <3>1, <3>3
  <2>2. CASE Change({n}, LAMBDA r : [r EXCEPT !.ignored = TRUE, !.user = None, !.group = None])
    <3>1. Retained
      BY <1>1, <2>2, RowAssumption DEF Retained, Change, Exists, Row
    <3>2. ASSUME NEW k \in Id, rows[k] # None
          PROVE  /\ k # n => rows'[k] = rows[k]
                 /\ k = n => rows'[k].user = None /\ rows'[k].group = None
      BY <1>1, <2>2, <3>2 DEF Change, Exists, Row
    <3>3. Warranted
      BY <1>2, <1>4, <3>2, FormIs, Vouching DEF Warranted, Trusted, Assigned, IInv, AssignedIsAuthenticated, Exists
    <3> QED  BY <3>1, <3>3
  <2>3. ASSUME NEW g \in groups,
               Change({n}, LAMBDA r : [r EXCEPT !.group = g, !.user = None, !.is_authenticated = TRUE])
        PROVE  Retained /\ Warranted
    <3>1. g \in Group
      BY DEF IInv, TypeOK
    <3>2. Retained
      BY <1>1, <2>3, <3>1, RowAssumption DEF Retained, Change, Exists, Row
    <3>3. ASSUME NEW k \in Id, rows[k] # None
          PROVE  /\ k # n => rows'[k] = rows[k]
                 /\ k = n => rows'[k].is_authenticated
      BY <1>1, <2>3, <3>3 DEF Change, Exists, Row
    <3>4. Warranted
      BY <1>2, <1>4, <3>3, FormIs, Vouching DEF Warranted, Trusted, Assigned, IInv, AssignedIsAuthenticated, Exists
    <3> QED  BY <3>2, <3>4
  <2> QED  BY <1>4, <2>1, <2>2, <2>3 DEF AdminAction
<1> QED  BY <1>3, <1>4 DEF AdminAction

-----------------------------------------------------------------------------
(* What the rows keep.                                                     *)

Access == AccessIsVouched /\ AssignedIsAuthenticated

\* Forms stay, or are done with.
FormsStay == \A h \in Handler : form'[h] = form[h] \/ form'[h] = NoForm

LEMMA EditKeeps ==
    ASSUME IInv, Retained, Warranted, vouched \subseteq vouched', reissued' = reissued, page' = page,
           FormsStay
    PROVE  Names' /\ Access'
<1>1. 0 \notin Id
  BY DEF Id
<1>2. \A n \in Id : Exists(n)' => Exists(n) /\ rows'[n].mac = rows[n].mac
  BY DEF Retained, Exists
<1>3. \A h \in Handler : form'[h].id \in Id => form'[h] = form[h]
  BY <1>1 DEF FormsStay, NoForm
<1>4. Names'
  BY <1>2, <1>3 DEF Names, IInv, Warranted, Exists
<1>5. Access'
  BY <1>2 DEF Access, AccessIsVouched, AssignedIsAuthenticated, IInv, Warranted, Exists, Trusted
<1> QED  BY <1>4, <1>5

LEMMA RemovalKeeps ==
    ASSUME IInv, \A n \in Id : rows'[n] = rows[n] \/ rows'[n] = None,
           UNCHANGED <<page, vouching, form, vouched, reissued>>
    PROVE  Names' /\ Access'
  BY DEF IInv, Names, Access, AccessIsVouched, AssignedIsAuthenticated, Exists

\* A new row has nothing that an id is held for, unless it is reissued.
LEMMA CreateKeeps ==
    ASSUME IInv, NEW n \in Id, NEW r \in Row, Create(n, r), UNCHANGED <<page, vouching>>,
           vouched \subseteq vouched', Trusted(r) => r.mac \in vouched',
           Assigned(r) => r.is_authenticated,
           \A h \in Handler : form'[h] = form[h] \/ (form'[h].id = n /\ form'[h].mac = r.mac)
    PROVE  Names' /\ Access' /\ rows' \in [Id -> Row \union {None}]
<1>1. rows \in [Id -> Row \union {None}] /\ rows' = [rows EXCEPT ![n] = r]
  BY DEF Create, IInv, TypeOK
<1>2. \A k \in Id : k # n => rows'[k] = rows[k]
  BY <1>1
<1>3. rows'[n] = r
  BY <1>1
<1>4. \A k \in Id : k # n /\ k \notin reissued' => k \notin reissued
  BY DEF Create
<1>5. n \notin reissued' => /\ page[n] \in {None, r.mac} /\ vouching # n
                            /\ \A h \in Handler : form[h].id = n => form[h].mac = r.mac
  BY DEF Create
<1>6. Names'
  <2>1. ASSUME NEW k \in Id \ reissued', Exists(k)', page'[k] # None PROVE rows'[k].mac = page'[k]
    BY <1>2, <1>3, <1>4, <1>5, <2>1 DEF IInv, Names, Exists
  <2>2. ASSUME NEW k \in Id \ reissued', NEW h \in Handler, Exists(k)', form'[h].id = k
        PROVE  rows'[k].mac = form'[h].mac
    BY <1>2, <1>3, <1>4, <1>5, <2>2 DEF IInv, Names, Exists
  <2>3. ASSUME NEW k \in Id \ reissued', Exists(k)', vouching' = k PROVE rows'[k].mac \in vouched'
    BY <1>2, <1>3, <1>4, <1>5, <2>3 DEF IInv, Names, Exists
  <2> QED  BY <2>1, <2>2, <2>3 DEF Names
<1>7. Access'
  BY <1>2, <1>3, <1>4 DEF IInv, Access, AccessIsVouched, AssignedIsAuthenticated, Exists, Trusted
<1> QED  BY <1>1, <1>6, <1>7

\* Steps that change no row.
LEMMA TableKeeps ==
    ASSUME IInv, UNCHANGED <<rows, vouching, vouched, reissued>>,
           \A n \in Id : page'[n] = page[n] \/ page'[n] = IF Exists(n) THEN rows[n].mac ELSE None,
           \A h \in Handler : \/ form'[h].id = 0
                              \/ form'[h].id = form[h].id /\ form'[h].mac = form[h].mac
                              \/ rows[form'[h].id].mac = form'[h].mac
    PROVE  Names' /\ Access'
<1>1. 0 \notin Id
  BY DEF Id
<1>2. Names'
  BY <1>1 DEF IInv, Names, Exists
<1>3. Access'
  BY DEF IInv, Access, AccessIsVouched, AssignedIsAuthenticated, Exists
<1> QED  BY <1>2, <1>3

\* The forms of the threads.
LEMMA Forms ==
    ASSUME IInv, NEW h \in Handler
    PROVE  /\ form \in [Handler -> Form] /\ form[h] \in Form
           /\ DOMAIN form[h] = {"mac", "id", "user"}
           /\ IF pc[h] = "idle" THEN form[h].id = 0 ELSE form[h].mac \in Mac
  BY DEF IInv, TypeOK, Form, Serving

LEMMA ResolveKeeps ==
    ASSUME IInv, NEW h \in Handler, Resolve(h)
    PROVE  Names' /\ Access' /\ rows' \in [Id -> Row \union {None}]
<1> DEFINE m == form[h].mac
<1>1. UNCHANGED <<page, vouching, vouched>> /\ m \in Mac
  BY Forms DEF Resolve
<1>2. CASE Finish(h) /\ UNCHANGED <<rows, reissued>>
  <2>1. \A g \in Handler : form'[g] = form[g] \/ form'[g] = NoForm
    BY <1>2, Forms DEF Finish
  <2> QED  BY <1>1, <1>2, <2>1, TableKeeps DEF NoForm, IInv, TypeOK
<1>3. ASSUME NEW n \in Id, Exists(n), rows[n].mac = m, UNCHANGED <<rows, reissued>>,
             form' = [form EXCEPT ![h].id = n]
      PROVE  Names' /\ Access' /\ rows' \in [Id -> Row \union {None}]
  <2>1. \A g \in Handler : g # h => form'[g] = form[g]
    BY <1>3, Forms
  <2>2. form'[h].id = n /\ form'[h].mac = m
    BY <1>3, Forms
  <2> QED  BY <1>1, <1>3, <2>1, <2>2, TableKeeps DEF IInv, TypeOK
<1>4. ASSUME NEW n \in Id, Create(n, Pending(m)), form' = [form EXCEPT ![h].id = n]
      PROVE  Names' /\ Access' /\ rows' \in [Id -> Row \union {None}]
  <2>1. Pending(m) \in Row /\ Pending(m).mac = m /\ ~Trusted(Pending(m)) /\ ~Assigned(Pending(m))
    BY <1>1 DEF Pending, Row, Trusted, Assigned
  <2>2. \A g \in Handler : form'[g] = form[g] \/ (form'[g].id = n /\ form'[g].mac = m)
    BY <1>4, Forms
  <2> QED  BY <1>1, <1>4, <2>1, <2>2, CreateKeeps
<1> QED  BY <1>2, <1>3, <1>4 DEF Resolve

LEMMA AccessKeeps ==
    ASSUME IInv, [Next]_vars PROVE Names' /\ Access' /\ rows' \in [Id -> Row \union {None}]
<1>0. rows \in [Id -> Row \union {None}]
  BY DEF IInv, TypeOK
<1>1. ASSUME NEW n \in Shown, UpdateDevice(n) \/ BypassLogin(n)
      PROVE  Names' /\ Access' /\ rows' \in [Id -> Row \union {None}]
  <2>1. vouched \subseteq vouched' /\ reissued' = reissued /\ page' = page /\ FormsStay
    BY <1>1 DEF UpdateDevice, BypassLogin, Vouch, portal, FormsStay
  <2> QED  BY <1>1, <2>1, UpdateDeviceEdits, BypassEdits, EditKeeps DEF Retained
<1>2. ASSUME NEW S \in SUBSET Shown, BulkIgnore(S) \/ \E g \in Group : BatchAssign(S, g)
      PROVE  Names' /\ Access' /\ rows' \in [Id -> Row \union {None}]
  <2>1. vouched \subseteq vouched' /\ reissued' = reissued /\ page' = page /\ FormsStay
    BY <1>2 DEF BulkIgnore, BatchAssign, Vouch, portal, FormsStay
  <2> QED  BY <1>2, <2>1, IgnoreEdits, BatchEdits, EditKeeps DEF Retained
<1>3. CASE (\E u \in User : DeleteUser(u)) \/ (\E g \in Group : DeleteGroup(g)) \/ UpdateDeviceVouch
  <2>1. vouched \subseteq vouched' /\ reissued' = reissued /\ page' = page /\ FormsStay
    BY <1>3 DEF DeleteUser, DeleteGroup, UpdateDeviceVouch, portal, FormsStay
  <2> QED  BY <1>3, <2>1, DeletionEdits, VouchEdits, EditKeeps DEF Retained
<1>4. CASE Restart
  <2>1. vouched \subseteq vouched' /\ reissued' = reissued /\ page' = page /\ FormsStay
    BY <1>4 DEF Restart, FormsStay
  <2> QED  BY <1>4, <2>1, RestartEdits, EditKeeps DEF Retained
<1>5. ASSUME NEW h \in Handler, LoginUpdate(h) \/ AdminAction(h)
      PROVE  Names' /\ Access' /\ rows' \in [Id -> Row \union {None}]
  <2>1. vouched \subseteq vouched' /\ reissued' = reissued /\ page' = page
    BY <1>5 DEF LoginUpdate, AdminAction
  <2>2. FormsStay
    BY <1>5, Forms DEF LoginUpdate, AdminAction, Finish, FormsStay
  <2> QED  BY <1>5, <2>1, <2>2, LoginEdits, AdminEdits, EditKeeps DEF Retained
<1>6. CASE (\E S \in SUBSET Shown : DeleteDevices(S)) \/ \E n \in Id : Purge(n)
  <2>1. \A n \in Id : rows'[n] = rows[n] \/ rows'[n] = None
    BY <1>0, <1>6 DEF DeleteDevices, Purge
  <2>2. rows' \in [Id -> Row \union {None}]
    BY <1>0, <1>6 DEF DeleteDevices, Purge
  <2>3. UNCHANGED <<page, vouching, form, vouched, reissued>>
    BY <1>6 DEF DeleteDevices, Purge, portal
  <2> QED  BY <2>1, <2>2, <2>3, RemovalKeeps
<1>7. ASSUME NEW m \in Mac, Discover(m)
      PROVE  Names' /\ Access' /\ rows' \in [Id -> Row \union {None}]
  <2>1. UNCHANGED <<page, vouching, form, vouched>>
    BY <1>7 DEF Discover, portal
  <2>2. Pending(m) \in Row /\ Pending(m).mac = m /\ ~Trusted(Pending(m)) /\ ~Assigned(Pending(m))
    BY DEF Pending, Row, Trusted, Assigned
  <2>3. CASE UNCHANGED <<rows, reissued>>
    BY <1>0, <2>1, <2>3, TableKeeps
  <2>4. ASSUME NEW n \in Id, Create(n, Pending(m)) PROVE Names' /\ Access' /\ rows' \in [Id -> Row \union {None}]
    BY <2>1, <2>2, <2>4, CreateKeeps
  <2> QED  BY <1>7, <2>3, <2>4 DEF Discover
<1>8. ASSUME NEW m \in Mac, AddDevice(m)
      PROVE  Names' /\ Access' /\ rows' \in [Id -> Row \union {None}]
  <2>1. UNCHANGED <<page, vouching, form>> /\ vouched' = vouched \union {m}
    BY <1>8 DEF AddDevice, portal
  <2>2. PICK a \in Assignment, n \in Id :
          Create(n, [mac |-> m, user |-> a.user, group |-> a.group, ignored |-> a.ignored,
                     is_authenticated |-> TRUE, bypass_login |-> FALSE])
    BY <1>8 DEF AddDevice
  <2>3. [mac |-> m, user |-> a.user, group |-> a.group, ignored |-> a.ignored,
         is_authenticated |-> TRUE, bypass_login |-> FALSE] \in Row
    BY Assignments DEF IInv, Row
  <2> QED  BY <2>1, <2>2, <2>3, CreateKeeps
<1>9. CASE LoadPage
  BY <1>0, <1>9, TableKeeps DEF LoadPage, portal
<1>10. ASSUME NEW h \in Handler, (\E m \in Mac : Post(h, m)) \/ Credentials(h) \/ Password(h)
       PROVE  Names' /\ Access' /\ rows' \in [Id -> Row \union {None}]
  <2>1. UNCHANGED <<rows, page, vouching, vouched, reissued>>
    BY <1>10 DEF Post, Credentials, Password
  <2>2. CASE \E m \in Mac : Post(h, m)
    <3>1. \A g \in Handler : \/ form'[g].id = 0
                             \/ form'[g].id = form[g].id /\ form'[g].mac = form[g].mac
      BY <2>2, Forms DEF Post
    <3> QED  BY <1>0, <2>1, <3>1, TableKeeps
  <2>3. CASE Credentials(h) \/ Password(h)
    <3>1. \A g \in Handler : \/ form'[g].id = 0
                             \/ form'[g].id = form[g].id /\ form'[g].mac = form[g].mac
      BY <2>3, Forms DEF Credentials, Password, Fail, Goto, Finish, NoForm
    <3> QED  BY <1>0, <2>1, <3>1, TableKeeps
  <2> QED  BY <1>10, <2>2, <2>3
<1>11. CASE (\E m \in Mac : Age(m)) \/ UNCHANGED vars
  BY <1>0, <1>11, TableKeeps DEF Age, vars, portal
<1> QED
  BY <1>1, <1>2, <1>3, <1>4, <1>5, <1>6, <1>7, <1>8, <1>9, <1>10, <1>11, ResolveKeeps DEF Next, Route

-----------------------------------------------------------------------------
(* Types.                                                                  *)

\* What a step may do to the threads and the limiter.
Threads ==
    /\ pc \in [Handler -> {"idle", "credentials", "find_for_login", "find_for_admin",
                           "password", "update", "act"}]
    /\ form \in [Handler -> Form]
    /\ attempts \in [Mac -> Nat]
    /\ Serving

Histories == vouched \subseteq Mac /\ reissued \subseteq Id

LEMMA CreateReissues ==
    ASSUME IInv, NEW n, NEW r, Create(n, r) PROVE reissued' \subseteq Id
  BY DEF Create, NextId, IInv, TypeOK

LEMMA ThreadsKeep == ASSUME IInv, [Next]_vars PROVE Threads'
<1>0. Threads
  BY DEF IInv, TypeOK, Threads
<1>1. CASE UNCHANGED <<pc, form, attempts>>
  BY <1>0, <1>1 DEF Threads, Serving
<1>2. CASE Restart
  <2>1. NoForm \in Form /\ NoForm.id = 0
    BY DEF NoForm, Form
  <2> QED  BY <1>2, <2>1 DEF Restart, Threads, Serving
<1>3. CASE \E m \in Mac : Age(m)
  BY <1>0, <1>3 DEF Age, Threads, Serving
<1>4. ASSUME NEW h \in Handler, NEW m \in Mac, Post(h, m) PROVE Threads'
  <2>1. form' = [form EXCEPT ![h].mac = m] /\ attempts' = attempts
        /\ \E where \in {"find_for_login", "credentials"} : pc' = [pc EXCEPT ![h] = where]
    BY <1>4 DEF Post
  <2>2. form' \in [Handler -> Form]
    BY <1>0, <2>1 DEF Threads, Form
  <2>3. form'[h].mac = m
    BY <2>1, Forms
  <2> QED  BY <1>0, <2>1, <2>2, <2>3 DEF Threads, Serving
<1>5. ASSUME NEW h \in Handler, Finish(h) PROVE Threads'
  <2>1. NoForm \in Form /\ NoForm.id = 0
    BY DEF NoForm, Form
  <2> QED  BY <1>0, <1>5, <2>1 DEF Finish, Goto, Threads, Serving
<1>6. ASSUME NEW h \in Handler, Fail(h), pc[h] # "idle" PROVE Threads'
  <2>1. NoForm \in Form /\ NoForm.id = 0 /\ form[h].mac \in Mac
    BY <1>6, Forms DEF NoForm, Form
  <2> QED  BY <1>0, <1>6, <2>1 DEF Fail, Threads, Serving
<1>7. ASSUME NEW h \in Handler, NEW where \in {"find_for_admin", "password", "act", "update"},
             Goto(h, where), pc[h] # "idle",
             \/ form' = form
             \/ \E n \in Id : form' = [form EXCEPT ![h].id = n]
             \/ \E u \in users : form' = [form EXCEPT ![h].user = u]
      PROVE  Threads'
  <2>1. form' \in [Handler -> Form]
    BY <1>0, <1>7 DEF Threads, Form, IInv, TypeOK
  <2>2. \A g \in Handler : form'[g].mac = form[g].mac /\ (g # h => form'[g] = form[g])
    BY <1>7, Forms
  <2> QED  BY <1>0, <1>7, <2>1, <2>2, Forms DEF Goto, Threads, Serving
<1>8. ASSUME NEW h \in Handler,
             Credentials(h) \/ Resolve(h) \/ Password(h) \/ LoginUpdate(h) \/ AdminAction(h)
      PROVE  Threads'
  BY <1>5, <1>6, <1>7, <1>8 DEF Credentials, Resolve, Password, LoginUpdate, AdminAction
<1> QED
  BY <1>1, <1>2, <1>3, <1>4, <1>8 DEF Next, Route, UpdateDevice, BypassLogin, DeleteDevices, BulkIgnore,
       BatchAssign, AddDevice, DeleteUser, DeleteGroup, UpdateDeviceVouch, LoadPage, Discover, Purge,
       portal, vars

LEMMA HistoriesKeep == ASSUME IInv, [Next]_vars PROVE Histories'
<1>0. Histories /\ \A n \in Shown : page[n] \in Mac
  BY DEF IInv, TypeOK, Histories, Shown
<1>1. CASE UNCHANGED <<vouched, reissued>>
  BY <1>0, <1>1 DEF Histories
<1>2. ASSUME NEW n \in Shown, UpdateDevice(n) \/ BypassLogin(n) PROVE Histories'
  BY <1>0, <1>2 DEF UpdateDevice, BypassLogin, Vouch, Histories
<1>3. ASSUME NEW S \in SUBSET Shown, BulkIgnore(S) \/ \E g \in Group : BatchAssign(S, g) PROVE Histories'
  BY <1>0, <1>3 DEF BulkIgnore, BatchAssign, Vouch, Histories
<1>4. ASSUME NEW m \in Mac, AddDevice(m) \/ Discover(m) PROVE Histories'
  <2>1. reissued' \subseteq Id
    BY <1>0, <1>4, CreateReissues DEF AddDevice, Discover, Histories
  <2>2. vouched' \subseteq Mac
    BY <1>0, <1>4 DEF AddDevice, Discover, Histories
  <2> QED  BY <2>1, <2>2 DEF Histories
<1>5. ASSUME NEW h \in Handler, Resolve(h) PROVE Histories'
  BY <1>0, <1>5, CreateReissues DEF Resolve, Histories
<1>6. ASSUME NEW h \in Handler, LoginUpdate(h) \/ AdminAction(h) PROVE Histories'
  <2>1. form[h].mac \in Mac
    BY <1>6, Forms DEF LoginUpdate, AdminAction
  <2> QED  BY <1>0, <1>6, <2>1 DEF LoginUpdate, AdminAction, Histories
<1> QED
  BY <1>1, <1>2, <1>3, <1>4, <1>5, <1>6 DEF Next, Route, DeleteDevices, DeleteUser, DeleteGroup,
       UpdateDeviceVouch, LoadPage, Restart, Purge, Age, Post, Credentials, Password, vars

\* The tables and the counters.
Tables ==
    /\ users \subseteq User /\ groups \subseteq Group
    /\ binding \in [Mac -> {"none", "linked", "orphan"}]
    /\ page \in [Id -> Mac \union {None}]
    /\ vouching \in Id \union {0}
    /\ edits \in 0..MaxEdits /\ forms \in 0..MaxForms

LEMMA TablesKeep == ASSUME IInv, [Next]_vars PROVE Tables'
<1>0. Tables /\ \A n \in Id : Exists(n) => rows[n].mac \in Mac
  BY DEF IInv, TypeOK, Tables, Row, Exists
<1> USE DEF Tables
<1>1. ASSUME Edit PROVE edits' \in 0..MaxEdits
  BY <1>0, <1>1, BoundAssumption DEF Edit
<1>2. CASE Route
  <2>1. ASSUME NEW n \in Shown, UpdateDevice(n) \/ BypassLogin(n) PROVE Tables'
    BY <1>0, <1>1, <2>1 DEF UpdateDevice, BypassLogin, Shown, tables, portal
  <2>2. ASSUME NEW S \in SUBSET Shown, DeleteDevices(S) \/ BulkIgnore(S) \/ \E g \in Group : BatchAssign(S, g)
        PROVE  Tables'
    BY <1>0, <1>1, <2>2 DEF DeleteDevices, BulkIgnore, BatchAssign, tables, portal
  <2>3. CASE \/ \E m \in Mac : AddDevice(m)
             \/ (\E u \in User : DeleteUser(u)) \/ \E g \in Group : DeleteGroup(g)
    BY <1>0, <1>1, <2>3 DEF AddDevice, DeleteUser, DeleteGroup, tables, portal
  <2> QED  BY <1>2, <2>1, <2>2, <2>3 DEF Route
<1>3. CASE UpdateDeviceVouch \/ Restart \/ UNCHANGED vars
  BY <1>0, <1>1, <1>3 DEF UpdateDeviceVouch, Restart, tables, portal, vars
<1>4. CASE LoadPage
  BY <1>0, <1>4 DEF LoadPage, tables, portal
<1>5. CASE (\E m \in Mac : Discover(m) \/ Age(m)) \/ \E n \in Id : Purge(n)
  BY <1>0, <1>1, <1>5 DEF Discover, Age, Purge, tables, portal
<1>6. ASSUME NEW h \in Handler, NEW m \in Mac, Post(h, m) PROVE Tables'
  BY <1>0, <1>6, BoundAssumption DEF Post, tables
<1>7. ASSUME NEW h \in Handler,
             Credentials(h) \/ Resolve(h) \/ Password(h) \/ LoginUpdate(h) \/ AdminAction(h)
      PROVE  Tables'
  BY <1>0, <1>7 DEF Credentials, Resolve, Password, LoginUpdate, AdminAction, Finish, Goto, Fail, tables
<1> QED  BY <1>2, <1>3, <1>4, <1>5, <1>6, <1>7 DEF Next

LEMMA TypesKeep == ASSUME IInv, [Next]_vars PROVE TypeOK' /\ Serving'
  BY AccessKeeps, ThreadsKeep, HistoriesKeep, TablesKeep DEF TypeOK, Threads, Histories, Tables

-----------------------------------------------------------------------------
(* The limiter.                                                            *)

LEMMA BusyIsFinite == ASSUME NEW m PROVE IsFiniteSet(Busy(m)) /\ Cardinality(Busy(m)) \in Nat
                                         /\ Cardinality(Busy(m)) <= Cardinality(Handler)
  BY HandlerAssumption, FS_Subset, FS_CardinalityType DEF Busy

LEMMA HandlersAreMany == Cardinality(Handler) \in Nat \ {0}
  BY HandlerAssumption, FS_CardinalityType, FS_EmptySet

\* Fewer failures and no more threads at work keep the budget.
LEMMA Spares ==
    ASSUME IInv, TypeOK', NEW m \in Mac, NEW B, B = Busy(m)', B \subseteq Busy(m), attempts'[m] <= attempts[m]
    PROVE  attempts'[m] + Cardinality(B) < MaxAttempts + Cardinality(Handler)
<1>1. Cardinality(B) \in Nat /\ Cardinality(B) <= Cardinality(Busy(m))
  BY BusyIsFinite, FS_Subset, FS_CardinalityType
<1>2. attempts[m] \in Nat /\ attempts'[m] \in Nat /\ MaxAttempts \in Nat
  BY BoundAssumption DEF IInv, TypeOK
<1> QED  BY <1>1, <1>2, BusyIsFinite, HandlersAreMany DEF IInv, Budget

LEMMA BudgetKeeps == ASSUME IInv, [Next]_vars PROVE Budget'
<1>0. TypeOK' /\ pc \in [Handler -> {"idle", "credentials", "find_for_login", "find_for_admin",
                                     "password", "update", "act"}] /\ attempts \in [Mac -> Nat]
  BY TypesKeep DEF IInv, TypeOK
<1> SUFFICES ASSUME NEW m \in Mac
             PROVE  attempts'[m] + Cardinality(Busy(m)') < MaxAttempts + Cardinality(Handler)
  BY DEF Budget
<1>1. CASE UNCHANGED <<pc, form, attempts>>
  BY <1>0, <1>1, Spares DEF Busy
<1>2. CASE Restart
  <2>1. Busy(m)' = {} /\ attempts'[m] = 0
    BY <1>2 DEF Restart, Busy
  <2> QED  BY <2>1, HandlersAreMany, FS_EmptySet, BoundAssumption
<1>3. CASE \E n \in Mac : Age(n)
  <2>1. Busy(m)' = Busy(m) /\ attempts'[m] <= attempts[m]
    BY <1>0, <1>3 DEF Age, Busy
  <2> QED  BY <1>0, <2>1, Spares
<1>4. ASSUME NEW h \in Handler, NEW n \in Mac, Post(h, n)
      PROVE  attempts'[m] + Cardinality(Busy(m)') < MaxAttempts + Cardinality(Handler)
  <2>1. attempts' = attempts /\ attempts[n] < MaxAttempts /\ pc[h] = "idle" /\ form'[h].mac = n
    BY <1>4, Forms DEF Post, Allowed
  <2>2. \A g \in Handler : g # h => form'[g] = form[g] /\ pc'[g] = pc[g]
    BY <1>4, <1>0, Forms DEF Post
  <2>3. CASE m = n
    <3>1. Busy(m)' \subseteq Handler
      BY DEF Busy
    <3>2. Cardinality(Busy(m)') \in Nat /\ Cardinality(Busy(m)') <= Cardinality(Handler)
      BY <3>1, HandlerAssumption, FS_Subset, FS_CardinalityType
    <3> QED  BY <1>0, <2>1, <2>3, <3>2, HandlersAreMany, BoundAssumption
  <2>4. CASE m # n
    <3>1. Busy(m)' \subseteq Busy(m)
      BY <2>1, <2>2, <2>4 DEF Busy
    <3> QED  BY <1>0, <2>1, <3>1, Spares
  <2> QED  BY <2>3, <2>4
<1>5. ASSUME NEW h \in Handler, Fail(h), pc[h] # "idle"
      PROVE  attempts'[m] + Cardinality(Busy(m)') < MaxAttempts + Cardinality(Handler)
  <2>1. /\ attempts' = [attempts EXCEPT ![form[h].mac] = @ + 1]
        /\ pc' = [pc EXCEPT ![h] = "idle"]
        /\ \A g \in Handler : g # h => form'[g] = form[g]
    BY <1>5, Forms DEF Fail
  <2>2. Busy(m)' = Busy(m) \ {h}
    BY <1>0, <2>1 DEF Busy
  <2>3. CASE form[h].mac = m
    <3>1. h \in Busy(m)
      BY <1>5, <2>3 DEF Busy
    <3>2. Cardinality(Busy(m)') = Cardinality(Busy(m)) - 1
      BY <2>2, <3>1, BusyIsFinite, FS_RemoveElement
    <3>3. attempts'[m] = attempts[m] + 1
      BY <1>0, <2>1, <2>3
    <3> QED  BY <1>0, <3>2, <3>3, BusyIsFinite, HandlersAreMany, BoundAssumption DEF IInv, Budget
  <2>4. CASE form[h].mac # m
    <3>1. Busy(m)' \subseteq Busy(m) /\ attempts'[m] = attempts[m] /\ attempts[m] \in Nat
      BY <1>0, <2>1, <2>2, <2>4
    <3> QED  BY <1>0, <3>1, Spares
  <2> QED  BY <2>3, <2>4
<1>6. ASSUME NEW h \in Handler, NEW where, Goto(h, where),
             pc[h] # "idle",
             \/ form' = form
             \/ form' = [form EXCEPT ![h] = NoForm] /\ where = "idle"
             \/ \E n \in Id : form' = [form EXCEPT ![h].id = n]
             \/ \E u \in users : form' = [form EXCEPT ![h].user = u]
      PROVE  attempts'[m] + Cardinality(Busy(m)') < MaxAttempts + Cardinality(Handler)
  <2>1. attempts' = attempts /\ pc' = [pc EXCEPT ![h] = where]
    BY <1>6 DEF Goto
  <2>2. \A g \in Handler : form'[g].mac = form[g].mac \/ (g = h /\ where = "idle")
    BY <1>6, Forms
  <2>3. Busy(m)' \subseteq Busy(m)
    BY <1>0, <1>6, <2>1, <2>2 DEF Busy
  <2> QED  BY <1>0, <2>1, <2>3, Spares
<1>7. ASSUME NEW h \in Handler,
             Credentials(h) \/ Resolve(h) \/ Password(h) \/ LoginUpdate(h) \/ AdminAction(h)
      PROVE  attempts'[m] + Cardinality(Busy(m)') < MaxAttempts + Cardinality(Handler)
  BY <1>5, <1>6, <1>7 DEF Credentials, Resolve, Password, LoginUpdate, AdminAction, Finish
<1> QED
  BY <1>1, <1>2, <1>3, <1>4, <1>7 DEF Next, Route, UpdateDevice, BypassLogin, DeleteDevices, BulkIgnore,
       BatchAssign, AddDevice, DeleteUser, DeleteGroup, UpdateDeviceVouch, LoadPage, Discover, Purge,
       portal, vars

-----------------------------------------------------------------------------

LEMMA InitIInv == Init => IInv
<1> SUFFICES ASSUME Init PROVE IInv
  OBVIOUS
<1>1. NoForm \in Form /\ NoForm.id = 0 /\ 0 \notin Id
  BY DEF NoForm, Form, Id
<1>2. TypeOK /\ Serving
  BY <1>1, BoundAssumption DEF Init, TypeOK, Serving
<1>3. Names /\ AccessIsVouched /\ AssignedIsAuthenticated
  BY <1>1 DEF Init, Names, AccessIsVouched, AssignedIsAuthenticated, Exists
<1>4. \A m : Busy(m) = {}
  BY DEF Init, Busy
<1>5. Budget
  BY <1>4, FS_EmptySet, HandlersAreMany, BoundAssumption DEF Init, Budget
<1> QED  BY <1>2, <1>3, <1>5 DEF IInv

LEMMA NextIInv == IInv /\ [Next]_vars => IInv'
  BY TypesKeep, AccessKeeps, BudgetKeeps DEF IInv, Access

LEMMA Invariant == Spec => []IInv
  BY InitIInv, NextIInv, PTL DEF Spec

\* The rows, the threads and the histories keep their types.
THEOREM TypeCorrect == Spec => []TypeOK
  BY Invariant, PTL DEF IInv

\* A device is let past the portal only after somebody let its MAC in, unless its row's id was
\* reissued (create_pending_device, update_device, the portal's forms).
THEOREM AccessStaysVouched == Spec => []AccessIsVouched
  BY Invariant, PTL DEF IInv

\* An assigned device is authenticated, but for the two statements of update_device (_migrate).
THEOREM AssignedStaysAuthenticated == Spec => []AssignedIsAuthenticated
  BY Invariant, PTL DEF IInv

\* No source has more failures than the limit and the other threads (RateLimiter).
THEOREM LimitAlwaysHolds == Spec => []LimitHolds
<1>1. IInv => LimitHolds
  <2> SUFFICES ASSUME IInv, NEW m \in Mac PROVE attempts[m] < MaxAttempts + Cardinality(Handler)
    BY DEF LimitHolds
  <2>1. attempts[m] \in Nat
    BY DEF IInv, TypeOK
  <2> QED  BY <2>1, BusyIsFinite, HandlersAreMany, BoundAssumption DEF IInv, Budget
<1> QED  BY <1>1, Invariant, PTL

\* A login changes no assignment that is there when it writes (_handle_login).
THEOREM LoginsKeepAssignments == Spec => LoginKeepsAssignment
<1>1. IInv /\ [Next]_vars =>
        [ \A h \in Handler : pc[h] = "update" /\ pc'[h] = "idle" /\ edits' = edits =>
            \A n \in Id : Exists(n) /\ Assigned(rows[n]) =>
                /\ rows'[n].user = rows[n].user /\ rows'[n].group = rows[n].group ]_vars
  <2> SUFFICES ASSUME IInv, [Next]_vars, NEW h \in Handler, pc[h] = "update", pc'[h] = "idle",
                      edits' = edits, NEW n \in Id, Exists(n), Assigned(rows[n])
               PROVE  rows'[n].user = rows[n].user /\ rows'[n].group = rows[n].group
    OBVIOUS
  <2>1. ~Edit
    BY DEF Edit, IInv, TypeOK
  <2>2. LoginUpdate(h)
    <3>1. pc' # pc /\ pc \in [Handler -> {"idle", "credentials", "find_for_login", "find_for_admin",
                                          "password", "update", "act"}]
      BY DEF IInv, TypeOK
    <3>2. ASSUME NEW g \in Handler,
                 (\E m \in Mac : Post(g, m)) \/ Credentials(g) \/ Resolve(g) \/ Password(g) \/ LoginUpdate(g)
                   \/ AdminAction(g)
          PROVE  g = h
      BY <3>1, <3>2 DEF Post, Credentials, Resolve, Password, LoginUpdate, AdminAction, Finish, Goto, Fail
    <3>3. \E g \in Handler :
             (\E m \in Mac : Post(g, m)) \/ Credentials(g) \/ Resolve(g) \/ Password(g) \/ LoginUpdate(g)
               \/ AdminAction(g)
      BY <2>1, <3>1 DEF Next, Route, UpdateDevice, BypassLogin, DeleteDevices, BulkIgnore,
           BatchAssign, AddDevice, DeleteUser, DeleteGroup, UpdateDeviceVouch, LoadPage, Discover, Purge,
           Restart, Age, portal, vars
    <3> QED  BY <3>2, <3>3 DEF Post, Credentials, Resolve, Password, AdminAction
  <2>3. CASE rows' = rows
    BY <2>3
  <2>4. CASE /\ ~(Exists(form[h].id) /\ rows[form[h].id].group # None)
             /\ Change({form[h].id}, LAMBDA r : [r EXCEPT !.is_authenticated = TRUE,
                                                          !.user = IF @ = None THEN form[h].user ELSE @])
    <3>1. rows[n] \in Row
      BY DEF IInv, TypeOK, Exists
    <3> QED  BY <2>4, <3>1 DEF Change, Exists, Row, Assigned
  <2> QED  BY <2>2, <2>3, <2>4 DEF LoginUpdate
<1> QED  BY <1>1, Invariant, PTL DEF Spec, LoginKeepsAssignment
=============================================================================
