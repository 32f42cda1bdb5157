--------------------------- MODULE BindingsProofs ---------------------------
(***************************************************************************)
(* The binding table, for any MACs, addresses, concurrent resolvers and    *)
(* number of devices added by hand: its types, that the latest sighting is *)
(* active, that no sighting revives a deleted device, and that racing      *)
(* heals do not collide.                                                   *)
(*                                                                         *)
(* LatestIsActive is inductive with the types.  The other two need to know *)
(* what deletion and healing leave behind: a deleted device stays away and *)
(* keeps a binding (DeletedStays); only a device that exists has linked    *)
(* bindings (Owned); as long as nothing was excused, all bindings of a     *)
(* device's MAC are linked, and a MAC about to be healed has a binding     *)
(* (Healable).  A purge that deletes is at some MAC (PurgeAt).             *)
(***************************************************************************)
EXTENDS Bindings, TLAPS

DeletedStays == \A m \in deleted : devices[m] = "none" /\ Known(m) # {}

Owned == \A m \in Mac : LinkedIps(m) # {} => devices[m] # "none"

PurgeAt == purge.at \in {"bindings", "device"} => purge.mac \in Mac

Healable ==
    ~excused =>
        /\ \A m \in Mac : devices[m] # "none" => Known(m) \subseteq LinkedIps(m)
        /\ \A r \in Resolver : resolving[r] # NoMac => Known(resolving[r]) # {}

IInv == /\ TypeOK /\ LatestIsActive /\ HealNeverRaises
        /\ DeletedStays /\ Owned /\ PurgeAt /\ Healable

-----------------------------------------------------------------------------
(* What the operations do to the table                                     *)

Pair == Mac \X Ip

LEMMA PairIs == \A p \in Pair : p[1] \in Mac /\ p[2] \in Ip /\ p = <<p[1], p[2]>>
BY DEF Pair

\* The updates of one row.
LEMMA RowUpdates ==
    ASSUME NEW r \in Row
    PROVE  /\ [r EXCEPT !.active = FALSE] \in Row
           /\ [r EXCEPT !.active = FALSE].known = r.known
           /\ [r EXCEPT !.active = FALSE].linked = r.linked
           /\ r.known => [r EXCEPT !.active = TRUE] \in Row
           /\ [r EXCEPT !.active = TRUE].known = r.known
           /\ [r EXCEPT !.active = TRUE].linked = r.linked
           /\ [r EXCEPT !.active = TRUE].active = TRUE
<1>1. r \in [known: BOOLEAN, active: BOOLEAN, linked: BOOLEAN]
  BY DEF Row
<1>2. \A b \in BOOLEAN : /\ [r EXCEPT !.active = b].known = r.known
                         /\ [r EXCEPT !.active = b].linked = r.linked
                         /\ [r EXCEPT !.active = b].active = b
  BY <1>1
<1>3. \A b \in BOOLEAN :
          [r EXCEPT !.active = b] \in [known: BOOLEAN, active: BOOLEAN, linked: BOOLEAN]
  BY <1>1
<1>4. QED  BY <1>2, <1>3 DEF Row

LEMMA Relinked ==
    ASSUME NEW r \in Row, NEW b \in BOOLEAN
    PROVE  /\ r.known => [r EXCEPT !.linked = b] \in Row
           /\ [r EXCEPT !.linked = b].known = r.known
           /\ [r EXCEPT !.linked = b].active = r.active
           /\ [r EXCEPT !.linked = b].linked = b
<1>1. r \in [known: BOOLEAN, active: BOOLEAN, linked: BOOLEAN]
  BY DEF Row
<1>2. /\ [r EXCEPT !.linked = b].known = r.known
      /\ [r EXCEPT !.linked = b].active = r.active
      /\ [r EXCEPT !.linked = b].linked = b
      /\ [r EXCEPT !.linked = b] \in [known: BOOLEAN, active: BOOLEAN, linked: BOOLEAN]
  BY <1>1
<1>3. QED  BY <1>2 DEF Row

\* A sighting of a known pair makes it active and changes nothing else.
LEMMA RefreshRows ==
    ASSUME TypeOK, NEW m \in Mac, NEW i \in Ip, Refresh(m, i)
    PROVE  /\ rows' \in [Mac \X Ip -> Row]
           /\ rows'[<<m, i>>].active
           /\ \A p \in Pair : /\ rows'[p].known = rows[p].known
                              /\ rows'[p].linked = rows[p].linked
                              /\ rows[p].active => rows'[p].active
<1>1. rows' = [rows EXCEPT ![<<m, i>>].active = TRUE] /\ rows[<<m, i>>].known
  BY DEF Refresh
<1>2. rows \in [Pair -> Row] /\ <<m, i>> \in Pair
  BY DEF TypeOK, Pair
<1> DEFINE new == [rows[<<m, i>>] EXCEPT !.active = TRUE]
<1>3. \A p \in Pair : rows'[p] = IF p = <<m, i>> THEN new ELSE rows[p]
  BY <1>1, <1>2
<1>4. /\ new \in Row /\ new.known = rows[<<m, i>>].known
      /\ new.linked = rows[<<m, i>>].linked /\ new.active = TRUE
  BY <1>1, <1>2, RowUpdates
<1> HIDE DEF new
<1>5. rows' \in [Pair -> Row]
  BY <1>1, <1>2, <1>3, <1>4
<1>6. \A p \in Pair : /\ rows'[p].known = rows[p].known
                      /\ rows'[p].linked = rows[p].linked
                      /\ rows[p].active => rows'[p].active
  BY <1>3, <1>4
<1>7. QED  BY <1>2, <1>3, <1>4, <1>5, <1>6 DEF Pair

\* A sighting of a new pair makes it active, links it unless the MAC lost its device, and
\* otherwise changes only whether pairs of this MAC or of this address are active.
LEMMA InsertRows ==
    ASSUME TypeOK, NEW m \in Mac, NEW i \in Ip, Insert(m, i)
    PROVE  /\ rows' \in [Mac \X Ip -> Row]
           /\ rows'[<<m, i>>].known /\ rows'[<<m, i>>].active
           /\ rows'[<<m, i>>].linked = (devices[m] # "none" \/ Known(m) = {})
           /\ \A p \in Pair : p # <<m, i>> => /\ rows'[p].known = rows[p].known
                                              /\ rows'[p].linked = rows[p].linked
           /\ \A p \in Pair : p[1] # m /\ p[2] # i => rows'[p] = rows[p]
<1> DEFINE lnk == devices[m] # "none" \/ Known(m) = {}
           new == [known |-> TRUE, active |-> TRUE, linked |-> lnk]
<1>1. PICK other \in FetchOne(ActiveMacs(i), NoMac), old \in FetchOne(ActiveIps(m), NoIp) :
          rows' = [p \in Mac \X Ip |->
                     IF p = <<m, i>> THEN new
                     ELSE IF p \in {<<other, i>>, <<m, old>>} THEN [rows[p] EXCEPT !.active = FALSE]
                     ELSE rows[p]]
  BY DEF Insert
<1>2. rows \in [Pair -> Row] /\ <<m, i>> \in Pair
  BY DEF TypeOK, Pair
<1>3. lnk \in BOOLEAN
  OBVIOUS
<1> HIDE DEF lnk
<1>4. new \in Row /\ new.known = TRUE /\ new.active = TRUE /\ new.linked = lnk
  BY <1>3 DEF Row
<1> HIDE DEF new
<1>5. rows'[<<m, i>>] = new
  BY <1>1, <1>2 DEF Pair
<1>6. \A p \in Pair : p # <<m, i>> =>
          rows'[p] = IF p = <<other, i>> \/ p = <<m, old>>
                     THEN [rows[p] EXCEPT !.active = FALSE] ELSE rows[p]
  BY <1>1 DEF Pair
<1>7. \A p \in Pair : p # <<m, i>> => /\ rows'[p] \in Row
                                      /\ rows'[p].known = rows[p].known
                                      /\ rows'[p].linked = rows[p].linked
  <2> SUFFICES ASSUME NEW p \in Pair, p # <<m, i>>
               PROVE  /\ rows'[p] \in Row
                      /\ rows'[p].known = rows[p].known
                      /\ rows'[p].linked = rows[p].linked
    OBVIOUS
  <2>1. /\ rows[p] \in Row /\ [rows[p] EXCEPT !.active = FALSE] \in Row
        /\ [rows[p] EXCEPT !.active = FALSE].known = rows[p].known
        /\ [rows[p] EXCEPT !.active = FALSE].linked = rows[p].linked
    BY <1>2, RowUpdates
  <2>2. rows'[p] \in {rows[p], [rows[p] EXCEPT !.active = FALSE]}
    BY <1>6
  <2>3. QED  BY <2>1, <2>2
<1>8. rows' \in [Mac \X Ip -> Row]
  BY <1>1, <1>4, <1>5, <1>7 DEF Pair
<1>9. \A p \in Pair : p[1] # m /\ p[2] # i => rows'[p] = rows[p]
  <2>1. <<m, i>>[1] = m /\ <<other, i>>[2] = i /\ <<m, old>>[1] = m
    OBVIOUS
  <2>2. QED  BY <1>6, <2>1
<1>10. QED  BY <1>4, <1>5, <1>7, <1>8, <1>9 DEF lnk

\* Healing and deleting a MAC link or unlink its known rows and leave the rest alone.
LEMMA RelinkRows ==
    ASSUME TypeOK, NEW m \in Mac, NEW b \in BOOLEAN,
           rows' = [p \in Mac \X Ip |-> IF p[1] = m /\ rows[p].known
                                        THEN [rows[p] EXCEPT !.linked = b] ELSE rows[p]]
    PROVE  /\ rows' \in [Mac \X Ip -> Row]
           /\ \A p \in Pair : /\ rows'[p].known = rows[p].known
                              /\ rows'[p].active = rows[p].active
                              /\ rows'[p].linked = IF p[1] = m /\ rows[p].known THEN b
                                                   ELSE rows[p].linked
<1>1. rows \in [Pair -> Row]
  BY DEF TypeOK, Pair
<1>2. \A p \in Pair : rows'[p] = IF p[1] = m /\ rows[p].known
                                 THEN [rows[p] EXCEPT !.linked = b] ELSE rows[p]
  BY DEF Pair
<1>3. ASSUME NEW p \in Pair
      PROVE  /\ rows'[p] \in Row
             /\ rows'[p].known = rows[p].known
             /\ rows'[p].active = rows[p].active
             /\ rows'[p].linked = IF p[1] = m /\ rows[p].known THEN b ELSE rows[p].linked
  <2>1. rows[p] \in Row
    BY <1>1
  <2>2. CASE p[1] = m /\ rows[p].known
    <3> DEFINE new == [rows[p] EXCEPT !.linked = b]
    <3>1. rows'[p] = new
      BY <1>2, <2>2
    <3>2. new \in Row /\ new.known = rows[p].known /\ new.active = rows[p].active /\ new.linked = b
      <4>1. rows[p].known
        BY <2>2
      <4>2. /\ rows[p].known => [rows[p] EXCEPT !.linked = b] \in Row
            /\ [rows[p] EXCEPT !.linked = b].known = rows[p].known
            /\ [rows[p] EXCEPT !.linked = b].active = rows[p].active
            /\ [rows[p] EXCEPT !.linked = b].linked = b
        BY <2>1, Relinked
      <4>3. QED  BY <4>1, <4>2
    <3> HIDE DEF new
    <3>3. QED  BY <2>2, <3>1, <3>2
  <2>3. CASE ~(p[1] = m /\ rows[p].known)
    <3>1. rows'[p] = rows[p]
      BY <1>2, <2>3
    <3>2. QED  BY <2>1, <2>3, <3>1
  <2>4. QED  BY <2>2, <2>3
<1>4. rows' \in [Mac \X Ip -> Row]
  BY <1>3 DEF Pair
<1>5. QED  BY <1>3, <1>4

\* Deleting a device unlinks its MAC's rows.
LEMMA UnlinkRows ==
    ASSUME TypeOK, NEW m \in Mac, DropDevice(m)
    PROVE  /\ rows' \in [Mac \X Ip -> Row]
           /\ \A n \in Mac, j \in Ip : /\ rows'[<<n, j>>].known = rows[<<n, j>>].known
                                       /\ rows'[<<n, j>>].active = rows[<<n, j>>].active
                                       /\ rows'[<<n, j>>].linked = (n # m /\ rows[<<n, j>>].linked)
<1>1. rows \in [Pair -> Row]
  BY DEF TypeOK, Pair
<1>2. /\ rows' = [p \in Mac \X Ip |-> rows'[p]]
      /\ \A p \in Pair : rows'[p] = IF p[1] = m THEN [rows[p] EXCEPT !.linked = FALSE] ELSE rows[p]
  BY DEF DropDevice, Pair
<1>3. ASSUME NEW r \in Row
      PROVE  /\ [r EXCEPT !.linked = FALSE] \in Row
             /\ [r EXCEPT !.linked = FALSE].known = r.known
             /\ [r EXCEPT !.linked = FALSE].active = r.active
             /\ [r EXCEPT !.linked = FALSE].linked = FALSE
             /\ r.linked \in BOOLEAN
  BY DEF Row
<1>4. ASSUME NEW p \in Pair
      PROVE  /\ rows'[p] \in Row
             /\ rows'[p].known = rows[p].known
             /\ rows'[p].active = rows[p].active
             /\ rows'[p].linked = (p[1] # m /\ rows[p].linked)
  <2>1. rows[p] \in Row
    BY <1>1
  <2>2. /\ [rows[p] EXCEPT !.linked = FALSE] \in Row
        /\ [rows[p] EXCEPT !.linked = FALSE].known = rows[p].known
        /\ [rows[p] EXCEPT !.linked = FALSE].active = rows[p].active
        /\ [rows[p] EXCEPT !.linked = FALSE].linked = FALSE
        /\ rows[p].linked \in BOOLEAN
    BY <1>3, <2>1
  <2>3. QED  BY <1>2, <2>1, <2>2
<1>5. rows' \in [Mac \X Ip -> Row]
  BY <1>2, <1>4 DEF Pair
<1>6. \A n \in Mac, j \in Ip : <<n, j>> \in Pair /\ <<n, j>>[1] = n
  BY DEF Pair
<1>7. QED  BY <1>4, <1>5, <1>6

-----------------------------------------------------------------------------
(* The invariant                                                           *)

LEMMA InitIInv == Init => IInv
<1> SUFFICES ASSUME Init PROVE IInv
  OBVIOUS
<1>1. TypeOK
  <2>1. NoRow \in Row
    BY DEF NoRow, Row
  <2>2. rows \in [Mac \X Ip -> Row]
    BY <2>1 DEF Init
  <2>3. devices \in [Mac -> {"none", "plain", "assigned"}]
    BY DEF Init
  <2>4. resolving \in [Resolver -> Mac \cup {NoMac}]
    BY DEF Init
  <2>5. place \in [Mac -> Ip \cup {NoIp}] /\ holder \in [Ip -> Mac \cup {NoMac}]
    BY DEF Init
  <2>6. adds \in 0..MaxAdds /\ starts \in 0..MaxStarts
    BY BoundsAssumption DEF Init
  <2>7. purge \in [at: {"idle", "row", "bindings", "device"}, todo: SUBSET Mac,
                   mac: Mac \cup {NoMac}]
    BY DEF Init, NoPurge
  <2>8. QED  BY <2>2, <2>3, <2>4, <2>5, <2>6, <2>7 DEF Init, TypeOK
<1>2. LatestIsActive
  BY NoneAssumption DEF Init, LatestIsActive
<1>3. Healable /\ PurgeAt
  BY DEF Init, Healable, PurgeAt, NoPurge
<1>4. Owned
  BY DEF Init, Owned, LinkedIps, NoRow
<1>5. QED  BY <1>1, <1>2, <1>3, <1>4 DEF Init, IInv, DeletedStays, HealNeverRaises

\* A sighting: the pair becomes active, other MACs at other addresses are left alone, no
\* pair is forgotten, and a device appears only with a MAC's first pair.
LEMMA SightingFacts ==
    ASSUME TypeOK, NEW m \in Mac, NEW i \in Ip, Refresh(m, i) \/ Insert(m, i)
    PROVE  /\ rows' \in [Mac \X Ip -> Row]
           /\ rows'[<<m, i>>].active
           /\ \A n \in Mac, j \in Ip : n # m /\ j # i =>
                  (rows[<<n, j>>].active => rows'[<<n, j>>].active)
           /\ \A n \in Mac : Known(n) \subseteq Known(n)' /\ LinkedIps(n) \subseteq LinkedIps(n)'
           /\ \A n \in Mac \ {m} : Known(n)' = Known(n)
           /\ devices' \in [Mac -> {"none", "plain", "assigned"}]
           /\ \A n \in Mac \ {m} : devices'[n] = devices[n]
           /\ devices[m] # "none" => devices'[m] # "none"
           /\ \A n \in Mac \ {m} : LinkedIps(n)' = LinkedIps(n)
           /\ devices'[m] # "none" /\ Known(m) \subseteq LinkedIps(m) => Known(m)' \subseteq LinkedIps(m)'
           /\ LinkedIps(m)' # {} => LinkedIps(m) # {} \/ devices'[m] # "none"
           /\ devices[m] = "none" /\ devices'[m] # "none" => Known(m) = {}
           /\ deleted' \subseteq deleted
           /\ devices'[m] # "none" /\ devices[m] = "none" => m \notin deleted'
<1>1. ASSUME NEW p \in Pair
      PROVE  <<p[1], p[2]>> = p
  BY DEF Pair
<1>2. \A n \in Mac, j \in Ip : <<n, j>> \in Pair /\ <<n, j>>[1] = n /\ <<n, j>>[2] = j
  BY DEF Pair
<1>3. CASE Refresh(m, i)
  <2>1. /\ rows' \in [Mac \X Ip -> Row]
        /\ rows'[<<m, i>>].active
        /\ \A p \in Pair : /\ rows'[p].known = rows[p].known
                           /\ rows'[p].linked = rows[p].linked
                           /\ rows[p].active => rows'[p].active
    BY <1>3, RefreshRows
  <2>2. \A n \in Mac : Known(n)' = Known(n) /\ LinkedIps(n)' = LinkedIps(n)
    BY <1>2, <2>1 DEF Known, LinkedIps
  <2>3. UNCHANGED <<devices, deleted>>
    BY <1>3 DEF Refresh
  <2>4. QED  BY <1>2, <2>1, <2>2, <2>3 DEF TypeOK
<1>4. CASE Insert(m, i)
  <2>1. /\ rows' \in [Mac \X Ip -> Row]
        /\ rows'[<<m, i>>].known /\ rows'[<<m, i>>].active
        /\ rows'[<<m, i>>].linked = (devices[m] # "none" \/ Known(m) = {})
        /\ \A p \in Pair : p # <<m, i>> => /\ rows'[p].known = rows[p].known
                                           /\ rows'[p].linked = rows[p].linked
        /\ \A p \in Pair : p[1] # m /\ p[2] # i => rows'[p] = rows[p]
    BY <1>4, InsertRows
  <2>2. ~rows[<<m, i>>].known /\ ~rows[<<m, i>>].linked
    BY <1>2, <1>4 DEF Insert, TypeOK, Pair, Row
  <2>3. \A n \in Mac : Known(n) \subseteq Known(n)' /\ LinkedIps(n) \subseteq LinkedIps(n)'
    BY <1>2, <2>1, <2>2 DEF Known, LinkedIps
  <2>4. \A n \in Mac \ {m} : Known(n)' = Known(n)
    BY <1>2, <2>1 DEF Known
  <2>5. /\ devices' = IF devices[m] = "none" /\ (devices[m] # "none" \/ Known(m) = {})
                      THEN [devices EXCEPT ![m] = "plain"] ELSE devices
        /\ deleted' = IF devices'[m] # "none" THEN deleted \ {m} ELSE deleted
    BY <1>4 DEF Insert
  <2>6. /\ devices' \in [Mac -> {"none", "plain", "assigned"}]
        /\ \A n \in Mac \ {m} : devices'[n] = devices[n]
        /\ devices[m] # "none" => devices'[m] # "none"
        /\ devices[m] = "none" /\ devices'[m] # "none" => Known(m) = {}
        /\ deleted' \subseteq deleted
        /\ devices'[m] # "none" => m \notin deleted'
    BY <2>5 DEF TypeOK
  <2>7. /\ \A n \in Mac \ {m} : LinkedIps(n)' = LinkedIps(n)
        /\ LinkedIps(m)' # {} => LinkedIps(m) # {} \/ devices'[m] # "none"
    BY <1>2, <2>1, <2>5 DEF LinkedIps, TypeOK
  <2>10. devices'[m] # "none" /\ Known(m) \subseteq LinkedIps(m) => Known(m)' \subseteq LinkedIps(m)'
    BY <1>2, <2>1, <2>5 DEF Known, LinkedIps, TypeOK
  <2>8. \A n \in Mac, j \in Ip : n # m /\ j # i => rows'[<<n, j>>] = rows[<<n, j>>]
    BY <1>2, <2>1
  <2>9. QED  BY <2>1, <2>3, <2>4, <2>6, <2>7, <2>8, <2>10
<1>5. QED  BY <1>3, <1>4

\* record_binding.
LEMMA SightingKeeps ==
    ASSUME IInv, NEW m \in Mac, NEW i \in Ip, RecordBinding(m, i)
    PROVE  IInv'
<1>1. TypeOK
  BY DEF IInv
<1>2. /\ Refresh(m, i) \/ Insert(m, i)
      /\ UNCHANGED <<lan, resolving, raised, adds, starts, purge, excused>>
      /\ place' = [place EXCEPT ![m] = i] /\ holder' = [holder EXCEPT ![i] = m]
  BY DEF RecordBinding
<1>3. /\ rows' \in [Mac \X Ip -> Row]
      /\ rows'[<<m, i>>].active
      /\ \A n \in Mac, j \in Ip : n # m /\ j # i =>
             (rows[<<n, j>>].active => rows'[<<n, j>>].active)
  BY <1>1, <1>2, SightingFacts
<1>4. \A n \in Mac : Known(n) \subseteq Known(n)' /\ LinkedIps(n) \subseteq LinkedIps(n)'
  BY <1>1, <1>2, SightingFacts
<1>5. /\ devices' \in [Mac -> {"none", "plain", "assigned"}]
      /\ \A n \in Mac \ {m} : devices'[n] = devices[n]
      /\ devices[m] = "none" /\ devices'[m] # "none" => Known(m) = {} /\ m \notin deleted'
      /\ devices[m] # "none" => devices'[m] # "none"
      /\ deleted' \subseteq deleted
  BY <1>1, <1>2, SightingFacts
<1>11. /\ \A n \in Mac \ {m} : LinkedIps(n)' = LinkedIps(n) /\ Known(n)' = Known(n)
       /\ devices'[m] # "none" /\ Known(m) \subseteq LinkedIps(m) => Known(m)' \subseteq LinkedIps(m)'
       /\ LinkedIps(m)' # {} => LinkedIps(m) # {} \/ devices'[m] # "none"
  BY <1>1, <1>2, SightingFacts
<1>6. TypeOK'
  BY <1>1, <1>2, <1>3, <1>5 DEF TypeOK
<1>7. LatestIsActive'
  BY <1>1, <1>2, <1>3 DEF IInv, TypeOK, LatestIsActive
<1>8. DeletedStays'
  BY <1>1, <1>4, <1>5 DEF IInv, TypeOK, DeletedStays
<1>9. Healable'
  <2> SUFFICES ASSUME ~excused'
               PROVE  /\ \A n \in Mac : devices'[n] # "none" => Known(n)' \subseteq LinkedIps(n)'
                      /\ \A x \in Resolver : resolving'[x] # NoMac => Known(resolving[x])' # {}
    BY DEF Healable
  <2>1. /\ \A n \in Mac : devices[n] # "none" => Known(n) \subseteq LinkedIps(n)
        /\ \A x \in Resolver : resolving[x] # NoMac => Known(resolving[x]) # {}
    BY <1>2 DEF IInv, Healable
  <2>2. ASSUME NEW n \in Mac, devices'[n] # "none" PROVE Known(n)' \subseteq LinkedIps(n)'
    <3>1. CASE n = m
      BY <1>5, <1>11, <2>1, <2>2, <3>1
    <3>2. CASE n # m
      BY <1>5, <1>11, <2>1, <2>2, <3>2
    <3>3. QED  BY <3>1, <3>2
  <2>3. ASSUME NEW x \in Resolver, resolving'[x] # NoMac PROVE Known(resolving[x])' # {}
    <3>1. resolving'[x] = resolving[x] /\ resolving[x] \in Mac
      BY <1>1, <1>2, <2>3 DEF TypeOK
    <3>2. \A n \in Mac : n = resolving'[x] => Known(n)' # {}
      BY <1>4, <2>1, <2>3, <3>1
    <3>3. QED  BY <3>1, <3>2 DEF Known
  <2>4. QED  BY <2>2, <2>3
<1>12. Owned'
  <2>1. ASSUME NEW n \in Mac, LinkedIps(n)' # {} PROVE devices'[n] # "none"
    BY <1>5, <1>11, <2>1 DEF IInv, Owned
  <2>2. QED  BY <2>1 DEF Owned
<1>10. QED  BY <1>2, <1>6, <1>7, <1>8, <1>9, <1>12 DEF IInv, HealNeverRaises, PurgeAt

\* resolve_device's look finds a pair, so the MAC it will heal has one.
LEMMA LookKeeps ==
    ASSUME IInv, NEW r \in Resolver, NEW i \in Ip, ResolveLook(r, i)
    PROVE  IInv'
<1>1. TypeOK
  BY DEF IInv
<1>2. PICK m \in ActiveMacs(i) : resolving' = [resolving EXCEPT ![r] = m]
  BY DEF ResolveLook
<1>3. UNCHANGED <<devices, rows, lan, raised, place, holder, deleted, adds, starts, purge, excused>>
  BY DEF ResolveLook, history
<1>4. m \in Mac /\ i \in Known(m)
  <2>1. m \in Mac /\ rows[<<m, i>>].active
    BY <1>2 DEF ActiveMacs
  <2>2. rows[<<m, i>>] \in Row
    BY <1>1, <2>1 DEF TypeOK
  <2>3. rows[<<m, i>>].known
    BY <2>1, <2>2 DEF Row
  <2>4. QED  BY <2>1, <2>3 DEF Known
<1>5. TypeOK'
  BY <1>1, <1>2, <1>3, <1>4 DEF TypeOK
<1>6. \A n \in Mac : Known(n)' = Known(n) /\ LinkedIps(n)' = LinkedIps(n)
  BY <1>3 DEF Known, LinkedIps
<1>7. Healable'
  <2> SUFFICES ASSUME ~excused'
               PROVE  /\ \A n \in Mac : devices'[n] # "none" => Known(n)' \subseteq LinkedIps(n)'
                      /\ \A x \in Resolver : resolving'[x] # NoMac => Known(resolving[x])' # {}
    BY DEF Healable
  <2>1. \A n \in Mac : devices'[n] # "none" => Known(n)' \subseteq LinkedIps(n)'
    BY <1>3, <1>6 DEF IInv, Healable
  <2>2. ASSUME NEW x \in Resolver, resolving'[x] # NoMac
        PROVE  Known(resolving[x])' # {}
    <3>1. CASE x = r
      <4>1. resolving'[x] = m
        BY <1>1, <1>2, <3>1 DEF TypeOK
      <4>2. Known(m)' # {}
        BY <1>4, <1>6
      <4>3. QED  BY <4>1, <4>2 DEF Known
    <3>2. CASE x # r
      <4>1. resolving'[x] = resolving[x] /\ resolving[x] \in Mac
        BY <1>1, <1>2, <2>2, <3>2 DEF TypeOK
      <4>2. \A n \in Mac : n = resolving'[x] => Known(n)' # {}
        BY <1>3, <1>6, <2>2, <4>1 DEF IInv, Healable
      <4>3. QED  BY <4>1, <4>2 DEF Known
    <3>3. QED  BY <3>1, <3>2
  <2>3. QED  BY <2>1, <2>2
<1>8. LatestIsActive' /\ DeletedStays' /\ HealNeverRaises' /\ Owned' /\ PurgeAt'
  BY <1>1, <1>3, <1>6 DEF IInv, TypeOK, LatestIsActive, DeletedStays, HealNeverRaises, Owned,
                          PurgeAt
<1>9. QED  BY <1>5, <1>7, <1>8 DEF IInv

\* A step that keeps which pairs are known and active, and a device linked while it exists.
LEMMA TableKept ==
    ASSUME IInv, TypeOK', NEW m \in Mac,
           \A p \in Pair : /\ rows'[p].known = rows[p].known
                           /\ rows'[p].active = rows[p].active,
           \A n \in Mac \ {m} : devices'[n] = devices[n] /\ LinkedIps(n)' = LinkedIps(n),
           UNCHANGED <<place, holder>>,
           \A x \in Resolver : resolving'[x] \in {resolving[x], NoMac},
           excused => excused',
           ~excused' => (devices'[m] # "none" => Known(m) \subseteq LinkedIps(m)'),
           LinkedIps(m)' # {} => devices'[m] # "none",
           PurgeAt',
           \A n \in deleted' : devices'[n] = "none" /\ Known(n) # {},
           raised' => raised \/ excused'
    PROVE  IInv'
<1>1. TypeOK
  BY DEF IInv
<1>2. \A n \in Mac, j \in Ip : /\ rows'[<<n, j>>].known = rows[<<n, j>>].known
                               /\ rows'[<<n, j>>].active = rows[<<n, j>>].active
  BY DEF Pair
<1>3. \A n \in Mac : Known(n)' = Known(n)
  BY <1>2 DEF Known
<1>4. LatestIsActive'
  BY <1>2 DEF IInv, LatestIsActive
<1>5. DeletedStays'
  BY <1>3 DEF TypeOK, DeletedStays
<1>6. Healable'
  <2> SUFFICES ASSUME ~excused'
               PROVE  /\ \A n \in Mac : devices'[n] # "none" => Known(n)' \subseteq LinkedIps(n)'
                      /\ \A x \in Resolver : resolving'[x] # NoMac => Known(resolving[x])' # {}
    BY DEF Healable
  <2>1. ~excused /\ (\A n \in Mac : devices[n] # "none" => Known(n) \subseteq LinkedIps(n))
        /\ (\A x \in Resolver : resolving[x] # NoMac => Known(resolving[x]) # {})
    BY DEF IInv, Healable
  <2>2. ASSUME NEW n \in Mac, devices'[n] # "none" PROVE Known(n)' \subseteq LinkedIps(n)'
    <3>1. CASE n = m
      BY <1>3, <2>2, <3>1
    <3>2. CASE n # m
      BY <1>3, <2>1, <2>2, <3>2
    <3>3. QED  BY <3>1, <3>2
  <2>3. ASSUME NEW x \in Resolver, resolving'[x] # NoMac PROVE Known(resolving[x])' # {}
    <3>1. resolving'[x] = resolving[x] /\ resolving[x] \in Mac
      BY <1>1, <2>3 DEF TypeOK
    <3>2. \A n \in Mac : n = resolving'[x] => Known(n)' # {}
      BY <1>3, <2>1, <2>3, <3>1
    <3>3. QED  BY <3>1, <3>2 DEF Known
  <2>4. QED  BY <2>2, <2>3
<1>7. HealNeverRaises'
  BY DEF IInv, HealNeverRaises
<1>8. Owned'
  BY DEF IInv, Owned
<1>9. QED  BY <1>4, <1>5, <1>6, <1>7, <1>8 DEF IInv

\* resolve_device's transaction.
LEMMA HealKeeps ==
    ASSUME IInv, NEW r \in Resolver, ResolveHeal(r)
    PROVE  IInv'
<1>0. PICK m \in Mac : m = resolving[r]
  BY DEF IInv, TypeOK, ResolveHeal
<1>1. /\ TypeOK
      /\ resolving' = [resolving EXCEPT ![r] = NoMac]
      /\ UNCHANGED <<lan, place, holder, adds, starts, purge, excused>>
  BY DEF IInv, TypeOK, ResolveHeal, history
<1>8. PurgeAt'
  BY <1>1 DEF IInv, PurgeAt
<1>2. \A x \in Resolver : resolving'[x] \in {resolving[x], NoMac}
  BY <1>1 DEF TypeOK
<1>3. resolving' \in [Resolver -> Mac \cup {NoMac}]
  BY <1>1 DEF TypeOK
<1>4. CASE UNCHANGED <<devices, rows, raised, deleted>>
  <2>1. TypeOK'
    BY <1>1, <1>3, <1>4 DEF TypeOK
  <2>2. \A n \in Mac : LinkedIps(n)' = LinkedIps(n)
    BY <1>4 DEF LinkedIps
  <2>3. \A n \in deleted' : devices'[n] = "none" /\ Known(n) # {}
    BY <1>4 DEF IInv, DeletedStays
  <2>4. /\ ~excused' => (devices'[m] # "none" => Known(m) \subseteq LinkedIps(m)')
        /\ LinkedIps(m)' # {} => devices'[m] # "none"
    BY <1>1, <1>4, <2>2 DEF IInv, Healable, Owned
  <2>5. QED  BY <1>1, <1>2, <1>4, <1>8, <2>1, <2>2, <2>3, <2>4, TableKept
<1>5. CASE /\ LinkedIps(m) = {} /\ devices[m] # "none"
           /\ raised' = TRUE
           /\ UNCHANGED <<devices, rows, deleted>>
  <2>1. TypeOK'
    BY <1>1, <1>3, <1>5 DEF TypeOK
  <2>2. \A n \in Mac : LinkedIps(n)' = LinkedIps(n)
    BY <1>5 DEF LinkedIps
  <2>3. \A n \in deleted' : devices'[n] = "none" /\ Known(n) # {}
    BY <1>5 DEF IInv, DeletedStays
  <2>4. excused
    <3>1. ~excused => Known(m) # {}
      BY <1>0, <1>1, NoneAssumption DEF IInv, Healable
    <3>2. ~excused => Known(m) \subseteq LinkedIps(m)
      BY <1>5 DEF IInv, Healable
    <3>3. QED  BY <1>5, <3>1, <3>2
  <2>5. LinkedIps(m)' # {} => devices'[m] # "none"
    BY <1>5
  <2>6. QED  BY <1>1, <1>2, <1>5, <1>8, <2>1, <2>2, <2>3, <2>4, <2>5, TableKept
<1>6. CASE /\ LinkedIps(m) = {} /\ devices[m] = "none"
           /\ devices' = [devices EXCEPT ![m] = "plain"]
           /\ rows' = [p \in Mac \X Ip |-> IF p[1] = m /\ rows[p].known
                                           THEN [rows[p] EXCEPT !.linked = TRUE] ELSE rows[p]]
           /\ deleted' = deleted \ {m}
           /\ UNCHANGED raised
  <2>1. /\ rows' \in [Mac \X Ip -> Row]
        /\ \A p \in Pair : /\ rows'[p].known = rows[p].known
                           /\ rows'[p].active = rows[p].active
                           /\ rows'[p].linked = IF p[1] = m /\ rows[p].known THEN TRUE
                                                ELSE rows[p].linked
    BY <1>1, <1>6, RelinkRows
  <2>2. TypeOK'
    BY <1>1, <1>3, <1>6, <2>1 DEF TypeOK
  <2>3. \A n \in Mac \ {m} : devices'[n] = devices[n]
    BY <1>1, <1>6 DEF TypeOK
  <2>4. \A n \in Mac, j \in Ip : /\ <<n, j>> \in Pair /\ <<n, j>>[1] = n
    BY DEF Pair
  <2>5. \A n \in Mac \ {m} : LinkedIps(n)' = LinkedIps(n)
    BY <2>1, <2>4 DEF LinkedIps
  <2>6. Known(m) \subseteq LinkedIps(m)' /\ devices'[m] # "none"
    BY <1>1, <1>6, <2>1, <2>4 DEF Known, LinkedIps, TypeOK
  <2>7. \A n \in deleted' : devices'[n] = "none" /\ Known(n) # {}
    BY <1>1, <1>6, <2>3 DEF IInv, TypeOK, DeletedStays
  <2>8. QED  BY <1>1, <1>2, <1>6, <1>8, <2>1, <2>2, <2>3, <2>5, <2>6, <2>7, TableKept
<1>7. QED  BY <1>0, <1>4, <1>5, <1>6 DEF ResolveHeal

\* add_device and update_device.
LEMMA EditKeeps ==
    ASSUME IInv, NEW m \in Mac, AddDevice(m) \/ UpdateDevice(m)
    PROVE  IInv'
<1>1. TypeOK
  BY DEF IInv
<1>2. /\ UNCHANGED <<rows, lan, resolving, raised, place, holder, starts, purge>>
      /\ \E kind \in {"plain", "assigned"} : devices' = [devices EXCEPT ![m] = kind]
  BY DEF AddDevice, UpdateDevice, history
<1>3. /\ excused' \in BOOLEAN /\ (excused => excused')
      /\ devices[m] = "none" => excused'
      /\ adds' \in 0..MaxAdds
      /\ deleted' \subseteq deleted /\ (devices[m] = "none" => m \notin deleted')
  <2>1. CASE AddDevice(m)
    BY <1>1, <2>1, BoundsAssumption DEF AddDevice, TypeOK
  <2>2. CASE UpdateDevice(m)
    BY <1>1, <2>2 DEF UpdateDevice, TypeOK, history
  <2>3. QED  BY <2>1, <2>2
<1>4. TypeOK'
  BY <1>1, <1>2, <1>3 DEF TypeOK
<1>5. \A n \in Mac : LinkedIps(n)' = LinkedIps(n)
  BY <1>2 DEF LinkedIps
<1>6. \A n \in Mac \ {m} : devices'[n] = devices[n]
  BY <1>1, <1>2 DEF TypeOK
<1>7. \A n \in deleted' : devices'[n] = "none" /\ Known(n) # {}
  BY <1>1, <1>3, <1>6 DEF IInv, TypeOK, DeletedStays
<1>8. ~excused' => Known(m) \subseteq LinkedIps(m)'
  BY <1>1, <1>3, <1>5 DEF IInv, Healable
<1>9. \A x \in Resolver : resolving'[x] \in {resolving[x], NoMac}
  BY <1>2
<1>10. devices'[m] # "none" /\ PurgeAt'
  BY <1>1, <1>2 DEF IInv, TypeOK, PurgeAt
<1>11. QED  BY <1>2, <1>3, <1>4, <1>5, <1>6, <1>7, <1>8, <1>9, <1>10, TableKept

\* delete_device, and the purge's DELETE of a device.
LEMMA DropKeeps ==
    ASSUME IInv, NEW m \in Mac, DropDevice(m), PurgeAt',
           purge' \in [at: {"idle", "row", "bindings", "device"}, todo: SUBSET Mac,
                       mac: Mac \cup {NoMac}],
           UNCHANGED <<lan, resolving, raised, place, holder, adds, starts, excused>>
    PROVE  IInv'
<1>1. TypeOK
  BY DEF IInv
<1>2. /\ devices' = [devices EXCEPT ![m] = "none"]
      /\ deleted' = IF Known(m) # {} THEN deleted \cup {m} ELSE deleted
  BY DEF DropDevice
<1>3. /\ rows' \in [Mac \X Ip -> Row]
      /\ \A n \in Mac, j \in Ip : /\ rows'[<<n, j>>].known = rows[<<n, j>>].known
                                  /\ rows'[<<n, j>>].active = rows[<<n, j>>].active
                                  /\ rows'[<<n, j>>].linked = (n # m /\ rows[<<n, j>>].linked)
  BY <1>1, UnlinkRows
<1>4. TypeOK'
  BY <1>1, <1>2, <1>3 DEF TypeOK
<1>5. \A n \in Mac \ {m} : devices'[n] = devices[n] /\ LinkedIps(n)' = LinkedIps(n)
  BY <1>1, <1>2, <1>3 DEF TypeOK, LinkedIps
<1>6. devices'[m] = "none" /\ LinkedIps(m)' = {}
  BY <1>1, <1>2, <1>3 DEF TypeOK, LinkedIps
<1>7. \A n \in deleted' : devices'[n] = "none" /\ Known(n) # {}
  BY <1>1, <1>2, <1>5, <1>6 DEF IInv, TypeOK, DeletedStays
<1>8. \A p \in Pair : /\ rows'[p].known = rows[p].known
                      /\ rows'[p].active = rows[p].active
  BY <1>3, PairIs
<1>9. QED  BY <1>2, <1>4, <1>5, <1>6, <1>7, <1>8, TableKept

LEMMA DeleteKeeps ==
    ASSUME IInv, NEW m \in Mac, DeleteDevice(m)
    PROVE  IInv'
<1>1. /\ DropDevice(m)
      /\ UNCHANGED <<lan, resolving, raised, place, holder, adds, starts, purge, excused>>
  BY DEF DeleteDevice, history
<1>2. PurgeAt'
  BY <1>1 DEF IInv, PurgeAt
<1>3. QED  BY <1>1, <1>2, DropKeeps DEF IInv, TypeOK

\* The start of a purge and its look at a device change none of the tables.
LEMMA PurgeLooksKeep ==
    ASSUME IInv, ControllerStart \/ PurgeCheck
    PROVE  IInv'
<1>1. TypeOK
  BY DEF IInv
<1>2. /\ UNCHANGED <<devices, rows, lan, resolving, raised, place, holder, deleted, adds, excused>>
      /\ starts' \in 0..MaxStarts
  BY <1>1, BoundsAssumption DEF ControllerStart, PurgeCheck, history, TypeOK
<1>3. /\ purge' \in [at: {"idle", "row", "bindings", "device"}, todo: SUBSET Mac,
                     mac: Mac \cup {NoMac}]
      /\ PurgeAt'
  <2>1. CASE purge' = NoPurge
    BY <2>1 DEF NoPurge, PurgeAt
  <2>2. CASE ControllerStart /\ purge' # NoPurge
    BY <2>2 DEF ControllerStart, PurgeAt
  <2>3. CASE PurgeCheck /\ purge' # NoPurge
    <3>1. PICK m \in purge.todo :
              purge' = [at |-> IF OffLan(m) THEN "bindings" ELSE "row",
                        todo |-> purge.todo \ {m}, mac |-> IF OffLan(m) THEN m ELSE NoMac]
      BY <2>3 DEF PurgeCheck
    <3>2. purge.todo \subseteq Mac
      BY <1>1 DEF TypeOK
    <3>3. QED  BY <3>1, <3>2 DEF PurgeAt
  <2>4. QED  BY <2>1, <2>2, <2>3
<1>4. TypeOK'
  BY <1>1, <1>2, <1>3 DEF TypeOK
<1>5. \A n \in Mac : Known(n)' = Known(n) /\ LinkedIps(n)' = LinkedIps(n)
  BY <1>2 DEF Known, LinkedIps
<1>6. Healable'
  BY <1>2 DEF IInv, Healable, Known, LinkedIps
<1>7. LatestIsActive' /\ DeletedStays' /\ HealNeverRaises' /\ Owned'
  BY <1>1, <1>2, <1>5 DEF IInv, TypeOK, LatestIsActive, DeletedStays, HealNeverRaises, Owned
<1>8. QED  BY <1>3, <1>4, <1>6, <1>7 DEF IInv

\* The purge takes the linked bindings of a device, and with them what was said of its place.
LEMMA PurgeBindingsKeeps ==
    ASSUME IInv, PurgeBindings
    PROVE  IInv'
<1>1. TypeOK
  BY DEF IInv
<1>2. PICK m \in Mac : m = purge.mac
  BY DEF IInv, PurgeAt, PurgeBindings
<1>3. /\ UNCHANGED <<devices, lan, resolving, raised, holder, deleted, adds, starts>>
      /\ purge' = [purge EXCEPT !.at = "device"]
      /\ rows' = [p \in Mac \X Ip |-> IF p[1] = m /\ rows[p].linked THEN NoRow ELSE rows[p]]
      /\ place' = IF place[m] \in LinkedIps(m) THEN [place EXCEPT ![m] = NoIp] ELSE place
      /\ excused' = (excused \/ \E r \in Resolver : resolving[r] = m)
  BY <1>2 DEF PurgeBindings
<1>4. \A n \in Mac, j \in Ip :
          rows'[<<n, j>>] = IF n = m /\ rows[<<n, j>>].linked THEN NoRow ELSE rows[<<n, j>>]
  BY <1>3
<1>5. ~NoRow.known /\ ~NoRow.linked /\ NoRow \in Row
  BY DEF NoRow, Row
<1>6. /\ \A n \in Mac \ {m} : Known(n)' = Known(n) /\ LinkedIps(n)' = LinkedIps(n)
      /\ LinkedIps(m)' = {} /\ Known(m)' = Known(m) \ LinkedIps(m)
  BY <1>4, <1>5 DEF Known, LinkedIps
<1>7. TypeOK'
  <2>1. rows' \in [Mac \X Ip -> Row]
    BY <1>1, <1>3, <1>5 DEF TypeOK
  <2>2. place' \in [Mac -> Ip \cup {NoIp}]
    BY <1>1, <1>3 DEF TypeOK
  <2>3. purge' \in [at: {"idle", "row", "bindings", "device"}, todo: SUBSET Mac,
                    mac: Mac \cup {NoMac}]
    BY <1>1, <1>3 DEF TypeOK
  <2>4. excused' \in BOOLEAN
    BY <1>3
  <2>5. QED  BY <1>1, <1>3, <2>1, <2>2, <2>3, <2>4 DEF TypeOK
<1>8. PurgeAt'
  BY <1>1, <1>2, <1>3 DEF TypeOK, PurgeAt
<1>9. LatestIsActive'
  <2> SUFFICES ASSUME NEW n \in Mac, NEW i \in Ip, place'[n] = i, holder'[i] = n
               PROVE  rows'[<<n, i>>].active
    BY DEF LatestIsActive
  <2>1. place[n] = i
    BY <1>1, <1>3, NoneAssumption DEF TypeOK
  <2>2. ~(n = m /\ rows[<<n, i>>].linked)
    BY <1>1, <1>3, <2>1, NoneAssumption DEF LinkedIps, TypeOK
  <2>3. rows[<<n, i>>].active
    BY <1>3, <2>1 DEF IInv, LatestIsActive
  <2>4. QED  BY <1>4, <2>2, <2>3
<1>10. DeletedStays'
  <2> SUFFICES ASSUME NEW n \in deleted PROVE devices[n] = "none" /\ Known(n)' # {}
    BY <1>3 DEF DeletedStays
  <2>1. n \in Mac /\ devices[n] = "none" /\ Known(n) # {}
    BY <1>1 DEF IInv, TypeOK, DeletedStays
  <2>2. LinkedIps(n) = {}
    BY <2>1 DEF IInv, Owned
  <2>3. QED  BY <1>6, <2>1, <2>2
<1>11. Owned'
  BY <1>3, <1>6 DEF IInv, Owned
<1>12. Healable'
  <2> SUFFICES ASSUME ~excused'
               PROVE  /\ \A n \in Mac : devices'[n] # "none" => Known(n)' \subseteq LinkedIps(n)'
                      /\ \A x \in Resolver : resolving'[x] # NoMac => Known(resolving[x])' # {}
    BY DEF Healable
  <2>1. /\ \A n \in Mac : devices[n] # "none" => Known(n) \subseteq LinkedIps(n)
        /\ \A x \in Resolver : resolving[x] # m /\ (resolving[x] # NoMac => Known(resolving[x]) # {})
    BY <1>3 DEF IInv, Healable
  <2>2. \A n \in Mac : devices'[n] # "none" => Known(n)' \subseteq LinkedIps(n)'
    BY <1>3, <1>6, <2>1
  <2>3. ASSUME NEW x \in Resolver, resolving'[x] # NoMac PROVE Known(resolving[x])' # {}
    <3>1. resolving'[x] = resolving[x] /\ resolving[x] \in Mac \ {m} /\ Known(resolving[x]) # {}
      BY <1>1, <1>3, <2>1, <2>3 DEF TypeOK
    <3>2. \A n \in Mac : n = resolving'[x] => Known(n)' # {}
      BY <1>6, <3>1
    <3>3. QED  BY <3>1, <3>2 DEF Known
  <2>4. QED  BY <2>2, <2>3
<1>13. QED  BY <1>3, <1>7, <1>8, <1>9, <1>10, <1>11, <1>12 DEF IInv, HealNeverRaises

LEMMA PurgeDeviceKeeps ==
    ASSUME IInv, PurgeDevice
    PROVE  IInv'
<1>1. TypeOK
  BY DEF IInv
<1>2. PICK m \in Mac : m = purge.mac
  BY DEF IInv, PurgeAt, PurgeDevice
<1>3. /\ UNCHANGED <<lan, resolving, raised, place, holder, adds, starts, excused>>
      /\ purge' = [purge EXCEPT !.at = "row", !.mac = NoMac]
      /\ DropDevice(m) \/ UNCHANGED <<devices, rows, deleted>>
  BY <1>2 DEF PurgeDevice, history
<1>4. /\ purge' \in [at: {"idle", "row", "bindings", "device"}, todo: SUBSET Mac,
                     mac: Mac \cup {NoMac}]
      /\ PurgeAt'
  BY <1>1, <1>3 DEF TypeOK, PurgeAt
<1>5. CASE DropDevice(m)
  BY <1>3, <1>4, <1>5, DropKeeps
<1>6. CASE UNCHANGED <<devices, rows, deleted>>
  <2>1. TypeOK'
    BY <1>1, <1>3, <1>4, <1>6 DEF TypeOK
  <2>2. QED  BY <1>3, <1>4, <1>6, <2>1 DEF IInv, LatestIsActive, DeletedStays, Healable,
                                          HealNeverRaises, Owned, Known, LinkedIps
<1>7. QED  BY <1>3, <1>5, <1>6

-----------------------------------------------------------------------------
(* The theorems                                                            *)

LEMMA NextIInv == IInv /\ [Next]_vars => IInv'
<1> SUFFICES ASSUME IInv, [Next]_vars PROVE IInv'
  OBVIOUS
<1>1. ASSUME NEW m \in Mac, NEW i \in Ip, RecordBinding(m, i) PROVE IInv'
  BY <1>1, SightingKeeps
<1>2. ASSUME NEW r \in Resolver, NEW i \in Ip, ResolveLook(r, i) PROVE IInv'
  BY <1>2, LookKeeps
<1>3. ASSUME NEW r \in Resolver, ResolveHeal(r) PROVE IInv'
  BY <1>3, HealKeeps
<1>4. ASSUME NEW m \in Mac, AddDevice(m) \/ UpdateDevice(m) PROVE IInv'
  BY <1>4, EditKeeps
<1>5. ASSUME NEW m \in Mac, DeleteDevice(m) PROVE IInv'
  BY <1>5, DeleteKeeps
<1>6. CASE ControllerStart \/ PurgeCheck \/ PurgeBindings \/ PurgeDevice
  BY <1>6, PurgeLooksKeep, PurgeBindingsKeeps, PurgeDeviceKeeps
<1>7. CASE SetLan \/ UNCHANGED vars
  <2>1. UNCHANGED <<devices, rows, resolving, raised, place, holder, deleted, adds, starts, purge,
                    excused>>
    BY <1>7 DEF SetLan, history, vars
  <2>2. lan' \in {OwnLan, Ip}
    BY <1>7 DEF SetLan, vars, IInv, TypeOK
  <2>3. TypeOK'
    BY <2>1, <2>2 DEF IInv, TypeOK
  <2>4. Healable'
    BY <2>1 DEF IInv, Healable, Known, LinkedIps
  <2>5. LatestIsActive' /\ DeletedStays' /\ Owned' /\ PurgeAt' /\ HealNeverRaises'
    BY <2>1 DEF IInv, LatestIsActive, DeletedStays, Owned, PurgeAt, HealNeverRaises, Known,
                LinkedIps
  <2>6. QED  BY <2>3, <2>4, <2>5 DEF IInv
<1>8. QED  BY <1>1, <1>2, <1>3, <1>4, <1>5, <1>6, <1>7 DEF Next

LEMMA Invariant == Spec => []IInv
BY InitIInv, NextIInv, PTL DEF Spec

\* The devices and device_bindings tables keep their types.
THEOREM TypeCorrect == Spec => []TypeOK
BY Invariant, PTL DEF IInv

\* record_binding: the pair of the latest sighting of a MAC and of an address is active,
\* whatever is deleted, healed, purged and sighted meanwhile.
THEOREM LatestStaysActive == Spec => []LatestIsActive
BY Invariant, PTL DEF IInv

\* resolve_device: no heal meets a device with its MAC, however many callers race, unless
\* a device was added by hand or the purge interfered.
THEOREM HealsDoNotCollide == Spec => []HealNeverRaises
BY Invariant, PTL DEF IInv

\* Whatever brings a deleted device back is a heal of its MAC, or adds it by hand.
LEMMA NoRevival ==
    ASSUME IInv, [Next]_vars, NEW n \in deleted, devices'[n] # "none"
    PROVE  Healed(n) \/ adds' # adds
<1>1. TypeOK /\ n \in Mac /\ devices[n] = "none" /\ Known(n) # {}
  BY DEF IInv, TypeOK, DeletedStays
<1>2. ~\E m \in Mac, i \in Ip : RecordBinding(m, i)
  <2> SUFFICES ASSUME NEW m \in Mac, NEW i \in Ip, RecordBinding(m, i)
               PROVE  devices'[n] = devices[n]
    BY <1>1
  <2>1. Refresh(m, i) \/ Insert(m, i)
    BY DEF RecordBinding
  <2>2. n = m => Known(m) # {} /\ devices[m] = "none"
    BY <1>1
  <2>3. /\ \A x \in Mac \ {m} : devices'[x] = devices[x]
        /\ devices[m] = "none" /\ devices'[m] # "none" => Known(m) = {}
    BY <1>1, <2>1, SightingFacts
  <2>4. QED  BY <1>1, <2>2, <2>3
<1>3. ASSUME NEW r \in Resolver, ResolveHeal(r) PROVE Healed(n)
  <2>1. PICK m \in Mac : m = resolving[r]
    BY <1>1, <1>3 DEF TypeOK, ResolveHeal
  <2>2. resolving'[r] = NoMac
    BY <1>1, <1>3 DEF TypeOK, ResolveHeal
  <2>3. devices' = devices \/ devices' = [devices EXCEPT ![m] = "plain"]
    BY <1>3, <2>1 DEF ResolveHeal
  <2>4. n = m
    BY <1>1, <2>3 DEF TypeOK
  <2>5. QED  BY <2>1, <2>2, <2>4 DEF Healed
<1>4. ASSUME NEW m \in Mac, AddDevice(m) PROVE adds' # adds
  BY <1>1, <1>4, BoundsAssumption DEF AddDevice, TypeOK
<1>5. ~\E m \in Mac : UpdateDevice(m) \/ DeleteDevice(m)
  BY <1>1 DEF UpdateDevice, DeleteDevice, DropDevice, TypeOK
<1>6. ~PurgeDevice
  BY <1>1 DEF IInv, PurgeAt, PurgeDevice, DropDevice, TypeOK
<1>7. devices' = devices \/ \/ \E r \in Resolver : ResolveHeal(r)
                            \/ \E m \in Mac : AddDevice(m)
  BY <1>2, <1>5, <1>6 DEF Next, vars, ResolveLook, SetLan, ControllerStart, PurgeCheck,
                          PurgeBindings
<1>8. QED  BY <1>1, <1>3, <1>4, <1>7

\* resolve_device's gate: a deleted device comes back by resolve_device or by hand only.
THEOREM SightingsNeverRevive == Spec => SightingRevivesNothing
<1>1. IInv /\ [Next]_vars =>
          [ \A m \in deleted : devices'[m] # "none" => Healed(m) \/ adds' # adds ]_vars
  BY NoRevival
<1>2. QED  BY <1>1, Invariant, PTL DEF Spec, SightingRevivesNothing
=============================================================================
