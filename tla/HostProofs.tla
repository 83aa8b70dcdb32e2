----------------------------- MODULE HostProofs ------------------------------
(****************************************************************************)
(* Theorems about the parts of HostParts, for every value of the constants: *)
(* any number of connections, builds, requests, processes and directories,  *)
(* and no bound on what is counted.                                         *)
(*                                                                          *)
(* No part's property is inductive by itself.  Each section defines what    *)
(* the part keeps beside it, shows that Init establishes this and that      *)
(* every action preserves it, and ends in the part's theorem.               *)
(****************************************************************************)
EXTENDS HostParts, FiniteSetTheorems, TLAPS

(****************************************************************************)
(* Certificate.  A stamp that is the files' own stands for files that were  *)
(* read since they were last written.                                       *)
(****************************************************************************)

(* The types, and that no stamp is ahead of the files.                      *)
CertTypes ==
    /\ file["cert"].writes \in Nat /\ file["key"].writes \in Nat
    /\ file = [f \in {"cert", "key"} |-> file[f]]
    /\ stamp \in Int \X Int
    /\ stamp[1] <= file["cert"].writes /\ stamp[2] <= file["key"].writes
    /\ look.step \in {"idle", "stamp", "read", "load"}
    /\ look = [step |-> look.step, cert |-> look.cert, key |-> look.key]

(* The stamp is that of the files as they are.                              *)
OwnStamp == stamp[1] = file["cert"].writes /\ stamp[2] = file["key"].writes

(* The two files are of one renewal.                                        *)
Whole == CE!Belong(file["cert"].holds, file["key"].holds)

(* What a look knows at each of its steps.                                  *)
CertRead ==
    /\ look.step = "stamp" =>
         look.cert \in Nat /\ look.cert <= file["cert"].writes
             /\ (quiet => look.cert = file["cert"].writes)
    /\ look.step \in {"read", "load"} /\ quiet => OwnStamp
    /\ look.step = "load" /\ OwnStamp => look.cert = file["cert"].holds
    /\ look.step \in {"idle", "stamp"} /\ OwnStamp /\ Whole => current = file["cert"].holds
    /\ look.step = "idle" /\ quiet => OwnStamp \/ ~Whole

Renewal == CertTypes /\ CertRead

(* Nothing was looked at, and no stamp is the files' own.                   *)
LEMMA RenewalInit == CE!Init => Renewal
  <1> SUFFICES ASSUME CE!Init PROVE Renewal
    OBVIOUS
  <1>1. stamp = <<-1, -1>> /\ stamp \in Int \X Int
    BY DEF CE!Init, CE!Unseen
  <1>2. CertTypes
    BY <1>1 DEF CE!Init, CertTypes, CE!Idle
  <1>3. ~OwnStamp
    BY <1>1 DEF CE!Init, OwnStamp
  <1>4. CertRead
    BY <1>3 DEF CE!Init, CertRead, CE!Idle
  <1> QED
    BY <1>2, <1>4 DEF Renewal

(* Writes between the steps of a look make its stamp differ from the        *)
(* files', and every other step of a look keeps what it read in step with   *)
(* it.                                                                      *)
LEMMA RenewalNext == Renewal /\ [CE!Next]_CE!vars => Renewal'
  <1> SUFFICES ASSUME Renewal, [CE!Next]_CE!vars PROVE Renewal'
    OBVIOUS
  <1> USE DEF Renewal
  <1>1. ASSUME NEW f \in {"cert", "key"}, NEW v, CE!Write(f, v) PROVE Renewal'
    <2>1. /\ file'[f].writes = file[f].writes + 1
          /\ \A g \in {"cert", "key"} : g # f => file'[g] = file[g]
          /\ file' = [g \in {"cert", "key"} |-> file'[g]]
      BY <1>1, Zenon DEF CE!Write, CertTypes
    <2>2. CertTypes'
      <3>1. file'["cert"].writes \in Nat /\ file'["key"].writes \in Nat
        BY <1>1, <2>1 DEF CertTypes
      <3>2. stamp'[1] <= file'["cert"].writes /\ stamp'[2] <= file'["key"].writes
        BY <1>1, <2>1 DEF CE!Write, CertTypes
      <3> QED
        BY <1>1, <2>1, <3>1, <3>2 DEF CE!Write, CertTypes
    <2>3. ~OwnStamp'
      BY <1>1, <2>1 DEF CE!Write, CertTypes, OwnStamp
    <2>4. CertRead'
      BY <1>1, <2>1, <2>3 DEF CE!Write, CertTypes, CertRead
    <2> QED
      BY <2>2, <2>4
  <1>2. CASE CE!StampCert
    <2>1. look.step = "idle" /\ look' = [step |-> "stamp", cert |-> file["cert"].writes, key |-> 0]
      BY <1>2, Zenon DEF CE!StampCert, CE!Idle
    <2>2. CertTypes'
      BY <1>2, <2>1, Zenon DEF CE!StampCert, CertTypes
    <2>3. CertRead'
      BY <1>2, <2>1 DEF CE!StampCert, CertTypes, CertRead, OwnStamp, Whole
    <2> QED
      BY <2>2, <2>3
  <1>3. CASE CE!Compare
    BY <1>3
       DEF CE!Compare, CE!CompareWith, CE!Changed, CertTypes, CertRead, OwnStamp, Whole, CE!Idle
  <1>4. CASE CE!LoadCert
    BY <1>4, Zenon DEF CE!LoadCert, CertTypes, CertRead, OwnStamp, Whole
  <1>5. CASE CE!LoadKey
    BY <1>5 DEF CE!LoadKey, CertTypes, CertRead, OwnStamp, Whole, CE!Belong, CE!Idle, CE!Unseen
  <1>6. CASE CE!Restart
    <2>1. stamp' = <<-1, -1>> /\ stamp' \in Int \X Int
      BY <1>6 DEF CE!Restart, CE!Unseen
    <2>2. CertTypes'
      BY <1>6, <2>1 DEF CE!Restart, CertTypes, CE!Idle
    <2>3. ~OwnStamp'
      BY <1>6, <2>1 DEF CE!Restart, CertTypes, OwnStamp
    <2>4. CertRead'
      BY <1>6, <2>3 DEF CE!Restart, CertRead, CE!Idle
    <2> QED
      BY <2>2, <2>4
  <1>7. CASE UNCHANGED CE!vars
    BY <1>7 DEF CE!vars, CertTypes, CertRead, OwnStamp, Whole
  <1> QED
    BY <1>1, <1>2, <1>3, <1>4, <1>5, <1>6, <1>7 DEF CE!Next

(* Whatever is written to the two files and whenever, the certificate is    *)
(* the files' own after a look that nothing was written during              *)
(* (CertificateKeepsUp; https.rs reload_if_changed).                        *)
THEOREM RenewalIsServed == CE!Spec => []CertificateKeepsUp
  <1>1. Renewal => CertificateKeepsUp
    BY DEF Renewal, CertRead, Whole, CertificateKeepsUp, CE!CertificateKeepsUp
  <1> QED
    BY <1>1, RenewalInit, RenewalNext, PTL DEF CE!Spec

------------------------------------------------------------------------------
(****************************************************************************)
(* Listener.  A permit is in the cell exactly while the accept task runs    *)
(* the handshake or the request cycle, in the session exactly while its     *)
(* setup runs, and never in both.                                           *)
(****************************************************************************)

(* The steps of a session that hold its setup permit.                       *)
SettingUp == {"upgrading", "handed", "broken", "setup"}

(* The connections that take a place.                                       *)
Counted(h, w) == {c \in Conn : h[c] \in {"tls", "serving"} \/ w[c] \in SettingUp}

(* Where each connection's permit is.                                       *)
PermitsHeld ==
    /\ free \in Nat
    /\ http \in [Conn -> LI!Http] /\ ws \in [Conn -> LI!Ws]
    /\ cell \in [Conn -> BOOLEAN] /\ setup \in [Conn -> BOOLEAN]
    /\ \A c \in Conn : /\ cell[c] <=> http[c] \in {"tls", "serving"}
                       /\ setup[c] <=> ws[c] \in SettingUp
                       /\ http[c] \in {"tls", "serving"} => ws[c] = "none"

Places == PermitsHeld /\ free + Cardinality(Counted(http, ws)) = max_connections

(* The listener counts with the same Cardinality.                           *)
LEMMA SameCardinality == \A S : LI!Cardinality(S) = Cardinality(S)
  BY DEF LI!Cardinality, Cardinality

(* A set of connections is finite, and one element changes its size by one. *)
LEMMA CountByOne ==
    ASSUME NEW S \in SUBSET Conn, NEW c \in Conn
    PROVE /\ Cardinality(S) \in Nat
          /\ c \notin S => Cardinality(S \cup {c}) = Cardinality(S) + 1
          /\ c \in S => Cardinality(S \ {c}) = Cardinality(S) - 1
  <1>1. IsFiniteSet(S)
    BY ListenerAssumption, FS_Subset
  <1> QED
    BY <1>1, FS_CardinalityType, FS_AddElement, FS_RemoveElement

(* What is counted are connections.                                         *)
LEMMA CountedConn == ASSUME NEW h, NEW w PROVE Counted(h, w) \in SUBSET Conn
  BY DEF Counted

(* Every place is free at the start.                                        *)
LEMMA PlacesInit == LI!Init => Places
  <1> SUFFICES ASSUME LI!Init PROVE Places
    OBVIOUS
  <1>1. Counted(http, ws) = {}
    BY DEF LI!Init, Counted, SettingUp
  <1> QED
    BY <1>1, FS_EmptySet, ListenerAssumption
       DEF LI!Init, Places, PermitsHeld, SettingUp, LI!Http, LI!Ws

(* Accepting takes a place, an end or an established session gives it back, *)
(* and a hand-over moves it: each changes the count by as much.             *)
LEMMA PlacesNext == Places /\ [LI!Next]_LI!vars => Places'
  <1> SUFFICES ASSUME Places, [LI!Next]_LI!vars PROVE Places'
    OBVIOUS
  <1>n. Cardinality(Counted(http, ws)) \in Nat /\ max_connections \in Nat
    BY CountByOne, CountedConn, ListenerAssumption, Zenon
  <1>u. CASE UNCHANGED LI!vars
    BY <1>u DEF Places, PermitsHeld, LI!vars, Counted
  <1>a. CASE LI!Next
    <2> PICK c \in Conn :
            \/ LI!Accept(c) \/ LI!TlsDone(c) \/ LI!HttpEnds(c)
            \/ LI!Upgrade(c) \/ LI!HandOver(c, "handed") \/ LI!HandOver(c, "broken")
            \/ LI!Run(c) \/ LI!WsEnds(c) \/ LI!Establish(c)
      BY <1>a DEF LI!Next
    <2>1. CASE LI!Accept(c)
      <3>1. c \notin Counted(http, ws) /\ Counted(http', ws') = Counted(http, ws) \cup {c}
        BY <2>1 DEF LI!Accept, Places, PermitsHeld, Counted, SettingUp
      <3>2. Cardinality(Counted(http', ws')) = Cardinality(Counted(http, ws)) + 1
        BY <3>1, CountByOne, CountedConn
      <3>p. PermitsHeld'
        BY <1>n, <2>1, <3>2 DEF LI!Accept, Places, PermitsHeld, LI!Http, LI!Ws, SettingUp
      <3>f. free' = free - 1 /\ free \in Nat
        BY <2>1 DEF LI!Accept, Places, PermitsHeld
      <3> QED
        BY <1>n, <3>2, <3>p, <3>f DEF Places
    <2>2. CASE LI!TlsDone(c)
      <3>1. Counted(http', ws') = Counted(http, ws)
        BY <2>2 DEF LI!TlsDone, Places, PermitsHeld, Counted
      <3>p. PermitsHeld'
        BY <2>2, <3>1 DEF LI!TlsDone, Places, PermitsHeld, LI!Http, LI!Ws, SettingUp
      <3> QED
        BY <2>2, <3>1, <3>p DEF LI!TlsDone, Places
    <2>3. CASE LI!HttpEnds(c)
      <3>1. c \in Counted(http, ws) /\ Counted(http', ws') = Counted(http, ws) \ {c}
        BY <2>3 DEF LI!HttpEnds, Places, PermitsHeld, Counted, SettingUp
      <3>2. Cardinality(Counted(http', ws')) = Cardinality(Counted(http, ws)) - 1
        BY <3>1, CountByOne, CountedConn
      <3>p. PermitsHeld'
        BY <1>n, <2>3, <3>2 DEF LI!HttpEnds, Places, PermitsHeld, LI!Http, LI!Ws, SettingUp
      <3>f. free' = free + 1 /\ free \in Nat
        BY <2>3 DEF LI!HttpEnds, Places, PermitsHeld
      <3> QED
        BY <1>n, <3>2, <3>p, <3>f DEF Places
    <2>4. CASE LI!Upgrade(c)
      <3>1. Counted(http', ws') = Counted(http, ws)
        BY <2>4 DEF LI!Upgrade, Places, PermitsHeld, Counted, SettingUp
      <3>p. PermitsHeld'
        BY <2>4, <3>1 DEF LI!Upgrade, Places, PermitsHeld, LI!Http, LI!Ws, SettingUp
      <3> QED
        BY <2>4, <3>1, <3>p DEF LI!Upgrade, Places
    <2>5. ASSUME NEW result \in {"handed", "broken"}, LI!HandOver(c, result) PROVE Places'
      <3>1. Counted(http', ws') = Counted(http, ws)
        BY <2>5 DEF LI!HandOver, Places, PermitsHeld, Counted, SettingUp
      <3>2. ~cell[c]
        BY <2>5 DEF LI!HandOver, Places, PermitsHeld
      <3>p. PermitsHeld'
        BY <2>5, <3>1, <3>2 DEF LI!HandOver, Places, PermitsHeld, LI!Http, LI!Ws, SettingUp
      <3>f. free' = free /\ free \in Nat
        BY <2>5, <3>2 DEF LI!HandOver, Places, PermitsHeld
      <3> QED
        BY <1>n, <3>1, <3>p, <3>f DEF Places
    <2>6. CASE LI!Run(c)
      <3>1. Counted(http', ws') = Counted(http, ws)
        BY <2>6 DEF LI!Run, Places, PermitsHeld, Counted, SettingUp
      <3>p. PermitsHeld'
        BY <2>6, <3>1 DEF LI!Run, Places, PermitsHeld, LI!Http, LI!Ws, SettingUp
      <3> QED
        BY <2>6, <3>1, <3>p DEF LI!Run, Places
    <2>7. CASE LI!WsEnds(c)
      <3>1. CASE setup[c]
        <4>1. c \in Counted(http, ws) /\ Counted(http', ws') = Counted(http, ws) \ {c}
          BY <2>7, <3>1 DEF LI!WsEnds, Places, PermitsHeld, Counted, SettingUp
        <4>2. Cardinality(Counted(http', ws')) = Cardinality(Counted(http, ws)) - 1
          BY <4>1, CountByOne, CountedConn
        <4>p. PermitsHeld'
          BY <1>n, <2>7, <3>1, <4>2 DEF LI!WsEnds, Places, PermitsHeld, LI!Http, LI!Ws, SettingUp
        <4>f. free' = free + 1 /\ free \in Nat
          BY <2>7, <3>1 DEF LI!WsEnds, Places, PermitsHeld
        <4> QED
          BY <1>n, <4>2, <4>p, <4>f DEF Places
      <3>2. CASE ~setup[c]
        <4>1. Counted(http', ws') = Counted(http, ws)
          BY <2>7, <3>2 DEF LI!WsEnds, Places, PermitsHeld, Counted, SettingUp
        <4>p. PermitsHeld'
          BY <2>7, <3>2, <4>1 DEF LI!WsEnds, Places, PermitsHeld, LI!Http, LI!Ws, SettingUp
        <4>f. free' = free /\ free \in Nat
          BY <2>7, <3>2 DEF LI!WsEnds, Places, PermitsHeld
        <4> QED
          BY <1>n, <4>1, <4>p, <4>f DEF Places
      <3> QED
        BY <3>1, <3>2
    <2>8. CASE LI!Establish(c)
      <3>1. c \in Counted(http, ws) /\ Counted(http', ws') = Counted(http, ws) \ {c} /\ setup[c]
        BY <2>8 DEF LI!Establish, Places, PermitsHeld, Counted, SettingUp
      <3>2. Cardinality(Counted(http', ws')) = Cardinality(Counted(http, ws)) - 1
        BY <3>1, CountByOne, CountedConn
      <3>p. PermitsHeld'
        BY <1>n, <2>8, <3>1, <3>2 DEF LI!Establish, Places, PermitsHeld, LI!Http, LI!Ws, SettingUp
      <3>f. free' = free + 1 /\ free \in Nat
        BY <2>8, <3>1 DEF LI!Establish, Places, PermitsHeld
      <3> QED
        BY <1>n, <3>2, <3>p, <3>f DEF Places
    <2> QED
      BY <2>1, <2>2, <2>3, <2>4, <2>5, <2>6, <2>7, <2>8
  <1> QED
    BY <1>u, <1>a

(* Every place is either free or taken by one connection that counts, for   *)
(* any number of connections and any limit (PlacesAccounted; server.rs      *)
(* accept_loop, web.rs ConnectionPermit).                                   *)
THEOREM NoPlaceIsLost == LI!Spec => []PlacesAccounted
  <1>1. Places => PlacesAccounted
    <2> SUFFICES ASSUME Places PROVE PlacesAccounted
      OBVIOUS
    <2>1. {c \in Conn : LI!Counts(c)} = Counted(http, ws)
      BY DEF Places, PermitsHeld, Counted, LI!Counts, LI!Ws, SettingUp
    <2> QED
      BY <2>1, SameCardinality DEF Places, PlacesAccounted, LI!PlacesAccounted
  <1> QED
    BY <1>1, PlacesInit, PlacesNext, PTL DEF LI!Spec

------------------------------------------------------------------------------
(****************************************************************************)
(* Schema.  A copy is named by the version it holds, what the database's    *)
(* own version last served is in the database, and while it is migrated the *)
(* version it leaves has its copy.                                          *)
(****************************************************************************)

(* A copy is torn, or whole and of the version it is named by.              *)
CopyOf(n, c) == c = SC!Torn \/ (c = [version |-> n[1], rows |-> c.rows] /\ c.rows \in Nat)

(* A whole copy of d is among the copies.                                   *)
Beside(cs, d) == \E n \in DOMAIN cs : cs[n] = d

(* n is the newest copy of its version.                                     *)
Newest(cs, n) == n \in DOMAIN cs /\ \A o \in DOMAIN cs : o[1] = n[1] => o[2] <= n[2]

(* The types, and that no copy is named by a second to come.                *)
SchemaTypes ==
    /\ db = [version |-> db.version, rows |-> db.rows] /\ db.version \in Nat /\ db.rows \in Nat
    /\ second \in Nat /\ build \in Nat
    /\ step \in {"down", "open", "copy", "migrate", "serving"}
    /\ step # "down" => build \in Build
    /\ served \in [Build -> Int]
    /\ copies = [n \in DOMAIN copies |-> copies[n]]
    /\ \A n \in DOMAIN copies : n \in Nat \X Nat /\ n[2] <= second /\ CopyOf(n, copies[n])

(* What a build served last, below the database's version, has its copy.    *)
Kept ==
    \A v \in Build : served[v] # -1 /\ db.version > v =>
                         Beside(copies, [version |-> v, rows |-> served[v]])

(* Nothing is served above the database's version, and what its own version *)
(* served last is in it.                                                    *)
Served ==
    /\ \A v \in Build : v > db.version => served[v] = -1
    /\ db.version \in Build => served[db.version] \in {-1, db.rows}

(* What holds at each step of open_serving.                                 *)
Opening ==
    /\ step = "copy" => /\ db.version < build
                        /\ \E n \in DOMAIN copies : n[1] = db.version /\ Newest(copies, n)
    /\ step = "migrate" => /\ db.version <= build
                           /\ db.version \in Build /\ db.version < build /\ served[db.version] # -1
                                => Beside(copies, db)
    /\ step = "serving" => db.version = build

Rollback == SchemaTypes /\ Kept /\ Served /\ Opening

(* Before the first start nothing was served and nothing copied.            *)
LEMMA RollbackInit == SC!Init => Rollback
  BY SchemaAssumption DEF SC!Init, Rollback, SchemaTypes, Kept, Served, Opening, SC!Nothing

(* Starts, copies whole or torn, migrations, crashes and roll-backs keep    *)
(* what every build served last.                                            *)
LEMMA RollbackNext == Rollback /\ [SC!Next]_SC!vars => Rollback'
  <1> SUFFICES ASSUME Rollback, [SC!Next]_SC!vars PROVE Rollback'
    OBVIOUS
  <1> USE SchemaAssumption DEF Rollback
  <1>1. ASSUME NEW b \in Build, SC!Start(b) PROVE Rollback'
    BY <1>1 DEF SC!Start, SchemaTypes, Kept, Served, Opening
  <1>2. CASE SC!OpenRefused
    BY <1>2 DEF SC!OpenRefused, SchemaTypes, Kept, Served, Opening
  <1>3. CASE SC!StartCopy
    <2> DEFINE name == <<db.version, second>>
    <2>1. /\ name \notin DOMAIN copies /\ DOMAIN copies' = DOMAIN copies \cup {name}
          /\ copies' = [n \in DOMAIN copies' |-> copies'[n]]
          /\ copies'[name] = SC!Torn /\ \A n \in DOMAIN copies : copies'[n] = copies[n]
          /\ name \in Nat \X Nat /\ name[1] = db.version /\ name[2] = second
      BY <1>3 DEF SC!StartCopy, SC!Put, SC!CopyName, SchemaTypes
    <2>2. /\ db.version < build /\ build \in Build
          /\ step' = "copy" /\ UNCHANGED <<db, build, second, served>>
      BY <1>3 DEF SC!StartCopy, SC!NeedsCopy, SchemaTypes
    <2> HIDE DEF name
    <2>3. SchemaTypes'
      BY <2>1, <2>2 DEF SchemaTypes, CopyOf
    <2>4. \A d : Beside(copies, d) => Beside(copies', d)
      BY <2>1 DEF Beside
    <2>5. Newest(copies', name)
      BY <2>1, <2>2 DEF Newest, SchemaTypes
    <2> QED
      BY <2>1, <2>2, <2>3, <2>4, <2>5 DEF Kept, Served, Opening
  <1>4. CASE SC!FinishCopy
    <2> DEFINE mine == CHOOSE n \in DOMAIN copies :
                          n[1] = db.version /\ \A o \in DOMAIN copies : o[1] = n[1] => o[2] <= n[2]
    <2>1. mine \in DOMAIN copies /\ mine[1] = db.version
      BY <1>4 DEF SC!FinishCopy, Opening, Newest
    <2>2. copies' = [copies EXCEPT ![mine] = db] /\ step = "copy" /\ step' = "migrate"
          /\ UNCHANGED <<db, build, second, served>>
      BY <1>4 DEF SC!FinishCopy
    <2> HIDE DEF mine
    <2>3. /\ DOMAIN copies' = DOMAIN copies /\ copies' = [n \in DOMAIN copies' |-> copies'[n]]
          /\ copies'[mine] = db /\ \A n \in DOMAIN copies : n # mine => copies'[n] = copies[n]
      BY <2>1, <2>2, Zenon DEF SchemaTypes
    <2>4. SchemaTypes'
      BY <2>1, <2>2, <2>3 DEF SchemaTypes, CopyOf
    <2>5. Kept'
      <3> SUFFICES ASSUME NEW v \in Build, served[v] # -1, db.version > v
                   PROVE Beside(copies', [version |-> v, rows |-> served[v]])
        BY <2>2, Zenon DEF Kept
      <3>1. PICK n \in DOMAIN copies : copies[n] = [version |-> v, rows |-> served[v]]
        BY Zenon DEF Kept, Beside
      <3>2. n[1] = v
        BY <3>1 DEF SchemaTypes, CopyOf, SC!Torn, SC!Nothing
      <3> QED
        BY <2>1, <2>3, <3>1, <3>2 DEF Beside
    <2> QED
      BY <2>1, <2>2, <2>3, <2>4, <2>5 DEF Served, Opening, Beside, SchemaTypes
  <1>5. CASE SC!OpenAsIs
    BY <1>5 DEF SC!OpenAsIs, SC!NeedsCopy, SchemaTypes, Kept, Served, Opening
  <1>6. CASE SC!Migrate
    <2>1. /\ db' = [version |-> db.version + 1, rows |-> db.rows] /\ step = "migrate"
          /\ db.version < build /\ UNCHANGED <<copies, build, step, second, served>>
      BY <1>6 DEF SC!Migrate, SchemaTypes
    <2>2. SchemaTypes'
      BY <2>1 DEF SchemaTypes
    <2>3. Kept'
      BY <2>1 DEF Kept, Served, Opening, SchemaTypes
    <2> QED
      BY <2>1, <2>2, <2>3 DEF Served, Opening, SchemaTypes
  <1>7. CASE SC!Serve
    BY <1>7 DEF SC!Serve, SchemaTypes, Kept, Served, Opening
  <1>8. CASE SC!Change
    <2>1. /\ db' = [version |-> db.version, rows |-> db.rows + 1] /\ step = "serving"
          /\ served' = [served EXCEPT ![build] = db.rows + 1]
          /\ UNCHANGED <<copies, build, step, second>>
      BY <1>8 DEF SC!Change, SchemaTypes
    <2> QED
      BY <2>1 DEF SchemaTypes, Kept, Served, Opening
  <1>9. CASE SC!Crash
    BY <1>9 DEF SC!Crash, SchemaTypes, Kept, Served, Opening
  <1>10. ASSUME NEW n \in DOMAIN copies, SC!RollBack(n) PROVE Rollback'
    <2>1. /\ copies[n] = [version |-> n[1], rows |-> copies[n].rows]
          /\ copies[n].rows \in Nat /\ n[1] \in Nat /\ n[1] < db.version
      BY <1>10 DEF SC!RollBack, SchemaTypes, CopyOf
    <2>2. /\ db' = [version |-> n[1], rows |-> copies[n].rows]
          /\ served' = [b \in Build |-> IF b < n[1] THEN served[b]
                                        ELSE IF b = n[1] THEN copies[n].rows ELSE -1]
          /\ step = "down" /\ UNCHANGED <<copies, build, step, second>>
      BY <1>10, <2>1 DEF SC!RollBack, SC!Nothing
    <2> QED
      BY <2>1, <2>2 DEF SchemaTypes, Kept, Served, Opening
  <1>11. CASE SC!Tick
    BY <1>11 DEF SC!Tick, SchemaTypes, Kept, Served, Opening
  <1>12. CASE UNCHANGED SC!vars
    BY <1>12 DEF SC!vars, SchemaTypes, Kept, Served, Opening
  <1> QED
    BY <1>1, <1>2, <1>3, <1>4, <1>5, <1>6, <1>7, <1>8, <1>9, <1>10, <1>11, <1>12 DEF SC!Next

(* For any set of builds, however upgrades, crashes, copies and roll-backs  *)
(* follow each other, what a build last served is in the database or in a   *)
(* whole copy beside it (RollbackKept; store.rs open_serving).              *)
THEOREM RollbackIsKept == SC!Spec => []RollbackKept
  <1>1. Rollback => RollbackKept
    BY DEF Rollback, Kept, Beside, RollbackKept, SC!RollbackKept, SC!Nothing
  <1> QED
    BY <1>1, RollbackInit, RollbackNext, PTL DEF SC!Spec

------------------------------------------------------------------------------
(****************************************************************************)
(* Standing.  The log of a check is a run of turns, and its length tells    *)
(* how the check stands.                                                    *)
(****************************************************************************)

(* A log that begins with failing and alternates.                           *)
Turns(log) ==
    /\ log \in Seq({"failing", "restored"})
    /\ \A i \in 1..Len(log) : log[i] = (IF i % 2 = 1 THEN "failing" ELSE "restored")

(* How the scanner's check stands.                                          *)
ScanFails(h) == h.checked /\ ~h.ok

Logged ==
    /\ DOMAIN entries = {"revocation", "scan"}
    /\ entries = [c \in {"revocation", "scan"} |-> entries[c]]
    /\ Turns(entries["revocation"]) /\ Turns(entries["scan"])
    /\ error <=> Len(entries["revocation"]) % 2 = 1
    /\ ScanFails(health) <=> Len(entries["scan"]) % 2 = 1

(* A run of turns goes on with the entry whose turn it is.                  *)
LEMMA TurnTaken ==
    ASSUME NEW log, Turns(log), NEW what,
           what = IF Len(log) % 2 = 1 THEN "restored" ELSE "failing"
    PROVE Turns(log \o <<what>>) /\ (Len(log \o <<what>>) % 2 = 1 <=> ~(Len(log) % 2 = 1))
  <1>1. /\ log \o <<what>> \in Seq({"failing", "restored"})
        /\ Len(log \o <<what>>) = Len(log) + 1 /\ Len(log) \in Nat
        /\ \A i \in 1..Len(log) : (log \o <<what>>)[i] = log[i]
        /\ (log \o <<what>>)[Len(log) + 1] = what
    BY DEF Turns
  <1>2. \A n \in Nat : (n + 1) % 2 = 1 <=> ~(n % 2 = 1)
    OBVIOUS
  <1> QED
    <2> DEFINE more == log \o <<what>>
    <2>1. \A i \in 1..Len(more) : i \in 1..Len(log) \/ i = Len(log) + 1
      BY <1>1
    <2>2. Len(more) % 2 = 1 <=> ~(Len(log) % 2 = 1)
      BY <1>1, <1>2
    <2>3. \A i \in 1..Len(more) : more[i] = (IF i % 2 = 1 THEN "failing" ELSE "restored")
      BY <1>1, <2>1, <2>2 DEF Turns
    <2> QED
      BY <1>1, <2>2, <2>3 DEF Turns

(* Nothing written leaves a log as it is.                                   *)
LEMMA NoTurn == ASSUME NEW log, Turns(log) PROVE log \o <<>> = log
  BY DEF Turns

(* Nothing is logged, and both checks stand well.                           *)
LEMMA LoggedInit == ST!Init => Logged
  BY DEF ST!Init, Logged, Turns, ScanFails, ST!Checks, ST!Unchecked

(* A check that goes the other way writes the entry whose turn it is, and   *)
(* one that goes the same way writes none.                                  *)
LEMMA LoggedNext == Logged /\ [ST!Next]_ST!vars => Logged'
  <1> SUFFICES ASSUME Logged, [ST!Next]_ST!vars PROVE Logged'
    OBVIOUS
  <1>1. ASSUME NEW outcome \in ST!Outcome, ST!DirectoryCheck(outcome) PROVE Logged'
    <2> DEFINE log == entries["revocation"]
               r == ST!RecordRevocation(outcome)
    <2>1. /\ entries' = [entries EXCEPT !["revocation"] = @ \o r.written]
          /\ error' = r.error /\ health' = health
      BY <1>1 DEF ST!DirectoryCheck, ST!Audit
    <2>2. /\ entries'["revocation"] = log \o r.written /\ entries'["scan"] = entries["scan"]
          /\ DOMAIN entries' = {"revocation", "scan"}
          /\ entries' = [c \in {"revocation", "scan"} |-> entries'[c]]
      BY <2>1, Zenon DEF Logged
    <2>3. \/ r.written = <<>> /\ (r.error <=> error)
          \/ r.written = <<IF error THEN "restored" ELSE "failing">> /\ (r.error <=> ~error)
      BY DEF ST!RecordRevocation
    <2> HIDE DEF r
    <2>4. Turns(log \o r.written) /\ (r.error <=> Len(log \o r.written) % 2 = 1)
      <3>1. CASE r.written = <<>> /\ (r.error <=> error)
        BY <3>1, NoTurn DEF Logged
      <3>2. CASE r.written = <<IF error THEN "restored" ELSE "failing">> /\ (r.error <=> ~error)
        BY <3>2, TurnTaken DEF Logged
      <3> QED
        BY <2>3, <3>1, <3>2, Zenon
    <2> QED
      BY <2>1, <2>2, <2>4, Zenon DEF Logged
  <1>2. ASSUME NEW ok \in BOOLEAN, ST!ScanCheck(ok) PROVE Logged'
    <2> DEFINE log == entries["scan"]
               now == ST!Check(ok)
               written == ST!Transition(health, now)
    <2>1. /\ entries' = [entries EXCEPT !["scan"] = @ \o written]
          /\ error' = error /\ health' = now
      BY <1>2 DEF ST!ScanCheck, ST!Audit
    <2>2. /\ entries'["scan"] = log \o written /\ entries'["revocation"] = entries["revocation"]
          /\ DOMAIN entries' = {"revocation", "scan"}
          /\ entries' = [c \in {"revocation", "scan"} |-> entries'[c]]
      BY <2>1, Zenon DEF Logged
    <2>3. \/ written = <<>> /\ (ScanFails(now) <=> ScanFails(health))
          \/ /\ written = <<IF ScanFails(health) THEN "restored" ELSE "failing">>
             /\ ScanFails(now) <=> ~ScanFails(health)
      BY DEF ST!Transition, ST!Check, ScanFails
    <2> HIDE DEF written, now
    <2>4. Turns(log \o written) /\ (ScanFails(now) <=> Len(log \o written) % 2 = 1)
      <3>1. CASE written = <<>> /\ (ScanFails(now) <=> ScanFails(health))
        BY <3>1, NoTurn DEF Logged
      <3>2. CASE /\ written = <<IF ScanFails(health) THEN "restored" ELSE "failing">>
                 /\ ScanFails(now) <=> ~ScanFails(health)
        BY <3>2, TurnTaken DEF Logged
      <3> QED
        BY <2>3, <3>1, <3>2, Zenon
    <2> QED
      BY <2>1, <2>2, <2>4 DEF Logged
  <1>3. CASE ST!Restart
    BY <1>3 DEF ST!Restart, Logged, Turns, ScanFails, ST!Checks, ST!Unchecked
  <1>4. CASE UNCHANGED ST!vars
    BY <1>4 DEF ST!vars, Logged, ScanFails
  <1> QED
    BY <1>1, <1>2, <1>3, <1>4 DEF ST!Next

(* The error flag stays a Boolean.                                             *)
LEMMA ErrorType ==
    /\ ST!Init => error \in BOOLEAN
    /\ error \in BOOLEAN /\ [ST!Next]_ST!vars => (error \in BOOLEAN)'
  <1>1. ASSUME error \in BOOLEAN, NEW outcome PROVE ST!RecordRevocation(outcome).error \in BOOLEAN
    <2>1. ST!RecordRevocation(outcome).error \in {error, TRUE, FALSE}
      BY SMT DEF ST!RecordRevocation
    <2> QED
      BY <1>1, <2>1, Zenon
  <1>2. ASSUME error \in BOOLEAN, [ST!Next]_ST!vars PROVE error' \in BOOLEAN
    BY <1>1, <1>2, Zenon DEF ST!Next, ST!vars, ST!DirectoryCheck, ST!ScanCheck, ST!Restart
  <1> QED
    BY <1>2, Zenon DEF ST!Init

(* However the two checks go, the log holds each change of standing once,   *)
(* and its last entry is how the check stands (ChangesLoggedOnce; server.rs *)
(* record_revocation, scan/mod.rs transition).                              *)
THEOREM EveryChangeIsLogged == ST!Spec => []ChangesLoggedOnce
  <1>1. Logged /\ error \in BOOLEAN => ChangesLoggedOnce
    <2> SUFFICES ASSUME Logged, error \in BOOLEAN PROVE ChangesLoggedOnce
      OBVIOUS
    <2>1. error = (Len(entries["revocation"]) % 2 = 1)
      BY Zenon DEF Logged
    <2>2. (health.checked /\ ~health.ok) = (Len(entries["scan"]) % 2 = 1)
      BY Zenon DEF Logged, ScanFails
    <2>3. \A c \in {"revocation", "scan"} : \A i \in DOMAIN entries[c] :
             entries[c][i] = (IF i % 2 = 1 THEN "failing" ELSE "restored")
      BY DEF Logged, Turns
    <2> QED
      BY <2>1, <2>2, <2>3, Zenon DEF ChangesLoggedOnce, ST!ChangesLoggedOnce, ST!Checks
  <1> QED
    BY <1>1, LoggedInit, LoggedNext, ErrorType, PTL DEF ST!Spec

------------------------------------------------------------------------------
(****************************************************************************)
(* Imports.  A change that was compared holds the gate shared and names the *)
(* database in place; the import under way holds it alone; and the newest   *)
(* backup is its own.                                                       *)
(****************************************************************************)
Alone(r) == job[r].step \in {"backup", "replace"}

(* Who is in the gate, and what was compared there.                         *)
Gated ==
    /\ job \in [GateRequest -> [op : IM!Op, step : IM!Step, names : Int]]
    /\ inst \in Nat /\ uploads \in Nat
    /\ writer # NoOne => readers = {}
    /\ \A r \in GateRequest :
          /\ r \in readers => job[r].op # "confirm" /\ job[r].step \in {"in", "checked"}
          /\ r = writer => job[r].op = "confirm" /\ (job[r].step = "in" \/ Alone(r))
          /\ job[r].step = "checked" => r \in readers /\ job[r].names = inst
          /\ Alone(r) => r = writer
    /\ misapplied = FALSE

(* Stamps differ and are not ahead; what was replaced last is kept; an      *)
(* import at its swap has the newest backup.                                *)
Backups ==
    /\ seconds \in Int /\ replaced \in Int /\ replaced < inst
    /\ \A b \in backups : b.stamp \in Int /\ b.stamp <= seconds
    /\ \A b, c \in backups : b.stamp = c.stamp => b = c
    /\ replaced >= 0 => \E b \in backups : b.of = replaced
    /\ \A r \in GateRequest : job[r].step = "replace" =>
          \E b \in backups : b.of = inst /\ \A c \in backups : c.stamp <= b.stamp

(* No request is under way, nothing was replaced.                           *)
LEMMA ImportsInit == IM!Init => Gated /\ Backups
  BY ImportsAssumption DEF IM!Init, IM!NoJob, IM!Op, IM!Step, Gated, Backups, Alone

(* A request leaves the gate.                                               *)
LEMMA LeaveKeeps ==
    ASSUME Gated, NEW r \in GateRequest, IM!Leave(r), inst' \in Nat, uploads' \in Nat,
           misapplied' = FALSE,
           inst' = inst \/ readers = {}
    PROVE Gated'
  BY ImportsAssumption DEF Gated, IM!Leave, IM!NoJob, IM!Op, IM!Step, Alone

(* Each step of a change, an upload or an import keeps the gate's readers,  *)
(* its writer and what was compared under it.                               *)
LEMMA GatedNext == Gated /\ [IM!Next]_IM!vars => Gated'
  <1> SUFFICES ASSUME Gated, [IM!Next]_IM!vars PROVE Gated'
    OBVIOUS
  <1> USE ImportsAssumption
  <1>1. ASSUME NEW r \in GateRequest, NEW op \in IM!Op \ {"none"}, IM!Arrive(r, op) PROVE Gated'
    <2>1. PICK names \in Int :   \* an instance, 0, or an upload
             /\ job' = [job EXCEPT ![r] = [op |-> op, step |-> "body", names |-> names]]
             /\ job[r] = IM!NoJob /\ UNCHANGED <<readers, writer, inst, uploads, misapplied>>
      <3> DEFINE Ids == CASE op = "change" -> 0..inst
                          [] op = "upload" -> {0}
                          [] OTHER -> 1..uploads
      <3>1. Ids \subseteq Int
        <4>1. CASE op = "change"
          BY <4>1 DEF Gated
        <4>2. CASE op = "upload"
          BY <4>2
        <4>3. CASE op \notin {"change", "upload"}
          BY <4>3 DEF Gated
        <4> QED
          BY <4>1, <4>2, <4>3
      <3> QED
        BY <1>1, <3>1, Zenon DEF IM!Arrive, IM!gate, IM!files
    <2> QED
      BY <2>1 DEF Gated, IM!Op, IM!Step, IM!NoJob, Alone
  <1>2. ASSUME NEW r \in GateRequest, IM!Body(r) PROVE Gated'
    BY <1>2, Zenon DEF IM!Body, IM!ToStep, IM!files, Gated, IM!Op, IM!Step, Alone
  <1>3. ASSUME NEW r \in GateRequest, IM!GiveUp(r) PROVE Gated'
    <2>1. /\ job[r].step \in {"body", "queued"} /\ job' = [job EXCEPT ![r] = IM!NoJob]
          /\ UNCHANGED <<readers, writer, inst, uploads, misapplied>>
      BY <1>3 DEF IM!GiveUp, IM!files
    <2> QED
      BY <2>1 DEF Gated, IM!Op, IM!Step, IM!NoJob, Alone
  <1>4. ASSUME NEW r \in GateRequest, IM!Work(r) PROVE Gated'
    <2>1. CASE IM!CheckInstance(r)
      <3>1. CASE IM!InstanceMatches(r)
        BY <2>1, <3>1 DEF IM!CheckInstance, IM!InstanceMatches, IM!InGate, IM!Doing, IM!ToStep,
                          IM!gate, IM!files, Gated, IM!Op, IM!Step, Alone
      <3>2. CASE ~IM!InstanceMatches(r)
        BY <2>1, <3>2, LeaveKeeps, Zenon DEF IM!CheckInstance, IM!files, Gated
      <3> QED
        BY <3>1, <3>2
    <2>2. CASE IM!Change(r)
      <3>1. misapplied' = FALSE
        BY <2>2, Zenon DEF IM!Change, IM!Doing, Gated
      <3> QED
        BY <2>2, <3>1, LeaveKeeps, Zenon DEF IM!Change, IM!files, Gated
    <2>3. CASE IM!Upload(r)
      <3>1. uploads' \in Nat
        BY <2>3 DEF IM!Upload, Gated
      <3> QED
        BY <2>3, <3>1, LeaveKeeps, Zenon DEF IM!Upload, IM!files, Gated
    <2>4. CASE IM!UploadRefused(r)
      BY <2>4, LeaveKeeps, Zenon DEF IM!UploadRefused, IM!files, Gated
    <2>5. CASE IM!Cancel(r)
      BY <2>5, LeaveKeeps, Zenon DEF IM!Cancel, IM!files, Gated
    <2>6. CASE IM!Refuse(r)
      BY <2>6, LeaveKeeps, Zenon DEF IM!Refuse, IM!files, Gated
    <2>7. CASE IM!Backup(r)
      <3>1. CASE \E b \in backups : b.stamp = seconds
        BY <2>7, <3>1, LeaveKeeps, Zenon DEF IM!Backup, Gated
      <3>2. CASE ~\E b \in backups : b.stamp = seconds
        BY <2>7, <3>2 DEF IM!Backup, IM!Doing, IM!ToStep, IM!gate, Gated, IM!Op, IM!Step, Alone
      <3> QED
        BY <3>1, <3>2
    <2>8. CASE IM!Replace(r)
      <3>1. readers = {} /\ inst' \in Nat
        BY <2>8 DEF IM!Replace, IM!Doing, Gated, Alone
      <3> QED
        BY <2>8, <3>1, LeaveKeeps, Zenon DEF IM!Replace, Gated
    <2> QED
      BY <1>4, <2>1, <2>2, <2>3, <2>4, <2>5, <2>6, <2>7, <2>8 DEF IM!Work
  <1>5. ASSUME NEW r \in GateRequest, IM!StageFile(r) PROVE Gated'
    BY <1>5 DEF IM!StageFile, IM!InGate, IM!Doing, IM!ToStep, IM!gate, IM!files, Gated, IM!Op,
       IM!Step, Alone
  <1>6. ASSUME NEW r \in GateRequest, IM!ReplaceFails(r) PROVE Gated'
    BY <1>6, LeaveKeeps, Zenon DEF IM!ReplaceFails, Gated
  <1>7. CASE IM!Enter
    <2> DEFINE r == Head(waiting)
    <2>1. /\ job' = [job EXCEPT ![r] = [@ EXCEPT !.step = "in"]] /\ writer = NoOne
          /\ UNCHANGED <<inst, uploads, misapplied>>
          /\ \/ job[r].op # "confirm" /\ readers' = readers \cup {r} /\ UNCHANGED writer
             \/ job[r].op = "confirm" /\ readers = {} /\ writer' = r /\ UNCHANGED readers
      BY <1>7 DEF IM!Enter, IM!ToStep, IM!Shared, IM!files
    <2> HIDE DEF r
    <2> QED
      BY <2>1, Zenon DEF Gated, IM!Op, IM!Step, Alone
  <1>8. CASE IM!SweepPending
    BY <1>8 DEF IM!SweepPending, IM!gate, IM!files, Gated, Alone
  <1>9. CASE IM!Crash
    BY <1>9 DEF IM!Crash, Gated, IM!Op, IM!Step, IM!NoJob, Alone
  <1>10. CASE IM!SweepTemps
    BY <1>10 DEF IM!SweepTemps, IM!gate, Gated, Alone
  <1>11. CASE IM!Second
    BY <1>11 DEF IM!Second, IM!gate, IM!files, Gated, Alone
  <1>12. CASE UNCHANGED IM!vars
    BY <1>12 DEF IM!vars, IM!gate, IM!files, Gated, Alone
  <1> QED
    BY <1>1, <1>2, <1>3, <1>4, <1>5, <1>6, <1>7, <1>8, <1>9, <1>10, <1>11, <1>12 DEF IM!Next

(* What does not touch the backups keeps them, with no import at its swap   *)
(* that was not there.                                                      *)
LEMMA BackupsKept ==
    ASSUME Backups, UNCHANGED <<seconds, inst, replaced, backups>>,
           \A r \in GateRequest : job'[r].step = "replace" => job[r].step = "replace"
    PROVE Backups'
  BY DEF Backups

(* A newest backup, with stamps that differ, is the one Newest chooses.     *)
LEMMA NewestIs ==
    ASSUME Backups, NEW b \in backups, \A c \in backups : c.stamp <= b.stamp
    PROVE IM!Newest(backups) = b
  <1>1. IM!Newest(backups) \in backups /\ \A c \in backups : c.stamp <= IM!Newest(backups).stamp
    BY DEF IM!Newest
  <1> QED
    BY <1>1 DEF Backups

(* The newest backup survives the deletion of old ones.                     *)
LEMMA NewestStays ==
    ASSUME Backups, NEW b \in backups, \A c \in backups : c.stamp <= b.stamp
    PROVE b \in IM!Pruned(backups)
  <1>1. {c \in backups : c.stamp > b.stamp} = {}
    BY DEF Backups
  <1>2. IM!Cardinality({}) = 0
    BY FS_EmptySet DEF IM!Cardinality, Cardinality
  <1> QED
    BY <1>1, <1>2, ImportsAssumption DEF IM!Pruned

(* Each step keeps the backup of what the last import replaced, the         *)
(* deletion of old ones included.                                           *)
LEMMA BackupsNext == Gated /\ Backups /\ [IM!Next]_IM!vars => Backups'
  <1> SUFFICES ASSUME Gated, Backups, [IM!Next]_IM!vars PROVE Backups'
    OBVIOUS
  <1> USE ImportsAssumption
  <1>1. ASSUME NEW r \in GateRequest, NEW op \in IM!Op \ {"none"}, IM!Arrive(r, op) PROVE Backups'
    BY <1>1, BackupsKept DEF IM!Arrive, IM!files, Gated
  <1>2. ASSUME NEW r \in GateRequest, IM!Body(r) \/ IM!GiveUp(r) \/ IM!StageFile(r) PROVE Backups'
    BY <1>2, BackupsKept DEF IM!Body, IM!GiveUp, IM!StageFile, IM!ToStep, IM!files, IM!NoJob, Gated
  <1>3. ASSUME NEW r \in GateRequest, IM!CheckInstance(r) PROVE Backups'
    BY <1>3, BackupsKept DEF IM!CheckInstance, IM!ToStep, IM!Leave, IM!files, IM!NoJob, Gated
  <1>4. ASSUME NEW r \in GateRequest,
               IM!Change(r) \/ IM!Upload(r) \/ IM!UploadRefused(r) \/ IM!Cancel(r) \/ IM!Refuse(r)
        PROVE Backups'
    <2>1. CASE IM!Change(r)
      BY <2>1, BackupsKept DEF IM!Change, IM!Leave, IM!files, IM!NoJob, Gated
    <2>2. CASE IM!Upload(r) \/ IM!UploadRefused(r)
      BY <2>2, BackupsKept DEF IM!Upload, IM!UploadRefused, IM!Leave, IM!files, IM!NoJob, Gated
    <2>3. CASE IM!Cancel(r) \/ IM!Refuse(r)
      BY <2>3, BackupsKept DEF IM!Cancel, IM!Refuse, IM!Leave, IM!files, IM!NoJob, Gated
    <2> QED
      BY <1>4, <2>1, <2>2, <2>3
  <1>5. ASSUME NEW r \in GateRequest, IM!Backup(r) PROVE Backups'
    <2>1. CASE \E b \in backups : b.stamp = seconds
      BY <1>5, <2>1, BackupsKept DEF IM!Backup, IM!Leave, IM!NoJob, Gated
    <2>2. CASE ~\E b \in backups : b.stamp = seconds
      <3> DEFINE mine == [stamp |-> seconds, of |-> inst]
      <3>1. /\ backups' = backups \cup {mine} /\ mine.stamp = seconds /\ mine.of = inst
            /\ UNCHANGED <<seconds, inst, replaced>>
        BY <1>5, <2>2 DEF IM!Backup
      <3> HIDE DEF mine
      <3>2. \A c \in backups' : c.stamp <= mine.stamp
        BY <3>1 DEF Backups
      <3> QED
        BY <2>2, <3>1, <3>2 DEF Backups
    <2> QED
      BY <2>1, <2>2
  <1>6. ASSUME NEW r \in GateRequest, IM!ReplaceFails(r) PROVE Backups'
    <2>1. PICK b \in backups : b.of = inst /\ \A c \in backups : c.stamp <= b.stamp
      BY <1>6 DEF IM!ReplaceFails, IM!Doing, Backups
    <2>2. backups' = backups \ {b} /\ UNCHANGED <<seconds, inst, replaced>>
      BY <1>6, <2>1, NewestIs DEF IM!ReplaceFails
    <2>3. \A o \in GateRequest : job'[o].step # "replace"
      BY <1>6 DEF IM!ReplaceFails, IM!Doing, IM!Leave, IM!NoJob, Gated, Alone
    <2>4. replaced >= 0 => \E c \in backups' : c.of = replaced
      BY <2>1, <2>2 DEF Backups, Gated
    <2> QED
      BY <2>2, <2>3, <2>4 DEF Backups
  <1>7. ASSUME NEW r \in GateRequest, IM!Replace(r) PROVE Backups'
    <2>1. PICK b \in backups : b.of = inst /\ \A c \in backups : c.stamp <= b.stamp
      BY <1>7 DEF IM!Replace, IM!Doing, Backups
    <2>2. /\ backups' = IM!Pruned(backups) /\ inst' = inst + 1 /\ replaced' = inst
          /\ seconds' = seconds
      BY <1>7 DEF IM!Replace
    <2>3. b \in backups' /\ backups' \subseteq backups
      BY <2>1, <2>2, NewestStays DEF IM!Pruned
    <2>4. \A o \in GateRequest : job'[o].step # "replace"
      BY <1>7 DEF IM!Replace, IM!Doing, IM!Leave, IM!NoJob, Gated, Alone
    <2>5. inst \in Nat
      BY DEF Gated
    <2> QED
      BY <2>1, <2>2, <2>3, <2>4, <2>5 DEF Backups
  <1>8. CASE IM!Enter
    BY <1>8, BackupsKept DEF IM!Enter, IM!ToStep, IM!files, Gated
  <1>9. CASE IM!SweepPending \/ IM!SweepTemps
    BY <1>9, BackupsKept DEF IM!SweepPending, IM!SweepTemps, IM!files
  <1>10. CASE IM!Crash
    BY <1>10, BackupsKept DEF IM!Crash, IM!NoJob
  <1>11. CASE IM!Second
    BY <1>11 DEF IM!Second, IM!files, Backups
  <1>12. CASE UNCHANGED IM!vars
    BY <1>12, BackupsKept DEF IM!vars, IM!files
  <1> QED
    BY <1>1, <1>2, <1>3, <1>4, <1>5, <1>6, <1>7, <1>8, <1>9, <1>10, <1>11, <1>12
       DEF IM!Next, IM!Work

(* However many requests and imports there are and however they wait, a     *)
(* change is made in the database its page was loaded from                  *)
(* (ActsOnItsDatabase; web.rs gate_requests).                               *)
THEOREM ChangesReachTheirDatabase == IM!Spec => []ActsOnItsDatabase
  <1>1. Gated => ActsOnItsDatabase
    BY DEF Gated, ActsOnItsDatabase, IM!ActsOnItsDatabase
  <1> QED
    BY <1>1, ImportsInit, GatedNext, PTL DEF IM!Spec

(* For any number of backups kept, at least one, and through any failures   *)
(* and crashes, the database the last import replaced is among them         *)
(* (ReplacedIsBackedUp; migrate.rs apply).                                  *)
THEOREM LastReplacedIsKept == IM!Spec => []ReplacedIsBackedUp
  <1>1. Backups => ReplacedIsBackedUp
    BY DEF Backups, ReplacedIsBackedUp, IM!ReplacedIsBackedUp
  <1> QED
    BY <1>1, ImportsInit, GatedNext, BackupsNext, PTL DEF IM!Spec

------------------------------------------------------------------------------
(****************************************************************************)
(* Process.  The lock of a directory is held exactly from its acquisition   *)
(* to the last step of the process, so two processes past that step are in  *)
(* different directories; the port, the work and the status follow the      *)
(* step.                                                                    *)
(****************************************************************************)
(* The steps at which a process holds the lock of its directory.            *)
Holding == {"locked", "open", "serving", "closing", "drained"}

(* The lock of a directory is held by exactly the process past serving_lock *)
(* and not yet ended, that read this directory from its configuration.      *)
LockIsHeld ==
    \A p \in Process, d \in Dir :
        lock[d] = p <=> (proc[p].step \in Holding /\ proc[p].dir = d)

(* Scans run only between for_serving and the runtime's end, and there the  *)
(* folder of copies is theirs.                                              *)
CopiesAreScanned ==
    \A p \in Process :
        IF proc[p].step \in {"open", "serving", "closing"}
        THEN staging[proc[p].dir] = scans[p]
        ELSE scans[p] = {}

(* The port and the status, by step.                                        *)
PortAndStatus ==
    \A p \in Process :
        /\ port = p <=> proc[p].step = "serving"
        /\ status[p] = "running" => proc[p].step = "serving"
        /\ status[p] = "stopped" => proc[p].step = "off"

(* The invariant of the serving process.                                    *)
Serving == PR!TypeOK /\ LockIsHeld /\ CopiesAreScanned /\ PortAndStatus

(* Every process starts off, with nothing held.                             *)
LEMMA ServingInit == PR!Init => Serving
  BY ProcessAssumption DEF PR!Init, Serving, PR!TypeOK, PR!Step, PR!Status, Holding, LockIsHeld,
     CopiesAreScanned, PortAndStatus

(* Each step of serve_blocking, of a scan, of a crash or an edit keeps the  *)
(* invariant.                                                               *)
LEMMA ServingNext == Serving /\ [PR!Next]_PR!vars => Serving'
  <1> SUFFICES ASSUME Serving, [PR!Next]_PR!vars PROVE Serving'
    OBVIOUS
  <1> USE ProcessAssumption
  <1> USE DEF Serving, PR!TypeOK, PR!Step, PR!Status, Holding, PR!At, PR!Goto, PR!Tell, PR!Unheld
  <1>1. ASSUME NEW p \in Process, PR!Load(p) PROVE Serving'
    BY <1>1 DEF PR!Load, LockIsHeld, CopiesAreScanned, PortAndStatus
  <1>2. ASSUME NEW p \in Process, PR!Acquire(p) PROVE Serving'
    <2>1. CASE lock[proc[p].dir] = NoOne
      <3>1. /\ proc[p].step = "loaded"
            /\ proc' = [proc EXCEPT ![p] = [@ EXCEPT !.step = "locked"]]
            /\ lock' = [lock EXCEPT ![proc[p].dir] = p]
            /\ UNCHANGED <<config, port, scans, staging, status>>
        BY <1>2, <2>1 DEF PR!Acquire
      <3>2. PR!TypeOK' /\ CopiesAreScanned' /\ PortAndStatus'
        BY <3>1 DEF CopiesAreScanned, PortAndStatus
      <3>3. LockIsHeld'
        BY <2>1, <3>1 DEF LockIsHeld
      <3> QED BY <3>2, <3>3
    <2>2. CASE lock[proc[p].dir] # NoOne
      <3>1. /\ proc[p].step = "loaded"
            /\ proc' = [proc EXCEPT ![p] = [@ EXCEPT !.step = "off"]]
            /\ status' = [status EXCEPT ![p] = "stopped"]
            /\ UNCHANGED <<config, lock, port, scans, staging>>
        BY <1>2, <2>2 DEF PR!Acquire
      <3>2. PR!TypeOK' /\ CopiesAreScanned' /\ PortAndStatus'
        BY <3>1 DEF CopiesAreScanned, PortAndStatus
      <3>3. LockIsHeld'
        BY <3>1 DEF LockIsHeld
      <3> QED BY <3>2, <3>3
    <2> QED BY <2>1, <2>2
  <1>3. ASSUME NEW p \in Process, PR!Open(p) PROVE Serving'
    <2>1. PR!TypeOK' /\ LockIsHeld' /\ PortAndStatus'
      BY <1>3 DEF PR!Open, LockIsHeld, PortAndStatus
    <2>2. ASSUME NEW q \in Process, q # p, proc[q].step \in {"open", "serving", "closing"}
          PROVE proc[q].dir # proc[p].dir
      BY <1>3, <2>2 DEF PR!Open, LockIsHeld
    <2>3. CopiesAreScanned'
      BY <1>3, <2>2 DEF PR!Open, CopiesAreScanned
    <2> QED BY <2>1, <2>3
  <1>4. ASSUME NEW p \in Process, PR!OpenFails(p) PROVE Serving'
    BY <1>4 DEF PR!OpenFails, LockIsHeld, CopiesAreScanned, PortAndStatus
  <1>5. ASSUME NEW p \in Process, PR!Bind(p) PROVE Serving'
    <2>1. CASE port = NoOne
      <3>1. /\ proc[p].step = "open"
            /\ proc' = [proc EXCEPT ![p] = [@ EXCEPT !.step = "serving"]]
            /\ port' = p
            /\ status' = [status EXCEPT ![p] = "running"]
            /\ UNCHANGED <<config, lock, scans, staging>>
        BY <1>5, <2>1 DEF PR!Bind
      <3> QED BY <2>1, <3>1 DEF LockIsHeld, CopiesAreScanned, PortAndStatus
    <2>2. CASE port # NoOne
      <3>1. /\ proc[p].step = "open"
            /\ proc' = [proc EXCEPT ![p] = [@ EXCEPT !.step = "closing"]]
            /\ UNCHANGED <<config, lock, port, scans, staging, status>>
        BY <1>5, <2>2 DEF PR!Bind
      <3> QED BY <3>1 DEF LockIsHeld, CopiesAreScanned, PortAndStatus
    <2> QED BY <2>1, <2>2
  <1>6. ASSUME NEW p \in Process, PR!Shutdown(p) PROVE Serving'
    BY <1>6 DEF PR!Shutdown, LockIsHeld, CopiesAreScanned, PortAndStatus
  <1>7. ASSUME NEW p \in Process, PR!Drain(p) PROVE Serving'
    BY <1>7 DEF PR!Drain, LockIsHeld, CopiesAreScanned, PortAndStatus
  <1>8. ASSUME NEW p \in Process, PR!Stopped(p) PROVE Serving'
    BY <1>8 DEF PR!Stopped, LockIsHeld, CopiesAreScanned, PortAndStatus
  <1>9. ASSUME NEW p \in Process, PR!Crash(p) PROVE Serving'
    BY <1>9 DEF PR!Crash, LockIsHeld, CopiesAreScanned, PortAndStatus
  <1>10. ASSUME NEW p \in Process, NEW c \in Copy, PR!ScanBegins(p, c) PROVE Serving'
    <2>1. PR!TypeOK' /\ LockIsHeld' /\ PortAndStatus'
      BY <1>10 DEF PR!ScanBegins, LockIsHeld, PortAndStatus
    <2>2. ASSUME NEW q \in Process, q # p, proc[q].step \in {"open", "serving", "closing"}
          PROVE proc[q].dir # proc[p].dir
      BY <1>10, <2>2 DEF PR!ScanBegins, LockIsHeld
    <2>3. CopiesAreScanned'
      BY <1>10, <2>2, Zenon DEF PR!ScanBegins, CopiesAreScanned
    <2> QED BY <2>1, <2>3
  <1>11. ASSUME NEW p \in Process, NEW c \in Copy, PR!ScanEnds(p, c) PROVE Serving'
    <2>1. PR!TypeOK' /\ LockIsHeld' /\ PortAndStatus'
      BY <1>11 DEF PR!ScanEnds, LockIsHeld, PortAndStatus
    <2>2. proc[p].step \in {"open", "serving", "closing"}
      BY <1>11 DEF PR!ScanEnds, CopiesAreScanned
    <2>3. ASSUME NEW q \in Process, q # p, proc[q].step \in {"open", "serving", "closing"}
          PROVE proc[q].dir # proc[p].dir
      BY <2>2, <2>3 DEF LockIsHeld
    <2>4. CopiesAreScanned'
      BY <1>11, <2>2, <2>3, Zenon DEF PR!ScanEnds, CopiesAreScanned
    <2> QED BY <2>1, <2>4
  <1>12. ASSUME NEW d \in Dir, PR!Edit(d) PROVE Serving'
    BY <1>12 DEF PR!Edit, LockIsHeld, CopiesAreScanned, PortAndStatus
  <1>13. CASE UNCHANGED PR!vars
    BY <1>13 DEF PR!vars, LockIsHeld, CopiesAreScanned, PortAndStatus
  <1> QED
    BY <1>1, <1>2, <1>3, <1>4, <1>5, <1>6, <1>7, <1>8, <1>9, <1>10, <1>11, <1>12, <1>13, Zenon
       DEF PR!Next

(* A process that serves a data directory, or has scans still to finish     *)
(* there after a stop, is alone in it, and the folder of copies is exactly  *)
(* what its scans work on (serve_blocking, serving_lock, for_serving).      *)
THEOREM AloneInItsDirectory == PR!Spec => []ServesAlone
  <1>1. Serving => ServesAlone
    BY DEF Serving, PR!TypeOK, PR!Step, Holding, LockIsHeld, CopiesAreScanned, ServesAlone,
       PR!ServesAlone, PR!Works
  <1> QED BY ServingInit, ServingNext, <1>1, PTL DEF PR!Spec

(* Running is told only of a process that has the port, stopped only of one *)
(* that keeps neither lock nor port nor work (service.rs run).              *)
THEOREM ToldTheTruth == PR!Spec => []StatusIsTrue
  <1>1. Serving => StatusIsTrue
    BY DEF Serving, PR!TypeOK, PR!Step, Holding, LockIsHeld, CopiesAreScanned, PortAndStatus,
       StatusIsTrue, PR!StatusIsTrue, PR!At
  <1> QED BY ServingInit, ServingNext, <1>1, PTL DEF PR!Spec
==============================================================================
