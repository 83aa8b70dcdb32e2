------------------------------ MODULE SignInProofs ------------------------------
(****************************************************************************)
(* Three theorems about module SignIn, for any number of browsers, names,   *)
(* SIDs and rows and with no bound on resets, passwords or imports: a       *)
(* session is of the account its row is bound to, of the row's kind, and of *)
(* the database its check was made against.                                 *)
(*                                                                          *)
(* The invariant says of every request under way what it may rely on when   *)
(* its session is written: RequestOK.  What keeps it true while other       *)
(* requests change the rows is RowsKeep: a row keeps its kind, and a        *)
(* binding is taken off only together with a new count of resets.           *)
(****************************************************************************)
EXTENDS SignIn, TLAPS

UserT == [username : Name \cup {None}, sid : Sid \cup {LocalSid, None}, hash : Nat,
          sid_mismatch : BOOLEAN, resets : Nat]
SessionT == [user : Nat, by : Sid \cup {LocalSid}, gen : Nat, resets : Nat]
RequestT == [step : Step, gen : Nat, user : Nat, hash : Nat, username : Name \cup {None},
             sid : Sid \cup {LocalSid, None}, resets : Nat]

(* The types the argument needs, with no bounds.                            *)
RowsTyped ==
    /\ rows \in Nat /\ DOMAIN users \subseteq 1..rows
    /\ \A r \in DOMAIN users : users[r] \in UserT

Typed ==
    /\ RowsTyped
    /\ passwords \in Nat /\ generation \in Nat
    /\ sessions \in [Browser -> SessionT \cup {None}]
    /\ account \in [Sid -> Account \cup {None}]
    /\ at \in [Browser -> RequestT]

DirectorySteps == {"by_name", "by_sid", "rename", "renamed", "create", "unrecorded", "mismatch"}

(* The row a request has in hand at its last two steps: of the kind that    *)
(* was checked, should it still be there.                                   *)
RowOK(q) ==
    /\ q.user \in 1..rows /\ q.sid # None
    /\ Row(q.user) => (IsLocal(users[q.user]) <=> q.sid = LocalSid)

(* Between the record and the session: bound to this account, unless the    *)
(* row was reset since.                                                     *)
BoundOK(q) ==
    Row(q.user) => /\ q.resets <= users[q.user].resets
                   /\ q.resets = users[q.user].resets => users[q.user].sid = q.sid

RequestOK(q) ==
    /\ q.step = "check_local" => q.hash # 0
    /\ q.step = "checked" /\ q.hash = 0 => q.sid \in Sid
    /\ q.step \in DirectorySteps => q.sid \in Sid
    /\ q.step \in Held => q.gen = generation
    /\ q.step \in {"record", "start_session"} => RowOK(q)
    /\ q.step = "start_session" => BoundOK(q)

SessionOK(s) ==
    /\ s.user \in DOMAIN users /\ s.gen = generation
    /\ IsLocal(users[s.user]) <=> s.by = LocalSid
    /\ s.resets = users[s.user].resets => users[s.user].sid = s.by

Inv ==
    /\ Typed
    /\ \A b \in Browser : RequestOK(at[b])
    /\ \A b \in Browser : sessions[b] # None => SessionOK(sessions[b])

(* What every change of the rows keeps, of a row that was there and is.     *)
RowsKeep ==
    /\ RowsTyped' /\ rows <= rows' /\ generation' = generation
    /\ \A r \in DOMAIN users' : r \in 1..rows =>
          /\ r \in DOMAIN users
          /\ IsLocal(users'[r]) <=> IsLocal(users[r])
          /\ users[r].resets <= users'[r].resets
          /\ users'[r].resets = users[r].resets /\ users[r].sid # None =>
                users'[r].sid = users[r].sid

------------------------------------------------------------------------------
(* What a request relied on before a change of the rows it may rely on      *)
(* after it.                                                                *)
LEMMA RequestsKept ==
    ASSUME Typed, RowsKeep, NEW q \in RequestT, RequestOK(q)
    PROVE  RequestOK(q)'
<1>1. q.step \in {"record", "start_session"} => RowOK(q)'
  <2> SUFFICES ASSUME q.step \in {"record", "start_session"} PROVE RowOK(q)'
    OBVIOUS
  <2>1. q.user \in 1..rows /\ q.sid # None /\ q.user \in 1..rows'
    BY DEF Typed, RowsTyped, RowsKeep, RequestOK, RowOK, RequestT
  <2> QED BY <2>1 DEF RequestOK, RowOK, RowsKeep, Row
<1>2. q.step = "start_session" => BoundOK(q)'
  <2> SUFFICES ASSUME q.step = "start_session", Row(q.user)' 
               PROVE  /\ q.resets <= users'[q.user].resets
                      /\ q.resets = users'[q.user].resets => users'[q.user].sid = q.sid
    BY DEF BoundOK
  <2>1. q.user \in 1..rows /\ q.sid # None /\ q.user \in DOMAIN users /\ q.user \in DOMAIN users'
    BY DEF RequestOK, RowOK, RowsKeep, Row
  <2>2. /\ q.resets <= users[q.user].resets
        /\ q.resets = users[q.user].resets => users[q.user].sid = q.sid
    BY <2>1 DEF RequestOK, BoundOK, Row
  <2>3. users[q.user].resets \in Nat /\ users'[q.user].resets \in Nat /\ q.resets \in Nat
    BY <2>1 DEF Typed, RowsTyped, RowsKeep, UserT, RequestT
  <2> QED BY <2>1, <2>2, <2>3 DEF RowsKeep
<1> QED BY <1>1, <1>2 DEF RequestOK, RowsKeep

(* A session whose row is still there, and was not reset, stays right.      *)
LEMMA SessionKept ==
    ASSUME Typed, RowsKeep, NEW s \in SessionT, SessionOK(s), s.user \in DOMAIN users',
           users'[s.user].resets = users[s.user].resets
    PROVE  SessionOK(s)'
<1>1. s.user \in 1..rows /\ s.by # None
  BY SidsApart DEF Typed, RowsTyped, SessionOK, SessionT
<1> QED BY <1>1 DEF SessionOK, RowsKeep

(* A step that moves one request and changes nothing else.                  *)
LEMMA RequestMoves ==
    ASSUME Inv, NEW b \in Browser, NEW q \in RequestT, RequestOK(q),
           at' = [at EXCEPT ![b] = q], UNCHANGED SignInVars
    PROVE  Inv'
<1>1. Typed'
  BY DEF Inv, Typed, RowsTyped, SignInVars, Others
<1>2. ASSUME NEW c \in Browser PROVE RequestOK(at[c])'
  <2>1. RequestOK(IF c = b THEN q ELSE at[c])
    BY DEF Inv
  <2>2. at'[c] = IF c = b THEN q ELSE at[c]
    BY DEF Inv, Typed
  <2> QED BY <2>1, <2>2 DEF RequestOK, RowOK, BoundOK, Row, SignInVars, Others
<1>3. ASSUME NEW c \in Browser, sessions'[c] # None PROVE SessionOK(sessions[c])'
  BY <1>3 DEF Inv, SessionOK, SignInVars, Others
<1> QED BY <1>1, <1>2, <1>3 DEF Inv

(* A step that changes rows, moves at most one request, and takes away the  *)
(* sessions of the rows that go or are reset.                               *)
LEMMA RowsChange ==
    ASSUME Inv, RowsKeep, passwords' \in Nat, UNCHANGED account,
           at' \in [Browser -> RequestT], sessions' \in [Browser -> SessionT \cup {None}],
           \A b \in Browser : at'[b] = at[b] \/ RequestOK(at[b])',
           \A b \in Browser : sessions'[b] # None =>
              /\ sessions'[b] = sessions[b] /\ sessions[b].user \in DOMAIN users'
              /\ users'[sessions[b].user].resets = users[sessions[b].user].resets
    PROVE  Inv'
<1>1. Typed'
  BY DEF Inv, Typed, RowsKeep
<1>2. ASSUME NEW b \in Browser PROVE RequestOK(at[b])'
  <2>1. CASE at'[b] = at[b]
    <3>1. PICK q \in RequestT : q = at[b]
      BY DEF Inv, Typed
    <3>2. RequestOK(q)
      BY <3>1 DEF Inv
    <3>3. RequestOK(q)'
      BY <3>2, RequestsKept DEF Inv
    <3> QED BY <2>1, <3>1, <3>3 DEF RequestOK, RowOK, BoundOK, Row
  <2> QED BY <2>1
<1>3. ASSUME NEW b \in Browser, sessions'[b] # None PROVE SessionOK(sessions[b])'
  <2>1. PICK s \in SessionT : s = sessions[b]
    BY <1>3 DEF Inv, Typed
  <2>2. SessionOK(s)
    BY <1>3, <2>1 DEF Inv
  <2>3. SessionOK(s)'
    BY <1>3, <2>1, <2>2, SessionKept DEF Inv
  <2> QED BY <1>3, <2>1, <2>3 DEF SessionOK
<1> QED BY <1>1, <1>2, <1>3 DEF Inv

(* No row, no session, no request.                                          *)
LEMMA InitInv == Init => Inv
<1> SUFFICES ASSUME Init PROVE Inv
  OBVIOUS
<1>1. Typed
  BY DEF Init, Typed, RowsTyped, Account, Idle, RequestT, Step, Held
<1>2. ASSUME NEW b \in Browser PROVE RequestOK(at[b])
  BY DEF Init, RequestOK, Idle, DirectorySteps, Held
<1> QED BY <1>1, <1>2 DEF Inv, Init

(* The steps of a sign-in that change nothing but their own request.        *)
LEMMA LoginInv == ASSUME Inv, NEW b \in Browser, NEW n \in Name, Login(b, n) PROVE Inv'
<1>1. CASE ByName(n) # {} /\ IsLocal(users[Named(n)])
  <2> DEFINE q == [Idle EXCEPT !.step = "check_local", !.gen = generation,
                               !.user = Named(n), !.hash = users[Named(n)].hash]
  <2>1. at' = [at EXCEPT ![b] = q] /\ UNCHANGED SignInVars
    BY <1>1 DEF Login, Goto
  <2>2. Named(n) \in DOMAIN users
    BY <1>1 DEF Named, ByName
  <2>3. Named(n) \in Nat /\ users[Named(n)].hash \in Nat /\ users[Named(n)].hash # 0
    BY <1>1, <2>2 DEF Inv, Typed, RowsTyped, UserT, IsLocal
  <2>4. q \in RequestT /\ RequestOK(q)
    BY <2>3 DEF Inv, Typed, RequestT, RequestOK, Idle, Step, Held, DirectorySteps
  <2> QED BY <2>1, <2>4, RequestMoves
<1>2. CASE ~(ByName(n) # {} /\ IsLocal(users[Named(n)]))
  <2> DEFINE q == [Idle EXCEPT !.step = "check_directory", !.gen = generation]
  <2>1. at' = [at EXCEPT ![b] = q] /\ UNCHANGED SignInVars
    BY <1>2 DEF Login, Goto
  <2>2. q \in RequestT /\ RequestOK(q)
    BY DEF Inv, Typed, RequestT, RequestOK, Idle, Step, Held, DirectorySteps
  <2> QED BY <2>1, <2>2, RequestMoves
<1> QED BY <1>1, <1>2

(* A refused request is idle again.                                         *)
LEMMA RefusedInv == ASSUME Inv, NEW b \in Browser, Refused(b), UNCHANGED SignInVars PROVE Inv'
<1>1. Idle \in RequestT /\ RequestOK(Idle)
  BY DEF RequestT, RequestOK, Idle, Step, Held, DirectorySteps
<1> QED BY <1>1, RequestMoves DEF Refused, Goto

(* finish_directory takes a row as it was read: only a directory user's,    *)
(* and to be recorded on only if it was unbound or bound to the account.    *)
LEMMA WithRowInv ==
    ASSUME Inv, NEW b \in Browser, NEW r \in DOMAIN users, at[b].step \in DirectorySteps,
           WithRow(b, r), UNCHANGED SignInVars
    PROVE  Inv'
<1>1. CASE IsLocal(users[r])
  BY <1>1, RefusedInv DEF WithRow
<1>2. CASE ~IsLocal(users[r])
  <2>1. PICK step \in {"record", "mismatch"} :
            at' = [at EXCEPT ![b] = [at[b] EXCEPT !.user = r, !.step = step]]
    BY <1>2 DEF WithRow, Goto
  <2> DEFINE q == [at[b] EXCEPT !.user = r, !.step = step]
  <2>2. at[b] \in RequestT /\ at[b].sid \in Sid /\ at[b].gen = generation
    BY DEF Inv, Typed, RequestOK, DirectorySteps, Held
  <2>3. r \in 1..rows /\ rows \in Nat
    BY DEF Inv, Typed, RowsTyped
  <2>4. q \in RequestT
    <3>1. step \in Step /\ r \in Nat
      BY <2>3 DEF Step, Held
    <3> QED BY <2>2, <3>1 DEF RequestT
  <2>5. RequestOK(q)
    BY <1>2, <2>2, <2>3, SidsApart DEF RequestT, RequestOK, RowOK, DirectorySteps, Held
  <2> QED BY <2>1, <2>4, <2>5, RequestMoves
<1> QED BY <1>1, <1>2

(* The steps of SignInStep that read and move on.                           *)
LEMMA ReadingInv ==
    ASSUME Inv, NEW b \in Browser,
           \/ CheckLocal(b) \/ CheckDirectory(b) \/ SsoSignIn(b) \/ Enter(b) \/ FinishLocal(b)
           \/ FindByName(b) \/ FindBySid(b) \/ Renamed(b) \/ Unrecorded(b)
    PROVE  Inv'
<1>1. at[b] \in RequestT /\ RequestOK(at[b]) /\ generation \in Nat
  BY DEF Inv, Typed
<1>2. ASSUME NEW step \in Step, Move(b, step), UNCHANGED SignInVars,
             RequestOK([at[b] EXCEPT !.step = step])
      PROVE  Inv'
  <2>1. [at[b] EXCEPT !.step = step] \in RequestT
    BY <1>1 DEF RequestT
  <2> QED BY <1>2, <2>1, RequestMoves DEF Move, Goto
<1>3. CASE CheckLocal(b)
  <2>1. "checked" \in Step /\ RequestOK([at[b] EXCEPT !.step = "checked"])
    BY <1>1, <1>3 DEF CheckLocal, AtStep, RequestT, RequestOK, Step, Held, DirectorySteps
  <2> QED BY <1>2, <1>3, <2>1, RefusedInv DEF CheckLocal
<1>4. CASE CheckDirectory(b)
  <2>1. CASE Refused(b)
    BY <1>4, <2>1, RefusedInv DEF CheckDirectory
  <2>2. ASSUME NEW s \in Sid, account[s] # None,
               Goto(b, [at[b] EXCEPT !.step = "checked", !.sid = s, !.username = account[s].username])
        PROVE  Inv'
    <3> DEFINE q == [at[b] EXCEPT !.step = "checked", !.sid = s, !.username = account[s].username]
    <3>1. account[s].username \in Name /\ "checked" \in Step
      BY <2>2 DEF Inv, Typed, Account, Step
    <3>2. q \in RequestT
      BY <1>1, <3>1 DEF RequestT
    <3>3. RequestOK(q)
      BY <1>1 DEF RequestT, RequestOK, Held, DirectorySteps
    <3> QED BY <1>4, <2>2, <3>2, <3>3, RequestMoves DEF CheckDirectory, Goto
  <2> QED BY <1>4, <2>1, <2>2 DEF CheckDirectory
<1>5. CASE SsoSignIn(b)
  <2> DEFINE q == [Idle EXCEPT !.step = "check_directory", !.gen = generation]
  <2>1. q \in RequestT /\ RequestOK(q)
    BY <1>1 DEF RequestT, RequestOK, Idle, Step, Held, DirectorySteps
  <2> QED BY <1>5, <2>1, RequestMoves DEF SsoSignIn, Goto
<1>6. CASE Enter(b)
  <2>1. CASE ~SameGeneration(b)
    BY <1>6, <2>1, RefusedInv DEF Enter
  <2>2. CASE SameGeneration(b) /\ at[b].hash # 0
    <3>1. "finish_local" \in Step /\ RequestOK([at[b] EXCEPT !.step = "finish_local"])
      BY <1>1, <2>2 DEF SameGeneration, RequestT, RequestOK, Step, Held, DirectorySteps
    <3> QED BY <1>2, <1>6, <2>2, <3>1 DEF Enter
  <2>3. CASE SameGeneration(b) /\ at[b].hash = 0
    <3>1. "by_name" \in Step /\ RequestOK([at[b] EXCEPT !.step = "by_name"])
      BY <1>1, <1>6, <2>3 DEF Enter, AtStep, SameGeneration, RequestT, RequestOK, Step, Held, DirectorySteps
    <3> QED BY <1>2, <1>6, <2>3, <3>1 DEF Enter
  <2> QED BY <2>1, <2>2, <2>3
<1>7. CASE FinishLocal(b)
  <2> DEFINE r == at[b].user
             good == Row(r) /\ IsLocal(users[r]) /\ users[r].hash = at[b].hash
             q == [at[b] EXCEPT !.step = "record", !.sid = LocalSid]
  <2>1. CASE ~good
    BY <1>7, <2>1, RefusedInv DEF FinishLocal
  <2>2. CASE good
    <3>1. at' = [at EXCEPT ![b] = q] /\ UNCHANGED SignInVars
      BY <1>7, <2>2 DEF FinishLocal, Goto
    <3>2. "record" \in Step
      BY DEF Step, Held
    <3>3. q \in RequestT
      BY <1>1, <3>2 DEF RequestT
    <3>4. r \in 1..rows /\ at[b].gen = generation
      BY <1>1, <1>7, <2>2 DEF FinishLocal, AtStep, Inv, Typed, RowsTyped, Row, RequestOK, Held
    <3>5. RequestOK(q)
      BY <1>1, <2>2, <3>4, SidsApart DEF RequestT, RequestOK, RowOK, DirectorySteps
    <3> QED BY <3>1, <3>3, <3>5, RequestMoves
  <2> QED BY <2>1, <2>2
<1>8. CASE FindByName(b)
  <2>1. at[b].step \in DirectorySteps /\ at[b].sid \in Sid /\ at[b].gen = generation
    BY <1>1, <1>8 DEF FindByName, AtStep, RequestOK, DirectorySteps, Held
  <2>2. CASE ByName(at[b].username) # {}
    <3>1. Named(at[b].username) \in DOMAIN users
      BY <2>2 DEF Named, ByName
    <3> QED BY <1>8, <2>1, <2>2, <3>1, WithRowInv DEF FindByName
  <2>3. CASE ByName(at[b].username) = {}
    <3>1. "by_sid" \in Step /\ RequestOK([at[b] EXCEPT !.step = "by_sid"])
      BY <1>1, <2>1 DEF RequestT, RequestOK, Step, Held, DirectorySteps
    <3> QED BY <1>2, <1>8, <2>3, <3>1 DEF FindByName
  <2> QED BY <2>2, <2>3
<1>9. CASE FindBySid(b)
  <2>1. at[b].sid \in Sid /\ at[b].gen = generation
    BY <1>1, <1>9 DEF FindBySid, AtStep, RequestOK, DirectorySteps, Held
  <2>2. ASSUME NEW r \in BySid(at[b].sid), Goto(b, [at[b] EXCEPT !.step = "rename", !.user = r])
        PROVE  Inv'
    <3> DEFINE q == [at[b] EXCEPT !.step = "rename", !.user = r]
    <3>1. r \in Nat /\ "rename" \in Step
      BY DEF Inv, Typed, RowsTyped, BySid, Step, Held
    <3>2. q \in RequestT
      BY <1>1, <3>1 DEF RequestT
    <3>3. RequestOK(q)
      BY <1>1, <2>1 DEF RequestT, RequestOK
    <3> QED BY <1>9, <2>2, <3>2, <3>3, RequestMoves DEF FindBySid, Goto
  <2>3. CASE Move(b, "create")
    <3>1. "create" \in Step /\ RequestOK([at[b] EXCEPT !.step = "create"])
      BY <1>1, <2>1 DEF RequestT, RequestOK, Step, Held, DirectorySteps
    <3> QED BY <1>2, <1>9, <2>3, <3>1 DEF FindBySid
  <2> QED BY <1>9, <2>2, <2>3 DEF FindBySid
<1>10. CASE Renamed(b)
  <2>1. at[b].step \in DirectorySteps
    BY <1>10 DEF Renamed, AtStep, DirectorySteps
  <2>2. CASE Row(at[b].user)
    BY <1>10, <2>1, <2>2, WithRowInv DEF Renamed, Row
  <2>3. CASE ~Row(at[b].user)
    BY <1>10, <2>3, RefusedInv DEF Renamed
  <2> QED BY <2>2, <2>3
<1>11. CASE Unrecorded(b)
  <2>1. "mismatch" \in Step /\ RequestOK([at[b] EXCEPT !.step = "mismatch"])
    BY <1>1, <1>11 DEF Unrecorded, AtStep, RequestT, RequestOK, Step, Held, DirectorySteps
  <2> QED BY <1>2, <1>11, <2>1, RefusedInv DEF Unrecorded
<1> QED BY <1>3, <1>4, <1>5, <1>6, <1>7, <1>8, <1>9, <1>10, <1>11

------------------------------------------------------------------------------
(* A new row is not one that any request or session has in hand.            *)
LEMMA InsertKeeps ==
    ASSUME Typed, NEW n \in Name \cup {None}, NEW sid \in Sid \cup {LocalSid, None}, NEW hash \in Nat,
           Insert(n, sid, hash), generation' = generation
    PROVE  /\ RowsKeep
           /\ rows' = rows + 1 /\ rows + 1 \in DOMAIN users'
           /\ users'[rows + 1].hash = hash
           /\ \A r \in DOMAIN users : r \in DOMAIN users' /\ users'[r] = users[r]
<1>1. rows \in Nat /\ DOMAIN users \subseteq 1..rows /\ rows + 1 \notin DOMAIN users
  BY DEF Typed, RowsTyped
<1>2. /\ DOMAIN users' = DOMAIN users \cup {rows + 1}
      /\ \A r \in DOMAIN users : users'[r] = users[r]
      /\ users'[rows + 1] = [username |-> n, sid |-> sid, hash |-> hash,
                             sid_mismatch |-> FALSE, resets |-> 0]
  BY <1>1 DEF Insert, Row
<1>3. rows' = rows + 1
  BY DEF Insert
<1>4. RowsTyped'
  <2>1. rows' \in Nat /\ DOMAIN users' \subseteq 1..rows'
    BY <1>1, <1>2, <1>3
  <2>2. users'[rows + 1] \in UserT
    BY <1>2 DEF UserT
  <2> QED BY <1>2, <2>1, <2>2 DEF Typed, RowsTyped
<1>5. \A r \in DOMAIN users' : r \in 1..rows =>
          r \in DOMAIN users /\ users'[r] = users[r] /\ users[r].resets \in Nat
  BY <1>1, <1>2 DEF Typed, RowsTyped, UserT
<1> QED BY <1>1, <1>2, <1>3, <1>4, <1>5 DEF RowsKeep

(* A change of one row that keeps its kind, and its binding unless it is    *)
(* counted as a reset.                                                      *)
LEMMA UpdateKeeps ==
    ASSUME Typed, NEW r \in DOMAIN users, NEW u \in UserT, users' = [users EXCEPT ![r] = u],
           UNCHANGED <<rows, generation>>,
           IsLocal(u) <=> IsLocal(users[r]), users[r].resets <= u.resets,
           u.resets = users[r].resets /\ users[r].sid # None => u.sid = users[r].sid
    PROVE  RowsKeep /\ DOMAIN users' = DOMAIN users
<1>1. \A x \in DOMAIN users : users[x] \in UserT /\ users[x].resets \in Nat
  BY DEF Typed, RowsTyped, UserT
<1>2. RowsTyped'
  BY <1>1 DEF Typed, RowsTyped
<1>3. rows <= rows'
  BY DEF Typed, RowsTyped
<1> QED BY <1>1, <1>2, <1>3 DEF RowsKeep

(* Nothing changes in the rows.                                             *)
LEMMA SameKeeps == ASSUME Typed, UNCHANGED <<users, rows, generation>> PROVE RowsKeep
BY DEF Typed, RowsTyped, UserT, RowsKeep

(* Sessions end and nothing else changes: a sign-out, or the next row of a  *)
(* revocation pass.                                                         *)
LEMMA SessionsEnd ==
    ASSUME Inv, UNCHANGED <<users, rows, passwords, account, generation, at>>,
           sessions' \in [Browser -> SessionT \cup {None}],
           \A b \in Browser : sessions'[b] \in {sessions[b], None}
    PROVE  Inv'
<1>1. RowsKeep /\ passwords' \in Nat /\ at' \in [Browser -> RequestT]
  BY SameKeeps DEF Inv, Typed
<1>2. ASSUME NEW b \in Browser, sessions'[b] # None
      PROVE  sessions'[b] = sessions[b] /\ sessions[b].user \in DOMAIN users'
  BY <1>2 DEF Inv, SessionOK
<1> QED BY <1>1, <1>2, RowsChange

(* SessionsDeleteUser leaves the sessions of the other rows.                *)
LEMMA DeleteSessions ==
    ASSUME Typed, NEW r, SessionsDeleteUser(r)
    PROVE  /\ sessions' \in [Browser -> SessionT \cup {None}]
           /\ \A b \in Browser : sessions'[b] \in {sessions[b], None}
           /\ \A b \in Browser : sessions'[b] # None =>
                sessions'[b] = sessions[b] /\ sessions[b].user # r
BY DEF Typed, SessionsDeleteUser

(* The administrator's requests and local-account.                          *)
LEMMA RowRequestsInv ==
    ASSUME Inv,
           \/ \E n \in Name : AddUser(n) \/ LocalAccountSet(n)
           \/ \E r \in 1..MaxRows : RemoveUser(r) \/ ClearSid(r)
    PROVE  Inv'
<1>1. /\ Typed /\ rows \in Nat /\ passwords \in Nat /\ at \in [Browser -> RequestT]
      /\ sessions \in [Browser -> SessionT \cup {None}]
      /\ \A b \in Browser : sessions[b] # None => sessions[b].user \in DOMAIN users
  BY DEF Inv, Typed, RowsTyped, SessionOK
<1>2. ASSUME NEW n \in Name, AddUser(n) PROVE Inv'
  <2>1. Insert(n, None, 0) /\ UNCHANGED <<passwords, sessions, account, generation, at>>
    BY <1>2 DEF AddUser
  <2>2. RowsKeep /\ \A r \in DOMAIN users : r \in DOMAIN users' /\ users'[r] = users[r]
    BY <1>1, <2>1, InsertKeeps
  <2> QED BY <1>1, <2>1, <2>2, RowsChange
<1>3. ASSUME NEW n \in Name, LocalAccountSet(n) PROVE Inv'
  <2>1. passwords' = passwords + 1 /\ UNCHANGED <<sessions, account, generation, at>>
    BY <1>3 DEF LocalAccountSet
  <2>2. CASE Insert(n, LocalSid, passwords + 1)
    <3>1. RowsKeep /\ \A r \in DOMAIN users : r \in DOMAIN users' /\ users'[r] = users[r]
      <4>1. passwords + 1 \in Nat /\ LocalSid \in Sid \cup {LocalSid, None}
        BY <1>1
      <4> QED BY <1>1, <2>1, <2>2, <4>1, InsertKeeps
    <3> QED BY <1>1, <2>1, <3>1, RowsChange
  <2>3. ASSUME NEW r \in ByName(n), IsLocal(users[r]), UNCHANGED rows,
               users' = [users EXCEPT ![r] = [@ EXCEPT !.hash = passwords + 1]]
        PROVE  Inv'
    <3> DEFINE u == [users[r] EXCEPT !.hash = passwords + 1]
    <3>1. r \in DOMAIN users /\ users[r] \in UserT
      BY DEF ByName, Inv, Typed, RowsTyped
    <3>2. u \in UserT /\ IsLocal(u) /\ u.resets = users[r].resets /\ u.sid = users[r].sid
      BY <1>1, <3>1 DEF UserT, IsLocal
    <3>3. users[r].resets <= u.resets
      BY <3>1, <3>2 DEF UserT
    <3>4. users' = [users EXCEPT ![r] = u]
      BY <2>3
    <3> HIDE DEF u
    <3>5. RowsKeep /\ DOMAIN users' = DOMAIN users
      BY <1>1, <2>1, <2>3, <3>1, <3>2, <3>3, <3>4, UpdateKeeps
    <3>6. \A x \in DOMAIN users : users'[x].resets = users[x].resets
      BY <3>1, <3>2, <3>4
    <3> QED BY <1>1, <2>1, <3>5, <3>6, RowsChange
  <2> QED BY <1>3, <2>2, <2>3 DEF LocalAccountSet
<1>4. ASSUME NEW r \in 1..MaxRows, RemoveUser(r) PROVE Inv'
  <2>1. /\ users' = [x \in DOMAIN users \ {r} |-> users[x]]
        /\ SessionsDeleteUser(r)
        /\ UNCHANGED <<rows, passwords, account, generation, at>>
    BY <1>4 DEF RemoveUser, Others
  <2>2. RowsKeep
    BY <2>1 DEF Inv, Typed, RowsTyped, UserT, RowsKeep
  <2>3. ASSUME NEW b \in Browser, sessions'[b] # None
        PROVE  /\ sessions'[b] = sessions[b] /\ sessions[b].user \in DOMAIN users'
               /\ users'[sessions[b].user].resets = users[sessions[b].user].resets
    BY <1>1, <2>1, <2>3, DeleteSessions
  <2>4. sessions' \in [Browser -> SessionT \cup {None}]
    BY <1>1, <2>1, DeleteSessions
  <2> QED BY <1>1, <2>1, <2>2, <2>3, <2>4, RowsChange
<1>5. ASSUME NEW r \in 1..MaxRows, ClearSid(r) PROVE Inv'
  <2> DEFINE u == [users[r] EXCEPT !.sid = None, !.sid_mismatch = FALSE,
                                   !.resets = users[r].resets + 1]
  <2>1. /\ r \in DOMAIN users
        /\ users' = [users EXCEPT ![r] = u]
        /\ SessionsDeleteUser(r)
        /\ UNCHANGED <<rows, passwords, account, generation, at>>
    BY <1>5 DEF ClearSid, Row, Others
  <2>2. users[r] \in UserT
    BY <2>1 DEF Inv, Typed, RowsTyped
  <2>3. u \in UserT /\ (IsLocal(u) <=> IsLocal(users[r])) /\ u.resets = users[r].resets + 1
    <3>1. users[r].resets + 1 \in Nat
      BY <2>2 DEF UserT
    <3>2. u \in UserT
      BY <2>2, <3>1 DEF UserT
    <3>3. u.hash = users[r].hash /\ u.resets = users[r].resets + 1
      BY <2>2 DEF UserT
    <3> QED BY <3>2, <3>3 DEF IsLocal
  <2>4. users[r].resets <= u.resets /\ u.resets # users[r].resets
    BY <2>2, <2>3 DEF UserT
  <2> HIDE DEF u
  <2>5. RowsKeep /\ DOMAIN users' = DOMAIN users
    BY <1>1, <2>1, <2>3, <2>4, UpdateKeeps
  <2>6. ASSUME NEW b \in Browser, sessions'[b] # None
        PROVE  /\ sessions'[b] = sessions[b] /\ sessions[b].user \in DOMAIN users'
               /\ users'[sessions[b].user].resets = users[sessions[b].user].resets
    BY <1>1, <2>1, <2>5, <2>6, DeleteSessions
  <2>7. sessions' \in [Browser -> SessionT \cup {None}]
    BY <1>1, <2>1, DeleteSessions
  <2> QED BY <1>1, <2>1, <2>5, <2>6, <2>7, RowsChange
<1> QED BY <1>2, <1>3, <1>4, <1>5

(* The steps of a sign-in that write: the rename of a row, a new row, the   *)
(* recorded login, the mark of a mismatch.                                  *)
LEMMA WritingInv ==
    ASSUME Inv, NEW b \in Browser,
           Rename(b) \/ Create(b) \/ RecordLogin(b) \/ SidMismatch(b)
    PROVE  Inv'
<1>1. /\ Typed /\ rows \in Nat /\ passwords \in Nat /\ at \in [Browser -> RequestT]
      /\ sessions \in [Browser -> SessionT \cup {None}]
      /\ at[b] \in RequestT /\ RequestOK(at[b])
      /\ \A c \in Browser : sessions[c] # None => sessions[c].user \in DOMAIN users
  BY DEF Inv, Typed, RowsTyped, SessionOK
<1>2. ASSUME NEW q \in RequestT, RequestOK(q)', at' = [at EXCEPT ![b] = q], RowsKeep,
             UNCHANGED <<passwords, sessions, account>>,
             \A r \in DOMAIN users : r \in DOMAIN users' /\ users'[r].resets = users[r].resets
      PROVE  Inv'
  <2>1. at' \in [Browser -> RequestT] /\ sessions' \in [Browser -> SessionT \cup {None}]
    BY <1>1, <1>2
  <2>2. ASSUME NEW c \in Browser PROVE at'[c] = at[c] \/ RequestOK(at[c])'
    <3>1. CASE c = b
      <4>1. at'[c] = q
        BY <1>1, <1>2, <3>1
      <4> QED BY <1>2, <4>1 DEF RequestOK, RowOK, BoundOK, Row
    <3>2. CASE c # b
      BY <1>1, <1>2, <3>2
    <3> QED BY <3>1, <3>2
  <2> QED BY <1>1, <1>2, <2>1, <2>2, RowsChange
<1>3. Idle \in RequestT /\ RequestOK(Idle)'
  BY DEF RequestT, RequestOK, Idle, Step, Held, DirectorySteps
<1>4. CASE Rename(b)
  <2> DEFINE r == at[b].user
             good == r \in BySid(at[b].sid) /\ ByName(at[b].username) = {}
             u == [users[r] EXCEPT !.username = at[b].username]
  <2>1. CASE ~good
    BY <1>4, <2>1, RefusedInv DEF Rename, SignInVars
  <2>2. CASE good
    <3>1. /\ r \in DOMAIN users
          /\ users' = [users EXCEPT ![r] = u]
          /\ at' = [at EXCEPT ![b] = [at[b] EXCEPT !.step = "renamed"]]
          /\ UNCHANGED <<rows, passwords, sessions, account, generation>>
      BY <1>4, <2>2 DEF Rename, Move, Goto, BySid, Others
    <3>2. at[b].sid \in Sid /\ at[b].gen = generation
      BY <1>1, <1>4 DEF Rename, AtStep, RequestOK, DirectorySteps, Held
    <3>3. users[r] \in UserT
      BY <3>1 DEF Inv, Typed, RowsTyped
    <3>4. u \in UserT /\ u.hash = users[r].hash /\ u.resets = users[r].resets /\ u.sid = users[r].sid
      BY <1>1, <3>3 DEF UserT, RequestT
    <3>5. users[r].resets <= u.resets
      BY <3>3, <3>4 DEF UserT
    <3>6. PICK q \in RequestT : q = [at[b] EXCEPT !.step = "renamed"]
      <4>1. "renamed" \in Step
        BY DEF Step, Held
      <4> QED BY <1>1, <4>1 DEF RequestT
    <3>7. RequestOK(q)'
      BY <1>1, <3>1, <3>2, <3>6 DEF RequestT, RequestOK
    <3> HIDE DEF u
    <3>8. RowsKeep /\ DOMAIN users' = DOMAIN users
      BY <1>1, <3>1, <3>4, <3>5, UpdateKeeps DEF IsLocal
    <3>9. \A x \in DOMAIN users : users'[x].resets = users[x].resets
      BY <3>1, <3>4
    <3>10. at' = [at EXCEPT ![b] = q]
      BY <3>1, <3>6
    <3> QED BY <1>2, <3>1, <3>7, <3>8, <3>9, <3>10
  <2> QED BY <2>1, <2>2
<1>5. CASE Create(b)
  <2>1. CASE ByName(at[b].username) # {}
    BY <1>5, <2>1, RefusedInv DEF Create, SignInVars, Others
  <2>2. CASE ByName(at[b].username) = {}
    <3>1. /\ Insert(at[b].username, None, 0)
          /\ at' = [at EXCEPT ![b] = [at[b] EXCEPT !.step = "record", !.user = rows + 1]]
          /\ UNCHANGED <<passwords, sessions, account, generation>>
      BY <1>5, <2>2 DEF Create, Goto
    <3>2. at[b].sid \in Sid /\ at[b].gen = generation
      BY <1>1, <1>5 DEF Create, AtStep, RequestOK, DirectorySteps, Held
    <3>3. at[b].username \in Name \cup {None} /\ None \in Sid \cup {LocalSid, None} /\ 0 \in Nat
      BY <1>1 DEF RequestT
    <3>4. /\ RowsKeep /\ rows' = rows + 1 /\ users'[rows + 1].hash = 0
          /\ \A r \in DOMAIN users : r \in DOMAIN users' /\ users'[r] = users[r]
      BY <1>1, <3>1, <3>3, InsertKeeps
    <3>5. PICK q \in RequestT : q = [at[b] EXCEPT !.step = "record", !.user = rows + 1]
      <4>1. "record" \in Step /\ rows + 1 \in Nat
        BY <1>1 DEF Step, Held
      <4> QED BY <1>1, <4>1 DEF RequestT
    <3>6. q.step = "record" /\ q.sid = at[b].sid /\ q.gen = generation /\ q.user = rows + 1
      BY <1>1, <3>2, <3>5 DEF RequestT
    <3>7. RequestOK(q)'
      BY <1>1, <3>1, <3>2, <3>4, <3>6, SidsApart DEF RequestOK, RowOK, IsLocal, DirectorySteps
    <3>8. at' = [at EXCEPT ![b] = q]
      BY <3>1, <3>5
    <3> QED BY <1>2, <3>1, <3>4, <3>7, <3>8
  <2> QED BY <2>1, <2>2
<1>6. CASE RecordLogin(b)
  <2> DEFINE r == at[b].user
             good == Row(r) /\ MayRecord(users[r], at[b].sid)
             u == [users[r] EXCEPT !.sid = at[b].sid]
  <2>1. RowOK(at[b]) /\ at[b].gen = generation /\ at[b].step = "record"
    BY <1>1, <1>6 DEF RecordLogin, AtStep, RequestOK, Held
  <2>2. CASE ~good /\ at[b].sid = LocalSid
    BY <1>6, <2>2, RefusedInv DEF RecordLogin, SignInVars
  <2>3. CASE ~good /\ at[b].sid # LocalSid
    <3> DEFINE m == [at[b] EXCEPT !.step = "unrecorded"]
    <3>1. at' = [at EXCEPT ![b] = m] /\ UNCHANGED SignInVars
      BY <1>6, <2>3 DEF RecordLogin, Move, Goto, SignInVars
    <3>2. "unrecorded" \in Step
      BY DEF Step, Held
    <3>3. m \in RequestT
      BY <1>1, <3>2 DEF RequestT
    <3>4. at[b].sid \in Sid
      BY <1>1, <2>1, <2>3 DEF RowOK, RequestT
    <3>5. RequestOK(m)
      BY <1>1, <2>1, <3>4 DEF RequestT, RequestOK
    <3> QED BY <3>1, <3>3, <3>5, RequestMoves
  <2>4. CASE good
    <3>1. r \in DOMAIN users /\ users[r] \in UserT /\ users[r].sid \in {None, at[b].sid}
      BY <2>4 DEF MayRecord, Row, Inv, Typed, RowsTyped
    <3>2. Coalesce(users[r].sid, at[b].sid) = at[b].sid
      BY <3>1 DEF Coalesce
    <3>3. /\ users' = [users EXCEPT ![r] = u]
          /\ at' = [at EXCEPT ![b] = [at[b] EXCEPT !.step = "start_session",
                                                   !.resets = users[r].resets]]
          /\ UNCHANGED <<rows, passwords, sessions, account, generation>>
      BY <1>6, <2>4, <3>2 DEF RecordLogin, Goto, Others
    <3>4. /\ u \in UserT /\ u.hash = users[r].hash /\ u.resets = users[r].resets
          /\ u.sid = at[b].sid
      BY <1>1, <3>1 DEF UserT, RequestT
    <3>5. users[r].resets \in Nat /\ users[r].resets <= u.resets
      BY <3>1, <3>4 DEF UserT
    <3>6. PICK q \in RequestT :
              q = [at[b] EXCEPT !.step = "start_session", !.resets = users[r].resets]
      <4>1. "start_session" \in Step
        BY DEF Step, Held
      <4> QED BY <1>1, <3>5, <4>1 DEF RequestT
    <3>7. /\ q.step = "start_session" /\ q.sid = at[b].sid /\ q.gen = at[b].gen /\ q.user = r
          /\ q.resets = users[r].resets
      BY <1>1, <3>6 DEF RequestT
    <3> HIDE DEF u
    <3>8. RowsKeep /\ DOMAIN users' = DOMAIN users
      BY <1>1, <3>1, <3>3, <3>4, <3>5, UpdateKeeps DEF IsLocal
    <3>9. users'[r] = u
      BY <3>1, <3>3
    <3>10. RowOK(q)' /\ BoundOK(q)'
      BY <2>1, <2>4, <3>3, <3>4, <3>5, <3>7, <3>9 DEF RowOK, BoundOK, IsLocal, Row
    <3>11. RequestOK(q)'
      BY <2>1, <3>3, <3>7, <3>10 DEF RequestOK, DirectorySteps
    <3>12. \A x \in DOMAIN users : users'[x].resets = users[x].resets
      BY <3>1, <3>3, <3>4
    <3>13. at' = [at EXCEPT ![b] = q]
      BY <3>3, <3>6
    <3> QED BY <1>2, <3>3, <3>8, <3>11, <3>12, <3>13
  <2> QED BY <2>2, <2>3, <2>4
<1>7. CASE SidMismatch(b)
  <2> DEFINE r == at[b].user
             u == [users[r] EXCEPT !.sid_mismatch = TRUE]
  <2>1. /\ at' = [at EXCEPT ![b] = Idle]
        /\ UNCHANGED <<rows, passwords, sessions, account, generation>>
    BY <1>7 DEF SidMismatch, Refused, Goto, Others
  <2>2. CASE ~Row(r)
    BY <1>7, <2>2, RefusedInv DEF SidMismatch, SignInVars
  <2>3. CASE Row(r)
    <3>1. r \in DOMAIN users /\ users[r] \in UserT /\ users' = [users EXCEPT ![r] = u]
      BY <1>7, <2>3 DEF SidMismatch, Row, Inv, Typed, RowsTyped
    <3>2. u \in UserT /\ u.hash = users[r].hash /\ u.resets = users[r].resets /\ u.sid = users[r].sid
      BY <3>1 DEF UserT
    <3>3. users[r].resets <= u.resets
      BY <3>1, <3>2 DEF UserT
    <3> HIDE DEF u
    <3>4. RowsKeep /\ DOMAIN users' = DOMAIN users
      BY <1>1, <2>1, <3>1, <3>2, <3>3, UpdateKeeps DEF IsLocal
    <3>5. \A x \in DOMAIN users : users'[x].resets = users[x].resets
      BY <3>1, <3>2
    <3> QED BY <1>2, <1>3, <2>1, <3>4, <3>5
  <2> QED BY <2>2, <2>3
<1> QED BY <1>4, <1>5, <1>6, <1>7

(* session_create: the session is what the request was sure of.             *)
LEMMA StartInv == ASSUME Inv, NEW b \in Browser, StartSession(b) PROVE Inv'
<1> DEFINE q == at[b]
           new == [user |-> q.user, by |-> q.sid, gen |-> q.gen, resets |-> q.resets]
<1>1. /\ at' = [at EXCEPT ![b] = Idle]
      /\ UNCHANGED <<users, rows, passwords, account, generation>>
      /\ sessions' = IF Row(q.user) THEN [sessions EXCEPT ![b] = new] ELSE sessions
  BY DEF StartSession, Goto, Others, MayStart
<1>2. q \in RequestT /\ q.gen = generation /\ RowOK(q) /\ BoundOK(q)
  BY DEF Inv, Typed, StartSession, AtStep, RequestOK, Held
<1>3. Idle \in RequestT /\ RequestOK(Idle)
  BY DEF RequestT, RequestOK, Idle, Step, Held, DirectorySteps
<1>4. new \in SessionT
  BY <1>2 DEF RequestT, SessionT, RowOK
<1>5. Row(q.user) => SessionOK(new)
  BY <1>2 DEF SessionOK, RowOK, BoundOK, Row
<1>6. Typed'
  BY <1>1, <1>3, <1>4 DEF Inv, Typed, RowsTyped
<1>7. ASSUME NEW c \in Browser PROVE RequestOK(at[c])'
  <2>1. at'[c] = IF c = b THEN Idle ELSE at[c]
    BY <1>1 DEF Inv, Typed
  <2>2. RequestOK(IF c = b THEN Idle ELSE at[c])
    BY <1>3 DEF Inv
  <2> QED BY <1>1, <2>1, <2>2 DEF RequestOK, RowOK, BoundOK, Row
<1>8. ASSUME NEW c \in Browser, sessions'[c] # None PROVE SessionOK(sessions[c])'
  <2> HIDE DEF new
  <2>1. CASE c = b /\ Row(q.user)
    <3>1. sessions'[c] = new
      BY <1>1, <2>1 DEF Inv, Typed
    <3> QED BY <1>1, <1>5, <2>1, <3>1 DEF SessionOK
  <2>2. CASE ~(c = b /\ Row(q.user))
    <3>1. sessions'[c] = sessions[c]
      BY <1>1, <2>2 DEF Inv, Typed
    <3>2. SessionOK(sessions[c])
      BY <1>8, <3>1 DEF Inv
    <3> QED BY <1>1, <3>1, <3>2 DEF SessionOK
  <2> QED BY <2>1, <2>2
<1> QED BY <1>6, <1>7, <1>8 DEF Inv

(* An import waits for the requests that hold the gate.                     *)
LEMMA ImportInv == ASSUME Inv, Import PROVE Inv'
<1>1. /\ generation' = generation + 1 /\ users' = <<>>
      /\ sessions' = [b \in Browser |-> None]
      /\ UNCHANGED <<rows, passwords, account, at>>
      /\ \A b \in Browser : at[b].step \notin Held
  BY DEF Import
<1>2. Typed'
  BY <1>1 DEF Inv, Typed, RowsTyped
<1>3. ASSUME NEW b \in Browser PROVE RequestOK(at[b])'
  <2>1. at[b].step \notin Held /\ RequestOK(at[b]) /\ at'[b] = at[b]
    BY <1>1 DEF Inv
  <2> QED BY <2>1 DEF RequestOK, Held, DirectorySteps
<1> QED BY <1>1, <1>2, <1>3 DEF Inv

(* The invariant is kept by every step.                                     *)
LEMMA NextInv == Inv /\ [Next]_vars => Inv'
<1> SUFFICES ASSUME Inv, [Next]_vars PROVE Inv'
  OBVIOUS
<1>1. ASSUME NEW b \in Browser, SignInStep(b) PROVE Inv'
  BY <1>1, ReadingInv, WritingInv, StartInv DEF SignInStep
<1>2. ASSUME NEW b \in Browser, Logout(b) PROVE Inv'
  <2>1. /\ UNCHANGED <<users, rows, passwords, account, generation, at>>
        /\ sessions' \in [Browser -> SessionT \cup {None}]
        /\ \A c \in Browser : sessions'[c] \in {sessions[c], None}
    BY <1>2 DEF Logout, Others, Inv, Typed
  <2> QED BY <2>1, SessionsEnd
<1>3. ASSUME NEW s \in Sid, DirectoryChanges(s) PROVE Inv'
  <2>1. /\ account' \in [Sid -> Account \cup {None}]
        /\ UNCHANGED <<users, rows, passwords, sessions, generation, at>>
    BY <1>3 DEF DirectoryChanges, Inv, Typed
  <2> QED BY <2>1 DEF Inv, Typed, RowsTyped, RequestOK, RowOK, BoundOK, SessionOK, Row
<1>4. CASE Revoke
  <2>1. UNCHANGED <<users, rows, passwords, account, generation, at>>
    BY <1>4 DEF Revoke, RowVars
  <2>2. /\ sessions' \in [Browser -> SessionT \cup {None}]
        /\ \A b \in Browser : sessions'[b] \in {sessions[b], None}
    <3> DEFINE r == Min(DOMAIN pass.found)
    <3>1. SessionsDeleteUser(r) \/ UNCHANGED sessions
      BY <1>4 DEF Revoke
    <3> HIDE DEF r
    <3>2. CASE SessionsDeleteUser(r)
      BY <3>2, DeleteSessions DEF Inv
    <3>3. CASE UNCHANGED sessions
      BY <3>3 DEF Inv, Typed
    <3> QED BY <3>1, <3>2, <3>3
  <2> QED BY <2>1, <2>2, SessionsEnd
<1>5. ASSUME UNCHANGED <<users, rows, passwords, sessions, account, generation, at>> PROVE Inv'
  BY <1>5 DEF Inv, Typed, RowsTyped, RequestOK, RowOK, BoundOK, SessionOK, Row
<1>6. CASE RevocationPass \/ DirectoryUnreachable \/ ApplyLookups
  BY <1>5, <1>6 DEF RevocationPass, DirectoryUnreachable, ApplyLookups, RowVars
<1>7. ASSUME NEW unread \in SUBSET DOMAIN pass.checked, LookupEach(unread) PROVE Inv'
  BY <1>5, <1>7 DEF LookupEach, RowVars
<1>8. CASE UNCHANGED vars
  BY <1>5, <1>8 DEF vars
<1>9. CASE SignInNext
  BY <1>1, <1>2, <1>3, <1>9, LoginInv, RowRequestsInv, ImportInv DEF SignInNext
<1> QED BY <1>4, <1>6, <1>7, <1>8, <1>9, ReadingInv DEF Next

------------------------------------------------------------------------------
(* Both specifications of the module keep the invariant: with an account    *)
(* for lookups and without.                                                 *)
LEMMA InvAlways == Init /\ [][Next]_vars => []Inv
BY InitInv, NextInv, PTL

(* No account holds a session on a row bound to another one, whatever       *)
(* sign-ins, renames, additions, removals and imports come between the      *)
(* store calls of finish_directory; a session started across a reset of the *)
(* row is excepted, as in the property.                                     *)
THEOREM SessionsAreTheRows == Spec => []SessionIsTheRowsAccount
<1>1. Inv => SessionIsTheRowsAccount
  BY DEF Inv, SessionOK, SessionIsTheRowsAccount, SignedIn, RowOf
<1> QED BY InvAlways, <1>1, PTL DEF Spec

(* A local password never opens a directory user's row, nor a directory     *)
(* account a local one's (check_local, finish_local, finish_directory).     *)
THEOREM KindsStayApart == Spec => []KindsApart
<1>1. Inv => KindsApart
  BY DEF Inv, SessionOK, KindsApart, SignedIn, RowOf
<1> QED BY InvAlways, <1>1, PTL DEF Spec

(* A session is of the database the sign-in was checked against (the        *)
(* generation compared at the second hold of the gate).                     *)
THEOREM RecordedInItsDatabase == Spec => []RecordedWhereChecked
<1>1. Inv => RecordedWhereChecked
  BY DEF Inv, SessionOK, RecordedWhereChecked, SignedIn
<1> QED BY InvAlways, <1>1, PTL DEF Spec
==============================================================================
