---------------------------- MODULE AccessProofs -----------------------------
(****************************************************************************)
(* Proofs about the credential store, the directory and the catalogue of    *)
(* servers, as AccessParts has them: for any accounts, servers, hosts and   *)
(* requests, any directory and any number of its controllers, and files of  *)
(* any length.                                                              *)
(****************************************************************************)
EXTENDS AccessParts, WellFoundedInduction, TLAPS

(****************************************************************************)
(* Vault.  A sealed password carries the account it was saved by in its     *)
(* associated data; and what the database holds is sealed under the key of  *)
(* its local wrap, which is the one in memory except within a reset.        *)
(****************************************************************************)

(* Accounts, sealed passwords and requests, of any key.                     *)
AnySid == Sid \cup {None}
SealedAs == [key : Nat, aad : AnySid \X VaultServer, by : AnySid]
RequestAs == [op : VA!Op, step : 0..2, key : Nat, sid : AnySid, server : VaultServer \cup {None},
              cred : SealedAs \cup {None}]

(* The types of what the database and the process hold of the keys.         *)
Stored ==
    /\ keys \in Nat /\ master \in Nat /\ recovery \in Nat /\ sid \in AnySid
    /\ local \in [key : Nat, host : Host \cup {None}] /\ host \in Host
    /\ console \in [open : BOOLEAN, key : Nat]

Requests == request \in [Admin \cup Client -> RequestAs]

Saved == saved \in [VaultServer -> SealedAs \cup {None}]

(* The account a password was saved by is in its associated data.           *)
OwnData(cred) == cred.aad[1] = cred.by

(* This is so of every saved password and of one a connect has read.        *)
Owned ==
    /\ \A s \in VaultServer : saved[s] = None \/ OwnData(saved[s])
    /\ \A c \in Client : VA!Doing(c, "connect", 1) => OwnData(request[c].cred)

(* A request changed in some of its fields is a request.                    *)
LEMMA RequestChanged ==
    ASSUME NEW v \in RequestAs
    PROVE /\ \A o \in VA!Op : [v EXCEPT !.op = o] \in RequestAs
          /\ \A n \in 0..2 : [v EXCEPT !.step = n] \in RequestAs
          /\ \A o \in VA!Op, k \in Nat : [v EXCEPT !.op = o, !.key = k] \in RequestAs
          /\ \A n \in 0..2, k \in Nat : [v EXCEPT !.step = n, !.key = k] \in RequestAs
          /\ \A n \in 0..2, cred \in SealedAs \cup {None} :
                [v EXCEPT !.step = n, !.cred = cred] \in RequestAs
          /\ \A o \in VA!Op, i \in AnySid, s \in VaultServer :
                [v EXCEPT !.op = o, !.sid = i, !.server = s] \in RequestAs
  <1>1. ASSUME NEW O, NEW N, NEW K, NEW I, NEW S, NEW C,
               v \in [op : O, step : N, key : K, sid : I, server : S, cred : C]
        PROVE LET R == [op : O, step : N, key : K, sid : I, server : S, cred : C]
              IN  /\ \A o \in O : [v EXCEPT !.op = o] \in R
                  /\ \A n \in N : [v EXCEPT !.step = n] \in R
                  /\ \A o \in O, k \in K : [v EXCEPT !.op = o, !.key = k] \in R
                  /\ \A n \in N, k \in K : [v EXCEPT !.step = n, !.key = k] \in R
                  /\ \A n \in N, c \in C : [v EXCEPT !.step = n, !.cred = c] \in R
                  /\ \A o \in O, i \in I, s \in S :
                        [v EXCEPT !.op = o, !.sid = i, !.server = s] \in R
    BY <1>1, Zenon
  <1> QED
    BY <1>1, Zenon DEF RequestAs

(* A request slot between two requests has the type of one.                 *)
LEMMA IdleIsRequest == VA!Idle \in RequestAs
  BY DEF VA!Idle, RequestAs, VA!Op, AnySid

(* The initial values have their types.                                     *)
LEMMA VaultTypesInit == VA!Init => Stored /\ Requests /\ Saved
  BY IdleIsRequest DEF VA!Init, Stored, Requests, Saved, VA!NoWrap, VA!Closed, AnySid

(* What each request's step makes of the requests.                          *)
LEMMA RequestsNext == Stored /\ Requests /\ Saved /\ [VA!Next]_VA!vars => Requests'
  <1> SUFFICES ASSUME Stored, Requests, Saved, [VA!Next]_VA!vars PROVE Requests'
    OBVIOUS
  <1>1. ASSUME NEW r \in Admin \cup Client, NEW v \in RequestAs, VA!Set(r, v) PROVE Requests'
    BY <1>1 DEF VA!Set, Requests
  <1>2. VA!Idle \in RequestAs
    BY IdleIsRequest
  <1>3. ASSUME NEW r \in Admin \cup Client, VA!Done(r) PROVE Requests'
    BY <1>1, <1>2, <1>3 DEF VA!Done
  <1>4. CASE UNCHANGED request
    BY <1>4 DEF Requests
  <1>5. CASE request' = [r \in Admin \cup Client |-> VA!Idle]
    BY <1>2, <1>5 DEF Requests
  <1>6. CASE \/ VA!Start \/ VA!Move \/ VA!ClearSid \/ VA!BindSid \/ VA!ConsoleOpen
             \/ VA!ConsoleSetSecret \/ VA!ConsoleUnlock \/ VA!ConsoleReset
             \/ VA!ConsoleImport \/ VA!ConsoleClose
             \/ \E given \in SUBSET VaultServer : VA!SetAssignments(given)
             \/ \E s \in VaultServer : VA!ForgetCredential(s)
             \/ UNCHANGED VA!vars
    BY <1>4, <1>6 DEF VA!Start, VA!Move, VA!ClearSid, VA!BindSid, VA!ConsoleOpen,
       VA!ConsoleSetSecret, VA!ConsoleUnlock, VA!ConsoleReset, VA!ConsoleImport, VA!ConsoleClose,
       VA!SetAssignments, VA!ForgetCredential, VA!vars
  <1>7. CASE VA!Stop \/ VA!Import
    BY <1>5, <1>7 DEF VA!Stop, VA!Import
  <1>8. ASSUME NEW a \in Admin, VA!SetRecovery(a) PROVE Requests'
    <2>1. [VA!Idle EXCEPT !.op = "set_recovery", !.key = master] \in RequestAs
      BY IdleIsRequest, RequestChanged, Zenon DEF VA!Op, Stored
    <2>3. request[a] \in RequestAs /\ 1 \in 0..2 /\ master \in Nat
      BY DEF Requests, Stored
    <2>2. [request[a] EXCEPT !.step = 1] \in RequestAs
      BY RequestChanged, <2>3, Zenon
    <2> QED
      BY <1>1, <1>3, <1>8, <2>1, <2>2 DEF VA!SetRecovery
  <1>9. ASSUME NEW a \in Admin, VA!Unlock(a) PROVE Requests'
    <2>1. [VA!Idle EXCEPT !.op = "unlock", !.key = recovery] \in RequestAs
      BY IdleIsRequest, RequestChanged, Zenon DEF VA!Op, Stored
    <2>3. request[a] \in RequestAs /\ 1 \in 0..2 /\ master \in Nat
      BY DEF Requests, Stored
    <2>2. [request[a] EXCEPT !.step = 1] \in RequestAs
      BY RequestChanged, <2>3, Zenon
    <2> QED
      BY <1>1, <1>3, <1>9, <2>1, <2>2 DEF VA!Unlock
  <1>10. ASSUME NEW a \in Admin, VA!Reset(a) PROVE Requests'
    <2>1. [VA!Idle EXCEPT !.op = "reset", !.key = keys + 1] \in RequestAs
      <3>1. keys + 1 \in Nat /\ "reset" \in VA!Op
        BY DEF VA!Op, Stored
      <3> QED
        BY IdleIsRequest, RequestChanged, <3>1, Zenon
    <2> QED
      BY <1>1, <1>3, <1>10, <2>1 DEF VA!Reset
  <1>11. ASSUME NEW a \in Admin, VA!SetDirectoryPassword(a) PROVE Requests'
    <2>1. [VA!Idle EXCEPT !.op = "directory"] \in RequestAs
      BY IdleIsRequest, RequestChanged, Zenon DEF VA!Op, Stored
    <2>3. request[a] \in RequestAs /\ 1 \in 0..2 /\ master \in Nat
      BY DEF Requests, Stored
    <2>2. [request[a] EXCEPT !.step = 1, !.key = master] \in RequestAs
      BY RequestChanged, <2>3, Zenon
    <2> QED
      BY <1>1, <1>3, <1>11, <2>1, <2>2 DEF VA!SetDirectoryPassword
  <1>12. ASSUME NEW c \in Client, NEW s \in VaultServer, VA!SaveCredential(c, s) PROVE Requests'
    <2>1. [VA!Idle EXCEPT !.op = "save", !.sid = sid, !.server = s] \in RequestAs
      BY IdleIsRequest, RequestChanged, Zenon DEF VA!Op, Stored
    <2>3. request[c] \in RequestAs /\ 1 \in 0..2 /\ master \in Nat
      BY DEF Requests, Stored
    <2>2. [request[c] EXCEPT !.step = 1, !.key = master] \in RequestAs
      BY RequestChanged, <2>3, Zenon
    <2> QED
      BY <1>1, <1>3, <1>12, <2>1, <2>2 DEF VA!SaveCredential
  <1>13. ASSUME NEW c \in Client, NEW s \in VaultServer, VA!Connect(c, s) PROVE Requests'
    <2>1. [VA!Idle EXCEPT !.op = "connect", !.sid = sid, !.server = s] \in RequestAs
      BY IdleIsRequest, RequestChanged, Zenon DEF VA!Op, Stored
    <2>3. request[c] \in RequestAs /\ 1 \in 0..2 /\ master \in Nat
      BY DEF Requests, Stored
    <2>2. [request[c] EXCEPT !.step = 1, !.cred = saved[s]] \in RequestAs
      <3>1. saved[s] \in SealedAs \cup {None}
        BY DEF Saved
      <3> QED
        BY RequestChanged, <2>3, <3>1, Zenon
    <2> QED
      BY <1>1, <1>3, <1>13, <2>1, <2>2 DEF VA!Connect
  <1> QED
    BY <1>6, <1>7, <1>8, <1>9, <1>10, <1>11, <1>12, <1>13 DEF VA!Next

(* What the database and the process hold of the keys keeps its type.       *)
LEMMA StoredNext == Stored /\ Requests /\ [VA!Next]_VA!vars => Stored'
  <1> SUFFICES ASSUME Stored, Requests, [VA!Next]_VA!vars PROVE Stored'
    OBVIOUS
  <1> USE DEF VA!database, VA!Apart
  <1>1. ASSUME NEW k \in 0..MaxKeys, VA!Load(k)
        PROVE keys' \in Nat /\ local' \in [key : Nat, host : Host \cup {None}] /\ k \in Nat
    BY <1>1 DEF VA!Load, VA!Wrap, Stored
  <1>2. CASE VA!Start
    BY <1>1, <1>2 DEF VA!Start, Stored
  <1>3. CASE VA!Stop \/ VA!Move \/ UNCHANGED VA!vars
    BY <1>3 DEF VA!Stop, VA!Move, VA!vars, Stored
  <1>4. CASE VA!ClearSid \/ VA!BindSid \/ \E s \in VaultServer : VA!ForgetCredential(s)
    BY <1>4 DEF VA!ClearSid, VA!BindSid, VA!ForgetCredential, Stored, AnySid
  <1>5. CASE VA!Import
    BY <1>5 DEF VA!Import, VA!Adopted, VA!Wrap, Stored, AnySid
  <1>6. ASSUME NEW a \in Admin,
               VA!SetRecovery(a) \/ VA!Unlock(a) \/ VA!Reset(a) \/ VA!SetDirectoryPassword(a)
        PROVE Stored'
    <2>1. request[a].key \in Nat
      BY DEF Requests, RequestAs
    <2>2. CASE VA!SetRecovery(a)
      BY <2>1, <2>2 DEF VA!SetRecovery, Stored
    <2>3. CASE VA!Unlock(a)
      BY <2>1, <2>3 DEF VA!Unlock, VA!Wrap, Stored
    <2>4. CASE VA!Reset(a)
      BY <2>1, <2>4 DEF VA!Reset, VA!ReplaceSecrets, VA!Wrap, Stored
    <2>5. CASE VA!SetDirectoryPassword(a)
      BY <2>5 DEF VA!SetDirectoryPassword, Stored
    <2> QED
      BY <1>6, <2>2, <2>3, <2>4, <2>5
  <1>7. ASSUME NEW given \in SUBSET VaultServer, VA!SetAssignments(given) PROVE Stored'
    BY <1>7 DEF VA!SetAssignments, Stored
  <1>8. ASSUME NEW c \in Client, NEW s \in VaultServer, VA!SaveCredential(c, s) \/ VA!Connect(c, s)
        PROVE Stored'
    BY <1>8 DEF VA!SaveCredential, VA!Connect, Stored
  <1>9. CASE VA!ConsoleOpen
    <2>1. PICK k \in 0..MaxKeys : VA!Load(k) /\ console' = [open |-> TRUE, key |-> k]
      BY <1>9, Zenon DEF VA!ConsoleOpen
    <2>2. console' \in [open : BOOLEAN, key : Nat]
      BY <1>1, <2>1
    <2> QED
      BY <1>1, <1>9, <2>1, <2>2 DEF VA!ConsoleOpen, Stored
  <1>10. CASE VA!ConsoleSetSecret
    BY <1>10 DEF VA!ConsoleSetSecret, VA!Closed, Stored
  <1>11. CASE VA!ConsoleUnlock
    BY <1>11 DEF VA!ConsoleUnlock, VA!Closed, VA!Wrap, Stored
  <1>12. CASE VA!ConsoleReset
    BY <1>12 DEF VA!ConsoleReset, VA!ReplaceSecrets, VA!Closed, VA!Wrap, Stored
  <1>13. CASE VA!ConsoleImport
    BY <1>13 DEF VA!ConsoleImport, VA!Adopted, VA!Closed, VA!Wrap, Stored, AnySid
  <1>14. CASE VA!ConsoleClose
    BY <1>14 DEF VA!ConsoleClose, VA!Closed, Stored
  <1> QED
    BY <1>2, <1>3, <1>4, <1>5, <1>6, <1>7, <1>8, <1>9, <1>10, <1>11, <1>12, <1>13, <1>14 DEF VA!Next

(* A saved credential is new, kept or gone.                                 *)
LEMMA SavedNext ==
    Requests /\ Saved /\ [VA!Next]_VA!vars =>
      /\ Saved'
      /\ \A s \in VaultServer : saved'[s] \in {saved[s], None} \/ saved'[s].aad[1] = saved'[s].by
  <1> SUFFICES ASSUME Requests, Saved, [VA!Next]_VA!vars
               PROVE /\ Saved'
                     /\ \A s \in VaultServer :
                           saved'[s] \in {saved[s], None} \/ saved'[s].aad[1] = saved'[s].by
    OBVIOUS
  <1> USE DEF VA!database, VA!Apart
  <1>1. CASE UNCHANGED saved
    BY <1>1 DEF Saved
  <1>2. CASE saved' = [s \in VaultServer |-> None]
    BY <1>2 DEF Saved
  <1>3. ASSUME NEW given \in SUBSET VaultServer, VA!SetAssignments(given)
        PROVE Saved' /\ \A s \in VaultServer : saved'[s] \in {saved[s], None}
    BY <1>3 DEF VA!SetAssignments, Saved
  <1>4. ASSUME NEW s \in VaultServer, VA!ForgetCredential(s)
        PROVE Saved' /\ \A t \in VaultServer : saved'[t] \in {saved[t], None}
    BY <1>4 DEF VA!ForgetCredential, Saved
  <1>5. ASSUME NEW c \in Client, NEW s \in VaultServer, VA!SaveCredential(c, s)
        PROVE Saved' /\ \A t \in VaultServer : saved'[t] = saved[t] \/ saved'[t].aad[1] = saved'[t].by
    <2> DEFINE cred == [key |-> request[c].key, by |-> request[c].sid,
                        aad |-> VA!CredentialAad(request[c].sid, s)]
    <2>1. request[c].key \in Nat /\ request[c].sid \in AnySid
      BY DEF Requests, RequestAs
    <2>2. cred \in SealedAs /\ cred.aad[1] = cred.by
      BY <2>1 DEF VA!CredentialAad, SealedAs
    <2>3. saved' = saved \/ saved' = [saved EXCEPT ![s] = cred]
      BY <1>5 DEF VA!SaveCredential
    <2> HIDE DEF cred
    <2> QED
      BY <2>2, <2>3 DEF Saved
  <1>6. \/ UNCHANGED saved
        \/ saved' = [s \in VaultServer |-> None]
        \/ \E given \in SUBSET VaultServer : VA!SetAssignments(given)
        \/ \E s \in VaultServer : VA!ForgetCredential(s)
        \/ \E c \in Client, s \in VaultServer : VA!SaveCredential(c, s)
    BY Zenon DEF VA!Next, VA!Start, VA!Stop, VA!Move, VA!Import, VA!Adopted, VA!ClearSid, VA!BindSid,
       VA!SetRecovery, VA!Unlock, VA!Reset, VA!ReplaceSecrets, VA!SetDirectoryPassword, VA!Connect,
       VA!ConsoleOpen, VA!ConsoleSetSecret, VA!ConsoleUnlock, VA!ConsoleReset, VA!ConsoleImport,
       VA!ConsoleClose, VA!vars
  <1> QED
    BY <1>1, <1>2, <1>3, <1>4, <1>5, <1>6

(* A connect holds the credential it held, or one it has just read.         *)
LEMMA CredentialRead ==
    ASSUME Requests, [VA!Next]_VA!vars, NEW q \in Client,
           request'[q].op = "connect", request'[q].step = 1
    PROVE \/ request'[q] = request[q]
          \/ \E s \in VaultServer : saved[s] # None /\ request'[q].cred = saved[s]
  <1>1. ASSUME NEW r \in Admin \cup Client, NEW v, VA!Set(r, v), v.op # "connect" \/ v.step # 1
        PROVE request'[q] = request[q]
    BY <1>1 DEF VA!Set, Requests
  <1>2. VA!Idle.op # "connect"
    BY DEF VA!Idle
  <1>3. ASSUME NEW r \in Admin \cup Client, VA!Done(r) PROVE request'[q] = request[q]
    BY <1>1, <1>2, <1>3 DEF VA!Done
  <1>4. CASE request' = [r \in Admin \cup Client |-> VA!Idle]
    BY <1>2, <1>4
  <1>5. ASSUME NEW a \in Admin,
               VA!SetRecovery(a) \/ VA!Unlock(a) \/ VA!Reset(a) \/ VA!SetDirectoryPassword(a)
        PROVE request'[q] = request[q]
    <2>1. \A o, k : o # "connect" => [VA!Idle EXCEPT !.op = o, !.key = k].op # "connect"
      BY DEF VA!Idle
    <2>2. [VA!Idle EXCEPT !.op = "directory"].op # "connect"
      BY DEF VA!Idle
    <2>3. request[a].op # "connect" =>
            /\ [request[a] EXCEPT !.step = 1].op # "connect"
            /\ [request[a] EXCEPT !.step = 1, !.key = master].op # "connect"
      BY DEF Requests, RequestAs
    <2>4. CASE VA!SetRecovery(a)
      BY <1>1, <1>3, <2>1, <2>3, <2>4, Zenon DEF VA!SetRecovery, VA!Doing
    <2>5. CASE VA!Unlock(a)
      BY <1>1, <1>3, <2>1, <2>3, <2>5, Zenon DEF VA!Unlock, VA!Doing
    <2>6. CASE VA!Reset(a)
      BY <1>1, <1>3, <2>1, <2>6, Zenon DEF VA!Reset, VA!Doing
    <2>7. CASE VA!SetDirectoryPassword(a)
      BY <1>1, <1>3, <2>2, <2>3, <2>7, Zenon DEF VA!SetDirectoryPassword, VA!Doing
    <2> QED
      BY <1>5, <2>4, <2>5, <2>6, <2>7
  <1>6. ASSUME NEW c \in Client, NEW s \in VaultServer, VA!SaveCredential(c, s)
        PROVE request'[q] = request[q]
    <2>1. [VA!Idle EXCEPT !.op = "save", !.sid = sid, !.server = s].op # "connect"
      BY DEF VA!Idle
    <2>2. request[c].op # "connect" =>
            [request[c] EXCEPT !.step = 1, !.key = master].op # "connect"
      BY DEF Requests, RequestAs
    <2> QED
      BY <1>1, <1>3, <1>6, <2>1, <2>2, Zenon DEF VA!SaveCredential, VA!Doing
  <1>7. ASSUME NEW c \in Client, NEW s \in VaultServer, VA!Connect(c, s)
        PROVE request'[q] = request[q] \/ (saved[s] # None /\ request'[q].cred = saved[s])
    <2>1. [VA!Idle EXCEPT !.op = "connect", !.sid = sid, !.server = s].step # 1
      BY DEF VA!Idle
    <2>2. [request[c] EXCEPT !.step = 1, !.cred = saved[s]].cred = saved[s]
      BY DEF Requests, RequestAs
    <2>3. ASSUME VA!Set(c, [request[c] EXCEPT !.step = 1, !.cred = saved[s]])
          PROVE request'[q] = request[q] \/ request'[q].cred = saved[s]
      BY <2>2, <2>3 DEF VA!Set, Requests
    <2> QED
      BY <1>1, <1>3, <1>7, <2>1, <2>3, Zenon DEF VA!Connect
  <1>8. \/ UNCHANGED request
        \/ request' = [r \in Admin \cup Client |-> VA!Idle]
        \/ \E a \in Admin :
              VA!SetRecovery(a) \/ VA!Unlock(a) \/ VA!Reset(a) \/ VA!SetDirectoryPassword(a)
        \/ \E c \in Client, s \in VaultServer : VA!SaveCredential(c, s) \/ VA!Connect(c, s)
    BY DEF VA!Next, VA!Start, VA!Stop, VA!Move, VA!Import, VA!ClearSid, VA!BindSid,
       VA!SetAssignments, VA!ForgetCredential, VA!ConsoleOpen, VA!ConsoleSetSecret,
       VA!ConsoleUnlock, VA!ConsoleReset, VA!ConsoleImport, VA!ConsoleClose, VA!vars
  <1> QED
    BY <1>4, <1>5, <1>6, <1>7, <1>8

(* What is saved, and what a connect has read, names who saved it.          *)
LEMMA OwnedNext == Requests /\ Saved /\ Owned /\ [VA!Next]_VA!vars => Owned'
  <1> SUFFICES ASSUME Requests, Saved, Owned, [VA!Next]_VA!vars PROVE Owned'
    OBVIOUS
  <1>1. ASSUME NEW s \in VaultServer PROVE saved'[s] = None \/ OwnData(saved'[s])
    BY SavedNext DEF Owned, OwnData
  <1>2. ASSUME NEW c \in Client, request'[c].op = "connect", request'[c].step = 1
        PROVE OwnData(request'[c].cred)
    BY <1>2, CredentialRead DEF Owned, VA!Doing
  <1> QED
    BY <1>1, <1>2 DEF Owned, VA!Doing

(* For any accounts, servers, hosts and requests, with any number of        *)
(* administrators at once and the command line beside the service: a        *)
(* password is handed only to the account that saved it (HandedToItsOwner;  *)
(* vault.rs credential_aad, web.rs save_credential and connect).            *)
THEOREM HandedOnlyToItsOwner == VA!Spec => []HandedToItsOwner
  <1>1. VA!Init => Owned
    BY DEF VA!Init, VA!Idle, VA!Doing, Owned
  <1>2. Owned => HandedToItsOwner
    BY DEF Owned, OwnData, HandedToItsOwner, VA!HandedToItsOwner, VA!Opens, VA!CredentialAad
  <1> QED
    BY <1>1, <1>2, VaultTypesInit, RequestsNext, StoredNext, SavedNext, OwnedNext, PTL DEF VA!Spec

(* The wraps and the directory password are of one key.                     *)
Wraps ==
    /\ ~(serving /\ console.open)
    /\ local.key = 0 => local = VA!NoWrap
    /\ serving \/ console.open => local.key # 0
    /\ recovery \in {0, local.key} /\ directory \in {0, local.key}
    /\ console.open => console.key \in {0, local.key}

(* The key a request holds between two locks is the one in memory, or about *)
(* to be.                                                                   *)
InStep(v, m, l, h) ==
    /\ v.op = "set_recovery" => m # 0 /\ v.key = m
    /\ v.op = "unlock" => v.key # 0 /\ v.key = l.key /\ (v.step = 1 => l.host = h)
    /\ v.op = "reset" => v.key # 0 /\ l.key = v.key /\ l.host = h
    /\ v.op = "directory" /\ v.step = 1 => m # 0 /\ v.key = m

(* The key in memory opens the local wrap, on this host, except within a    *)
(* reset; and nothing is in memory while the service is down.               *)
InMemory ==
    /\ ~serving => master = 0 /\ \A r \in Admin \cup Client : request[r].op = "idle"
    /\ \A a \in Admin : InStep(request[a], master, local, host)
    /\ (\A a \in Admin : request[a].op # "reset") /\ master # 0 =>
          local.key = master /\ local.host = host

(* One administrator's request at a time, and the command line used only    *)
(* while the service is stopped.                                            *)
Alone == ConsoleBeside = FALSE /\ \A a, b \in Admin : a = b

(* Before the first start there is no key.                                  *)
LEMMA KeysInit == VA!Init => Wraps /\ InMemory
  <1> SUFFICES ASSUME VA!Init PROVE Wraps /\ InMemory
    OBVIOUS
  <1>1. Wraps
    BY DEF VA!Init, VA!NoWrap, VA!Closed, Wraps
  <1>2. InMemory
    BY DEF VA!Init, VA!Idle, InStep, InMemory
  <1> QED
    BY <1>1, <1>2

(* Loading finds the database's key, or none on this host, or makes the     *)
(* first.                                                                   *)
LEMMA Loaded ==
    ASSUME Stored, Wraps, NEW k \in 0..MaxKeys, VA!Load(k)
    PROVE /\ k \in {0, local'.key} /\ local'.key # 0
          /\ k # 0 => local'.host = host
          /\ local' = local \/ (recovery = 0 /\ local.key = 0)
  <1>1. CASE local # VA!NoWrap
    BY <1>1 DEF VA!Load, Wraps, Stored
  <1>2. CASE local = VA!NoWrap
    <2>1. recovery = 0 /\ local.key = 0
      BY <1>2 DEF Wraps, VA!NoWrap
    <2>2. k = keys + 1 /\ k # 0 /\ local' = VA!Wrap(k)
      BY <1>2, <2>1 DEF VA!Load, Stored
    <2> QED
      BY <2>1, <2>2 DEF VA!Wrap
  <1> QED
    BY <1>1, <1>2

(* Both wraps and the directory password stay under one key.                *)
LEMMA WrapsNext ==
    ASSUME Alone, Stored, Requests, Wraps, InMemory, [VA!Next]_VA!vars
    PROVE Wraps'
  <1> USE DEF VA!database, VA!Apart
  <1>1. CASE VA!Start
    <2>1. PICK k \in 0..MaxKeys : VA!Load(k)
      BY <1>1 DEF VA!Start
    <2>2. ~console.open /\ UNCHANGED <<recovery, directory, console>>
      BY <1>1 DEF VA!Start, Alone
    <2> QED
      BY <2>1, <2>2, Loaded DEF Wraps
  <1>2. CASE VA!Stop \/ VA!Move \/ UNCHANGED VA!vars
    BY <1>2 DEF VA!Stop, VA!Move, VA!vars, Wraps
  <1>3. CASE \/ VA!ClearSid \/ VA!BindSid
             \/ \E s \in VaultServer : VA!ForgetCredential(s)
             \/ \E given \in SUBSET VaultServer : VA!SetAssignments(given)
             \/ \E c \in Client, s \in VaultServer : VA!SaveCredential(c, s) \/ VA!Connect(c, s)
    <2>1. UNCHANGED <<serving, local, recovery, directory, console>>
      BY <1>3, Zenon DEF VA!ClearSid, VA!BindSid, VA!ForgetCredential, VA!SetAssignments,
         VA!SaveCredential, VA!Connect
    <2> QED
      BY <2>1 DEF Wraps
  <1>4. CASE VA!Import
    <2>1. keys + 1 # 0
      BY DEF Stored
    <2> QED
      BY <1>4, <2>1 DEF VA!Import, VA!Adopted, VA!Wrap, Wraps
  <1>5. ASSUME NEW a \in Admin, VA!SetRecovery(a) PROVE Wraps'
    <2>1. request[a].op = "set_recovery" => request[a].key = local.key
      BY DEF InMemory, InStep, Alone
    <2> QED
      BY <1>5, <2>1 DEF VA!SetRecovery, VA!Doing, Wraps
  <1>6. ASSUME NEW a \in Admin, VA!Unlock(a) PROVE Wraps'
    <2>1. request[a].op = "unlock" => request[a].key = local.key /\ request[a].key # 0
      BY DEF InMemory, InStep
    <2> QED
      BY <1>6, <2>1 DEF VA!Unlock, VA!Doing, VA!Wrap, Wraps
  <1>7. ASSUME NEW a \in Admin, VA!Reset(a) PROVE Wraps'
    <2>1. keys + 1 # 0
      BY DEF Stored
    <2> QED
      BY <1>7, <2>1 DEF VA!Reset, VA!Free, VA!ReplaceSecrets, VA!Wrap, Wraps
  <1>8. ASSUME NEW a \in Admin, VA!SetDirectoryPassword(a) PROVE Wraps'
    <2>1. request[a].op = "directory" /\ request[a].step = 1 => request[a].key = local.key
      BY DEF InMemory, InStep, Alone
    <2> QED
      BY <1>8, <2>1 DEF VA!SetDirectoryPassword, VA!Doing, Wraps
  <1>9. CASE VA!ConsoleOpen
    <2>1. PICK k \in 0..MaxKeys : VA!Load(k) /\ console' = [open |-> TRUE, key |-> k]
      BY <1>9, Zenon DEF VA!ConsoleOpen
    <2>2. ~serving /\ UNCHANGED <<serving, recovery, directory>>
      BY <1>9 DEF VA!ConsoleOpen, Alone
    <2>3. console'.key = k
      BY <2>1
    <2> QED
      BY <2>1, <2>2, <2>3, Loaded DEF Wraps
  <1>10. CASE VA!ConsoleSetSecret
    BY <1>10 DEF VA!ConsoleSetSecret, VA!Closed, Wraps
  <1>11. CASE VA!ConsoleUnlock
    BY <1>11 DEF VA!ConsoleUnlock, VA!Closed, VA!Wrap, Wraps
  <1>12. CASE VA!ConsoleReset \/ VA!ConsoleImport
    <2>1. keys + 1 # 0
      BY DEF Stored
    <2> QED
      BY <1>12, <2>1
         DEF VA!ConsoleReset, VA!ConsoleImport, VA!ReplaceSecrets, VA!Adopted, VA!Closed,
            VA!Wrap, Wraps
  <1>13. CASE VA!ConsoleClose
    BY <1>13 DEF VA!ConsoleClose, VA!Closed, Wraps
  <1> QED
    BY <1>1, <1>2, <1>3, <1>4, <1>5, <1>6, <1>7, <1>8, <1>9, <1>10, <1>11, <1>12, <1>13 DEF VA!Next

(* A change of one request, seen from the administrators.                   *)
LEMMA OneChanged ==
    ASSUME Requests, NEW r \in Admin \cup Client, NEW v, VA!Set(r, v), NEW a \in Admin
    PROVE request'[a] = IF a = r THEN v ELSE request[a]
  BY DEF Requests, VA!Set

(* The key in memory, and the one a request works with between two locks,   *)
(* stay those of the local wrap.                                            *)
LEMMA InMemoryNext ==
    ASSUME Alone, Stored, Requests, Wraps, InMemory, [VA!Next]_VA!vars
    PROVE InMemory'
  <1> USE DEF VA!database, VA!Apart
  <1>i. VA!Idle.op = "idle"
    BY DEF VA!Idle
  <1>1. CASE VA!Start
    <2>1. PICK k \in 0..MaxKeys : VA!Load(k) /\ master' = k
      BY <1>1 DEF VA!Start
    <2>2. UNCHANGED <<host, request>> /\ serving' /\ ~serving
      BY <1>1 DEF VA!Start
    <2> QED
      BY <2>1, <2>2, Loaded DEF InMemory, InStep
  <1>2. CASE request' = [r \in Admin \cup Client |-> VA!Idle] /\ master' = 0
    BY <1>2, <1>i DEF InMemory, InStep
  <1>3. CASE VA!Stop
    BY <1>2, <1>3 DEF VA!Stop
  <1>4. CASE VA!Import
    <2>1. /\ \A a \in Admin : request'[a].op = "idle"
          /\ serving' /\ local'.key = master' /\ local'.host = host'
      BY <1>4, <1>i DEF VA!Import, VA!Adopted, VA!Wrap
    <2> QED
      BY <2>1 DEF InMemory, InStep
  <1>5. CASE ~serving /\ UNCHANGED <<serving, master, request>>
    BY <1>5 DEF InMemory, InStep
  <1>6. CASE UNCHANGED <<serving, master, host, local, request>>
    BY <1>6 DEF InMemory
  <1>7. CASE \/ VA!ConsoleOpen \/ VA!ConsoleSetSecret \/ VA!ConsoleUnlock \/ VA!ConsoleReset
             \/ VA!ConsoleImport \/ VA!ConsoleClose \/ VA!Move
    <2>1. ~serving /\ UNCHANGED <<serving, master, request>>
      BY <1>7 DEF VA!ConsoleOpen, VA!ConsoleSetSecret, VA!ConsoleUnlock, VA!ConsoleReset,
         VA!ConsoleImport, VA!ConsoleClose, VA!Move, Wraps, Alone
    <2> QED
      BY <1>5, <2>1
  <1>8. CASE \/ VA!ClearSid \/ VA!BindSid \/ UNCHANGED VA!vars
             \/ \E s \in VaultServer : VA!ForgetCredential(s)
             \/ \E given \in SUBSET VaultServer : VA!SetAssignments(given)
    <2>1. UNCHANGED <<serving, master, host, local, request>>
      BY <1>8 DEF VA!ClearSid, VA!BindSid, VA!ForgetCredential, VA!SetAssignments, VA!vars
    <2> QED
      BY <1>6, <2>1
  <1>9. ASSUME NEW c \in Client, NEW s \in VaultServer, VA!SaveCredential(c, s) \/ VA!Connect(c, s)
        PROVE InMemory'
    <2>1. ASSUME NEW v, VA!Set(c, v), v.op \in {"idle", "save", "connect"},
                 request[c].op \in {"idle", "save", "connect"}
          PROVE InMemory'
      <3>1. /\ UNCHANGED <<serving, master, host, local>>
            /\ serving
        BY <1>9 DEF VA!SaveCredential, VA!Connect, VA!Free, VA!Doing, InMemory
      <3>2. CASE c \in Admin
        BY <2>1, <3>1, <3>2, OneChanged DEF InMemory, InStep, Alone
      <3>3. CASE c \notin Admin
        <4>1. \A a \in Admin : request'[a] = request[a]
          BY <2>1, <3>3, OneChanged
        <4> QED
          BY <3>1, <4>1 DEF InMemory
      <3> QED
        BY <3>2, <3>3
    <2>2. /\ [VA!Idle EXCEPT !.op = "save", !.sid = sid, !.server = s].op = "save"
          /\ [VA!Idle EXCEPT !.op = "connect", !.sid = sid, !.server = s].op = "connect"
      BY DEF VA!Idle
    <2>3. /\ [request[c] EXCEPT !.step = 1, !.key = master].op = request[c].op
          /\ [request[c] EXCEPT !.step = 1, !.cred = saved[s]].op = request[c].op
      BY DEF Requests, RequestAs
    <2>4. CASE VA!SaveCredential(c, s)
      BY <1>i, <2>1, <2>2, <2>3, <2>4, Zenon DEF VA!SaveCredential, VA!Done, VA!Free, VA!Doing
    <2>5. CASE VA!Connect(c, s)
      BY <1>i, <2>1, <2>2, <2>3, <2>5, Zenon DEF VA!Connect, VA!Done, VA!Free, VA!Doing
    <2> QED
      BY <1>9, <2>4, <2>5
  <1>10. ASSUME NEW a \in Admin, NEW v, VA!Set(a, v), serving, serving' = serving,
                InStep(v, master', local', host'),
                v.op # "reset" /\ master' # 0 => local'.key = master' /\ local'.host = host'
         PROVE InMemory'
    <2>1. \A b \in Admin : request'[b] = v
      BY <1>10, OneChanged DEF Alone
    <2> QED
      BY <1>10, <2>1 DEF InMemory
  <1>11. ASSUME NEW a \in Admin, VA!Done(a), UNCHANGED serving, serving,
                master' # 0 => local'.key = master' /\ local'.host = host'
         PROVE InMemory'
    BY <1>i, <1>10, <1>11 DEF VA!Done, InStep
  <1>12. ASSUME NEW a \in Admin, request[a].op # "reset", master # 0
         PROVE local.key = master /\ local.host = host
    BY <1>12 DEF InMemory, Alone
  <1>13. ASSUME NEW a \in Admin, VA!SetRecovery(a) PROVE InMemory'
    <2>1. /\ UNCHANGED <<serving, master, host, local>>
          /\ serving /\ request[a].op # "reset"
      BY <1>13 DEF VA!SetRecovery, VA!Free, VA!Doing, InMemory
    <2> DEFINE v == [VA!Idle EXCEPT !.op = "set_recovery", !.key = master]
               w == [request[a] EXCEPT !.step = 1]
    <2>2. v.op = "set_recovery" /\ v.key = master
      BY DEF VA!Idle
    <2>3. w.op = request[a].op /\ w.key = request[a].key
      BY DEF Requests, RequestAs
    <2> HIDE DEF v, w
    <2>4. CASE master # 0 /\ VA!Set(a, v)
      BY <1>10, <1>12, <2>1, <2>2, <2>4 DEF InStep
    <2>5. CASE request[a].op = "set_recovery" /\ VA!Set(a, w)
      BY <1>10, <1>12, <2>1, <2>3, <2>5 DEF InStep, InMemory
    <2>6. CASE VA!Done(a)
      BY <1>11, <1>12, <2>1, <2>6
    <2> QED
      BY <1>13, <2>4, <2>5, <2>6 DEF VA!SetRecovery, VA!Doing, v, w
  <1>14. ASSUME NEW a \in Admin, VA!Unlock(a) PROVE InMemory'
    <2>1. /\ UNCHANGED <<serving, host>>
          /\ serving /\ request[a].op # "reset"
      BY <1>14 DEF VA!Unlock, VA!Free, VA!Doing, InMemory
    <2> DEFINE v == [VA!Idle EXCEPT !.op = "unlock", !.key = recovery]
               w == [request[a] EXCEPT !.step = 1]
    <2>2. v.op = "unlock" /\ v.key = recovery /\ v.step = 0
      BY DEF VA!Idle
    <2>3. w.op = request[a].op /\ w.key = request[a].key
      BY DEF Requests, RequestAs
    <2>4. request[a].op = "unlock" => request[a].key = local.key /\ request[a].key # 0
      BY DEF InMemory, InStep
    <2> HIDE DEF v, w
    <2>5. CASE recovery # 0 /\ VA!Set(a, v) /\ UNCHANGED <<master, local>>
      <3>1. InStep(v, master', local', host')
        BY <2>2, <2>5 DEF InStep, Wraps
      <3>2. master' # 0 => local'.key = master' /\ local'.host = host'
        BY <1>12, <2>1, <2>5
      <3> QED
        BY <1>10, <2>1, <2>5, <3>1, <3>2
    <2>6. CASE /\ request[a].op = "unlock" /\ VA!Set(a, w)
               /\ master' = master /\ local' = VA!Wrap(request[a].key)
      <3>1. local'.key = request[a].key /\ local'.host = host
        BY <2>6 DEF VA!Wrap
      <3> QED
        BY <1>10, <1>12, <2>1, <2>3, <2>4, <2>6, <3>1 DEF InStep
    <2>7. CASE /\ request[a].op = "unlock" /\ request[a].step = 1 /\ VA!Done(a)
               /\ master' = request[a].key /\ local' = local
      BY <1>11, <2>1, <2>4, <2>7 DEF InMemory, InStep
    <2> QED
      BY <1>14, <2>5, <2>6, <2>7 DEF VA!Unlock, VA!Doing, v, w
  <1>15. ASSUME NEW a \in Admin, VA!Reset(a) PROVE InMemory'
    <2>1. UNCHANGED <<serving, host>> /\ serving
      BY <1>15 DEF VA!Reset, VA!ReplaceSecrets, VA!Free, VA!Doing, InMemory
    <2> DEFINE v == [VA!Idle EXCEPT !.op = "reset", !.key = keys + 1]
    <2>2. v.op = "reset" /\ v.key = keys + 1 /\ v.key # 0
      BY DEF VA!Idle, Stored
    <2> HIDE DEF v
    <2>3. CASE VA!Set(a, v) /\ local' = VA!Wrap(keys + 1)
      <3>1. local'.key = keys + 1 /\ local'.host = host
        BY <2>3 DEF VA!Wrap
      <3> QED
        BY <1>10, <2>1, <2>2, <2>3, <3>1 DEF InStep
    <2>4. CASE request[a].op = "reset" /\ VA!Done(a) /\ master' = request[a].key /\ local' = local
      BY <1>11, <2>1, <2>4 DEF InMemory, InStep
    <2> QED
      BY <1>15, <2>3, <2>4 DEF VA!Reset, VA!ReplaceSecrets, VA!Doing, v
  <1>16. ASSUME NEW a \in Admin, VA!SetDirectoryPassword(a) PROVE InMemory'
    <2>1. /\ UNCHANGED <<serving, master, host, local>>
          /\ serving /\ request[a].op # "reset"
      BY <1>16 DEF VA!SetDirectoryPassword, VA!Free, VA!Doing, InMemory
    <2> DEFINE v == [VA!Idle EXCEPT !.op = "directory"]
               w == [request[a] EXCEPT !.step = 1, !.key = master]
    <2>2. v.op = "directory" /\ v.step = 0
      BY DEF VA!Idle
    <2>3. w.op = request[a].op /\ w.key = master
      BY DEF Requests, RequestAs
    <2> HIDE DEF v, w
    <2>4. CASE VA!Set(a, v)
      <3>1. InStep(v, master', local', host')
        BY <2>2 DEF InStep
      <3>2. master' # 0 => local'.key = master' /\ local'.host = host'
        BY <1>12, <2>1
      <3> QED
        BY <1>10, <2>1, <2>4, <3>1, <3>2
    <2>5. CASE request[a].op = "directory" /\ master # 0 /\ VA!Set(a, w)
      BY <1>10, <1>12, <2>1, <2>3, <2>5 DEF InStep
    <2>6. CASE VA!Done(a)
      BY <1>11, <1>12, <2>1, <2>6
    <2> QED
      BY <1>16, <2>4, <2>5, <2>6 DEF VA!SetDirectoryPassword, VA!Doing, v, w
  <1> QED
    BY <1>1, <1>3, <1>4, <1>7, <1>8, <1>9, <1>13, <1>14, <1>15, <1>16 DEF VA!Next

(* With one administrator's request at a time and the command line not used *)
(* while the service runs, for any accounts, servers, hosts and user        *)
(* requests: an unlocked store has one key, in memory, in both wraps and    *)
(* under the directory password (OneKeyPerDatabase; vault.rs load, unlock,  *)
(* reset, set_recovery).                                                    *)
THEOREM OneKeyEverywhere ==
    ASSUME Alone
    PROVE VA!Spec => []OneKeyPerDatabase
  <1>1. Stored /\ Requests /\ Saved /\ Wraps /\ InMemory /\ [VA!Next]_VA!vars =>
            Wraps' /\ InMemory'
    BY WrapsNext, InMemoryNext, Alone
  <1>2. Stored /\ Wraps /\ InMemory => OneKeyPerDatabase
    <2> SUFFICES ASSUME Stored, Wraps, InMemory, serving, master # 0
                 PROVE /\ VA!AdminIdle => local = VA!Wrap(master) /\ recovery \in {0, master}
                       /\ (\A a \in Admin : request[a] = VA!Idle) => directory \in {0, master}
      BY DEF OneKeyPerDatabase, VA!OneKeyPerDatabase, VA!DirectoryPasswordOpens
    <2>1. VA!AdminIdle => local = VA!Wrap(master) /\ local.key = master
      BY DEF VA!AdminIdle, InMemory, VA!Wrap, Stored
    <2>2. (\A a \in Admin : request[a] = VA!Idle) => VA!AdminIdle
      BY DEF VA!AdminIdle, VA!Idle
    <2> QED
      BY <2>1, <2>2 DEF Wraps
  <1> QED
    BY <1>1, <1>2, KeysInit, VaultTypesInit, RequestsNext, StoredNext, SavedNext, PTL DEF VA!Spec

------------------------------------------------------------------------------
(****************************************************************************)
(* Directory.  The controllers still to ask and those found down are all    *)
(* there are; and the account bound is of the configured domain once its    *)
(* name is known, under which only one account of that domain is found.     *)
(****************************************************************************)

(* u is still to be asked.                                                  *)
ToAsk(u, order) == \E i \in 1..Len(order) : order[i] = u

(* Every controller is still to be asked or was found down.                 *)
Asking ==
    /\ Urls = 0 \/ preferred \in 1..Urls
    /\ bind.asked \subseteq 1..Urls
    /\ bind.order \in Seq(1..Urls)
    /\ bind.step = "connect" => \A u \in 1..Urls : u \in bind.asked \/ ToAsk(u, bind.order)
    /\ bind.step = "unreachable" => bind.asked = 1..Urls

(* What is known of the account at each step.                               *)
Identified ==
    /\ bind = [step |-> bind.step, bind |-> bind.bind, order |-> bind.order, asked |-> bind.asked,
               bound |-> bind.bound, whoami |-> bind.whoami, signedIn |-> bind.signedIn]
    /\ DI!Distinct(entry)
    /\ ~netbios => bind.bind.domain = "own"
    /\ bind.step = "bound" =>
          bind.bound \in DirAccount /\ (~netbios => entry[bind.bound].domain = "own")
    /\ bind.step = "known" =>
          /\ bind.bound \in DirAccount /\ entry[bind.bound].domain = "own"
          /\ bind.whoami = [form |-> "back", name |-> entry[bind.bound].short, domain |-> "own"]
    /\ bind.step = "signed in" => bind.signedIn = bind.bound

(* try_order names every controller.                                        *)
LEMMA TryOrderIsAll ==
    ASSUME Urls = 0 \/ preferred \in 1..Urls
    PROVE DI!TryOrder \in Seq(1..Urls) /\ \A u \in 1..Urls : ToAsk(u, DI!TryOrder)
  <1> DEFINE at(i) == IF i = 1 THEN preferred ELSE IF i <= preferred THEN i - 1 ELSE i
  <1>1. \A i \in 1..Urls : at(i) \in 1..Urls
    BY DirectoryAssumption
  <1>2. /\ DI!TryOrder = [i \in 1..Urls |-> at(i)] /\ DI!TryOrder \in Seq(1..Urls)
        /\ Len(DI!TryOrder) = Urls
    BY <1>1, DirectoryAssumption DEF DI!TryOrder
  <1>3. ASSUME NEW u \in 1..Urls PROVE \E i \in 1..Urls : at(i) = u
    <2>1. CASE u = preferred
      BY <2>1, DirectoryAssumption
    <2>2. CASE u < preferred
      <3>1. u + 1 \in 1..Urls /\ at(u + 1) = u
        BY <2>2, DirectoryAssumption
      <3> QED
        BY <3>1
    <2>3. CASE u > preferred
      <3>1. at(u) = u
        BY <2>3, DirectoryAssumption
      <3> QED
        BY <3>1
    <2> QED
      BY <2>1, <2>2, <2>3, DirectoryAssumption
  <1> QED
    BY <1>2, <1>3, Zenon DEF ToAsk

(* Nobody was asked and nobody is bound.                                    *)
LEMMA DirectoryInit == DI!Init => Asking /\ Identified
  BY DirectoryAssumption DEF DI!Init, DI!Idle, DI!NoName, Asking, Identified

(* A controller leaves the order to ask only for the set of those that are  *)
(* down.                                                                    *)
LEMMA AskingNext == Asking /\ Identified /\ [DI!Next]_DI!vars => Asking'
  <1> SUFFICES ASSUME Asking, Identified, [DI!Next]_DI!vars PROVE Asking'
    OBVIOUS
  <1> USE DirectoryAssumption
  <1>1. ASSUME NEW typed \in DI!Typed, DI!Authenticate(typed) PROVE Asking'
    <2>1. /\ bind'.step = "connect" /\ bind'.order = DI!TryOrder /\ bind'.asked = {}
          /\ preferred' = preferred
      BY <1>1 DEF DI!Authenticate, DI!Idle
    <2> QED
      BY <2>1, TryOrderIsAll DEF Asking
  <1>2. ASSUME NEW answers1 \in BOOLEAN, DI!Connect(answers1) PROVE Asking'
    <2> DEFINE first == Head(bind.order)
    <2>1. bind.step = "connect" /\ bind.order # <<>> /\ first \in 1..Urls
      BY <1>2 DEF DI!Connect, DI!At, Asking
    <2>2. CASE bind' = [bind EXCEPT !.step = "bind"] /\ preferred' = first
      <3>1. bind'.step = "bind" /\ bind'.asked = bind.asked /\ bind'.order = bind.order
        BY <2>2, Zenon DEF Identified
      <3> QED
        BY <2>1, <2>2, <3>1 DEF Asking
    <2>3. CASE /\ bind' = [bind EXCEPT !.order = Tail(@), !.asked = @ \cup {first}]
               /\ UNCHANGED preferred
      <3>1. /\ bind'.step = "connect" /\ bind'.asked = bind.asked \cup {first}
            /\ bind'.order = Tail(bind.order)
        BY <2>1, <2>3 DEF Identified
      <3>2. Tail(bind.order) \in Seq(1..Urls)
        <4>1. \A T, s : s \in Seq(T) /\ s # <<>> => Tail(s) \in Seq(T)
          OBVIOUS
        <4> QED
          BY <2>1, <4>1, Zenon DEF Asking
      <3>3. ASSUME NEW u \in 1..Urls, u # first, ToAsk(u, bind.order)
            PROVE  ToAsk(u, Tail(bind.order))
        <4>1. PICK i \in 1..Len(bind.order) : bind.order[i] = u
          BY <3>3 DEF ToAsk
        <4>2. i # 1 /\ i - 1 \in 1..Len(Tail(bind.order)) /\ Tail(bind.order)[i - 1] = u
          BY <2>1, <3>3, <4>1 DEF Asking
        <4> QED
          BY <4>2 DEF ToAsk
      <3> QED
        BY <2>1, <2>3, <3>1, <3>2, <3>3 DEF Asking
    <2> QED
      BY <1>2, <2>2, <2>3 DEF DI!Connect
  <1>3. CASE DI!Unreachable
    <2>1. /\ bind.step = "connect" /\ bind.order = <<>> /\ bind'.step = "unreachable"
          /\ bind'.asked = bind.asked /\ bind'.order = bind.order /\ preferred' = preferred
      BY <1>3 DEF DI!Unreachable, DI!At, Identified
    <2>2. \A u : ~ToAsk(u, <<>>)
      BY DEF ToAsk
    <2> QED
      BY <2>1, <2>2, Zenon DEF Asking
  <1>4. ASSUME NEW url \in 1..Urls, DI!OtherConnects(url) PROVE Asking'
    BY <1>4 DEF DI!OtherConnects, Asking
  <1>5. ASSUME \/ \E accepts \in BOOLEAN : DI!Bind(accepts)
               \/ DI!WhoAmI
               \/ \E usable \in BOOLEAN : DI!Find(usable)
               \/ DI!Broken
        PROVE Asking'
    <2>1. /\ bind'.step \in {"bound", "refused", "known", "signed in"} /\ bind'.asked = bind.asked
          /\ bind'.order = bind.order /\ preferred' = preferred
      BY <1>5, Zenon DEF DI!Bind, DI!WhoAmI, DI!Find, DI!Broken, Identified
    <2> QED
      BY <2>1, Zenon DEF Asking
  <1>6. CASE UNCHANGED DI!vars
    BY <1>6 DEF DI!vars, Asking
  <1> QED
    BY <1>1, <1>2, <1>3, <1>4, <1>5, <1>6 DEF DI!Next

(* Each step of authenticate says of the account only what the directory    *)
(* said of the one that was bound.                                          *)
LEMMA IdentifiedNext == Identified /\ [DI!Next]_DI!vars => Identified'
  <1> SUFFICES ASSUME Identified, [DI!Next]_DI!vars PROVE Identified'
    OBVIOUS
  <1>1. ASSUME NEW typed \in DI!Typed, DI!Authenticate(typed) PROVE Identified'
    <2>1. ~netbios => DI!SignInName(typed).domain = "own"
      BY DEF DI!SignInName, DI!BindName
    <2>2. /\ bind' = [DI!Idle EXCEPT !.step = "connect", !.bind = DI!SignInName(typed),
                                     !.order = DI!TryOrder]
          /\ UNCHANGED <<netbios, entry>>
      BY <1>1 DEF DI!Authenticate, DI!dirVars
    <2> QED
      BY <2>1, <2>2, Zenon DEF DI!Idle, Identified
  <1>2. ASSUME NEW answers1 \in BOOLEAN, DI!Connect(answers1) PROVE Identified'
    BY <1>2, Zenon DEF DI!Connect, DI!At, DI!dirVars, Identified
  <1>3. CASE DI!Unreachable
    BY <1>3, Zenon DEF DI!Unreachable, DI!dirVars, Identified
  <1>4. ASSUME NEW url \in 1..Urls, DI!OtherConnects(url) PROVE Identified'
    BY <1>4, Zenon DEF DI!OtherConnects, DI!dirVars, Identified
  <1>5. ASSUME NEW accepts \in BOOLEAN, DI!Bind(accepts) PROVE Identified'
    <2> DEFINE who == DI!Resolves(bind.bind)
               one == CHOOSE w \in who : TRUE
    <2>1. ASSUME who # {} PROVE one \in DirAccount /\ entry[one].domain = bind.bind.domain
      <3>1. one \in who
        BY <2>1
      <3> QED
        BY <3>1 DEF DI!Resolves, DI!BySignInName, DI!ByShortName
    <2> HIDE DEF one
    <2>2. CASE who # {} /\ bind' = [bind EXCEPT !.step = "bound", !.bound = one]
      <3>1. UNCHANGED <<netbios, entry>>
        BY <1>5 DEF DI!Bind, DI!dirVars
      <3> HIDE DEF who
      <3> QED
        BY <2>1, <2>2, <3>1, Zenon DEF Identified
    <2>3. CASE bind' = [bind EXCEPT !.step = "refused"]
      BY <1>5, <2>3, Zenon DEF DI!Bind, DI!dirVars, Identified
    <2> QED
      BY <1>5, <2>2, <2>3 DEF DI!Bind, one
  <1>6. CASE DI!WhoAmI
    BY <1>6, Zenon DEF DI!WhoAmI, DI!At, DI!dirVars, Identified
  <1>7. ASSUME NEW usable \in BOOLEAN, DI!Find(usable) PROVE Identified'
    <2> DEFINE name == [bind.whoami EXCEPT !.name = bind.whoami.name, !.domain = "own"]
               who == DI!ByShortName(name)
    <2>1. bind.step = "known" /\ UNCHANGED <<netbios, entry>>
      BY <1>7 DEF DI!Find, DI!At, DI!dirVars
    <2>7. bind.whoami = [form |-> "back", name |-> entry[bind.bound].short, domain |-> "own"]
      BY <2>1 DEF Identified
    <2>2. name.name = entry[bind.bound].short /\ name.domain = "own"
      BY <2>7
    <2> HIDE DEF name
    <2>6. bind.bound \in who
      BY <2>1, <2>2 DEF Identified, DI!ByShortName
    <2>3. \A w \in who : w = bind.bound
      BY <2>1, <2>2, <2>6 DEF Identified, DI!ByShortName, DI!Distinct
    <2>4. (CHOOSE w \in who : TRUE) = bind.bound
      BY <2>6, <2>3
    <2>5. \/ bind' = [bind EXCEPT !.step = "signed in", !.signedIn = CHOOSE w \in who : TRUE]
          \/ bind' = [bind EXCEPT !.step = "refused"]
      BY <1>7 DEF DI!Find, DI!SearchedName, name
    <2> HIDE DEF who
    <2> QED
      BY <2>1, <2>4, <2>5, Zenon DEF Identified
  <1>8. CASE DI!Broken
    BY <1>8, Zenon DEF DI!Broken, DI!dirVars, Identified
  <1>9. CASE UNCHANGED DI!vars
    BY <1>9, Zenon DEF DI!vars, Identified
  <1> QED
    BY <1>1, <1>2, <1>3, <1>4, <1>5, <1>6, <1>7, <1>8, <1>9 DEF DI!Next

(* For any directory and any number of controllers, a sign-in that ends     *)
(* says the truth: who signed in is who was bound, and unreachable is said  *)
(* when every controller was asked (SignInIsTrue; directory.rs              *)
(* authenticate, connect).                                                  *)
THEOREM SignInSaysTheTruth == DI!Spec => []SignInIsTrue
  <1>1. Asking /\ Identified => SignInIsTrue
    BY Zenon DEF Asking, Identified, SignInIsTrue, DI!SignInIsTrue, DI!At
  <1> QED
    BY <1>1, DirectoryInit, AskingNext, IdentifiedNext, PTL DEF DI!Spec

------------------------------------------------------------------------------
(****************************************************************************)
(* Catalogue.  Of a file of any length, the servers the first rows name are *)
(* as those rows say and the others as they were: by induction on the rows. *)
(****************************************************************************)

(* The order of the numbers, as a set.                                      *)
LessThan == {ss \in Nat \X Nat : ss[1] < ss[2]}

(* A set of naturals has a least one.                                       *)
LEMMA Least == ASSUME NEW S, S \subseteq Nat, S # {} PROVE \E x \in S : \A y \in S : x <= y
<1>1. OpToRel(<, Nat) = LessThan
  BY Zenon DEF OpToRel, LessThan
<1>2. IsWellFoundedOn(LessThan, Nat)
  BY <1>1, NatLessThanWellFounded, Zenon
<1>3. PICK x \in S : \A y \in S : ~ (<<y, x>> \in LessThan)
  BY <1>2, WFMin, Zenon
<1>4. ASSUME NEW y \in S PROVE x <= y
  <2>1. <<y, x>> \in Nat \X Nat
    OBVIOUS
  <2>2. ~(y < x)
    BY <1>3, <2>1 DEF LessThan
  <2> QED BY <2>2
<1> QED BY <1>4

(* Induction, for a set of numbers up to N.                                 *)
LEMMA UpTo ==
    ASSUME NEW N \in Nat, NEW T, 0 \in T, \A n \in 0..(N - 1) : n \in T => n + 1 \in T
    PROVE  0..N \subseteq T
<1> SUFFICES ASSUME (0..N) \ T # {} PROVE FALSE
  OBVIOUS
<1> DEFINE U == (0..N) \ T
<1>1. PICK n \in U : \A m \in U : n <= m
  <2>1. U \subseteq Nat /\ U # {}
    OBVIOUS
  <2> HIDE DEF U
  <2> QED BY <2>1, Least, Zenon
<1>2. n # 0 /\ n - 1 \in 0..(N - 1)
  BY <1>1
<1>3. n - 1 \in T
  BY <1>1, <1>2
<1> QED BY <1>1, <1>2, <1>3

(* The rows of a file, one after the other.                                 *)
ImportRun(f, t, file, n) ==
    f = [i \in 0..n |-> IF i = 0 THEN t ELSE CA!ImportRow(f[i - 1], file[i])]

(* An import is the last of its rows: the run exists, for any tables.       *)
LEMMA ImportRuns ==
    ASSUME NEW t, NEW file, Len(file) \in Nat
    PROVE  \E f : ImportRun(f, t, file, Len(file)) /\ CA!Imported(t, file) = f[Len(file)]
<1> DEFINE N == Len(file)
           T == {n \in 0..N : \E f : ImportRun(f, t, file, n)}
           Next(f, i) == IF i = 0 THEN t ELSE CA!ImportRow(f[i - 1], file[i])
<1>0. N \in Nat
  OBVIOUS
<1> HIDE DEF N
<1>1. 0 \in T
  <2> DEFINE g == [i \in 0..0 |-> t]
  <2>1. \A i \in 0..0 : t = Next(g, i)
    OBVIOUS
  <2>2. ImportRun(g, t, file, 0)
    BY <2>1, Zenon DEF ImportRun
  <2> QED BY <1>0, <2>2
<1>2. ASSUME NEW n \in 0..(N - 1), n \in T PROVE n + 1 \in T
  <2>1. PICK f : ImportRun(f, t, file, n)
    BY <1>2, Zenon
  <2>2. \A i \in 0..n : f[i] = Next(f, i)
    BY <2>1, Zenon DEF ImportRun
  <2> DEFINE g == [i \in 0..(n + 1) |-> IF i = n + 1 THEN CA!ImportRow(f[n], file[n + 1]) ELSE f[i]]
  <2>3. \A i \in 0..(n + 1) : g[i] = Next(g, i)
    <3> SUFFICES ASSUME NEW i \in 0..(n + 1) PROVE g[i] = Next(g, i)
      OBVIOUS
    <3>1. CASE i = n + 1
      <4>1. i # 0 /\ n \in 0..(n + 1) /\ n # n + 1 /\ i - 1 = n
        BY <1>0, <3>1
      <4>2. g[n] = f[n] /\ g[i] = CA!ImportRow(f[n], file[n + 1])
        BY <3>1, <4>1, Zenon
      <4> HIDE DEF g
      <4> QED BY <3>1, <4>1, <4>2, Zenon
    <3>2. CASE i # n + 1
      <4>1. i \in 0..n /\ (i # 0 => i - 1 \in 0..(n + 1) /\ i - 1 # n + 1)
        BY <1>0, <3>2
      <4>2. g[i] = f[i] /\ (i # 0 => g[i - 1] = f[i - 1])
        BY <3>2, <4>1, Zenon
      <4> HIDE DEF g
      <4> QED BY <2>2, <4>1, <4>2, Zenon
    <3> QED BY <3>1, <3>2
  <2>4. g = [i \in 0..(n + 1) |-> g[i]]
    OBVIOUS
  <2> HIDE DEF g
  <2>5. ImportRun(g, t, file, n + 1)
    BY <2>3, <2>4, Zenon DEF ImportRun
  <2>6. n + 1 \in 0..N
    BY <1>0
  <2> QED BY <2>5, <2>6, Zenon
<1>3. 0..N \subseteq T
  <2> HIDE DEF T
  <2> QED BY <1>0, <1>1, <1>2, UpTo
<1>4. N \in 0..N
  BY <1>0
<1>5. \E f : ImportRun(f, t, file, N)
  BY <1>3, <1>4, Zenon
<1> DEFINE h == CHOOSE f : ImportRun(f, t, file, N)
<1>6. ImportRun(h, t, file, N)
  BY <1>5, Zenon
<1>7. CA!Imported(t, file) = h[N]
  BY Zenon DEF CA!Imported, ImportRun, N
<1> HIDE DEF h
<1> QED BY <1>6, <1>7, Zenon DEF N

(* The tables between two calls.                                            *)
Good(t) ==
    /\ t.groupIds \in Nat /\ DOMAIN t.groups \subseteq 1..t.groupIds
    /\ t.serverIds \in Nat /\ DOMAIN t.servers \subseteq 1..t.serverIds
    /\ \A s \in DOMAIN t.servers : t.servers[s].domain \in BOOLEAN
    /\ \A s, q \in DOMAIN t.servers : t.servers[s].name = t.servers[q].name => s = q

SameGroups(t, r) == \A g \in DOMAIN t.groups : g \in DOMAIN r.groups /\ r.groups[g] = t.groups[g]

(* What a server is in r after a row, from what it was in t.                *)
RowWritten(t, r, row, s) ==
    LET new == r.servers[s]
        there == s \in DOMAIN t.servers
    IN /\ new.name = row.name /\ (there => t.servers[s].name = row.name)
       /\ new.host = row.host
       /\ new.port = (IF row.port # Absent THEN row.port
                      ELSE IF there THEN t.servers[s].port ELSE DEFAULT_PORT)
       /\ new.domain = (IF row.domain # Absent THEN row.domain ELSE there /\ t.servers[s].domain)
       /\ IF row.group \in GroupName
          THEN new.group \in DOMAIN r.groups /\ r.groups[new.group].name = row.group
          ELSE new.group = (IF row.group = Absent /\ there THEN t.servers[s].group ELSE CA!NoGroup)

(* One row: one server, id, is as the row says, the others as they were.    *)
RowDone(t, r, row, id) ==
    /\ SameGroups(t, r)
    /\ DOMAIN r.servers = DOMAIN t.servers \cup {id}
    /\ \A s \in DOMAIN t.servers : s # id => r.servers[s] = t.servers[s] /\ t.servers[s].name # row.name
    /\ RowWritten(t, r, row, id)

(* The group a row names is there after group_insert; nothing else changes. *)
LEMMA WithGroupDone ==
    ASSUME NEW t, Good(t), NEW row
    PROVE  LET r == CA!WithGroup(t, row)
           IN  /\ Good(r) /\ SameGroups(t, r) /\ r.servers = t.servers /\ r.serverIds = t.serverIds
               /\ row.group \in GroupName =>
                      CA!GroupId(r, row) \in DOMAIN r.groups /\ r.groups[CA!GroupId(r, row)].name = row.group
<1> DEFINE r == CA!WithGroup(t, row)
<1>1. CASE row.group \in GroupName /\ CA!GroupNamed(t, row.group) = {}
  <2> DEFINE k == t.groupIds + 1
             new == [name |-> row.group, sort |-> CA!NextSort(t)]
  <2>1. r = CA!TablesOf(CA!Put(t.groups, k, new), t.servers, k, t.serverIds)
    BY <1>1, Zenon DEF CA!WithGroup, CA!GroupInsert
  <2>2. /\ r.groups = CA!Put(t.groups, k, new) /\ r.servers = t.servers
        /\ r.groupIds = k /\ r.serverIds = t.serverIds
    BY <2>1 DEF CA!TablesOf
  <2>3. k \in Nat /\ k \notin DOMAIN t.groups /\ DOMAIN t.groups \cup {k} \subseteq 1..k
    BY DEF Good
  <2>4. new.name = row.group
    OBVIOUS
  <2> HIDE DEF r, k, new
  <2>5. /\ DOMAIN r.groups = DOMAIN t.groups \cup {k} /\ r.groups[k] = new
        /\ \A g \in DOMAIN t.groups : r.groups[g] = t.groups[g]
    BY <2>2, <2>3, Zenon DEF CA!Put
  <2>6. k \in CA!GroupNamed(r, row.group)
    BY <2>4, <2>5, Zenon DEF CA!GroupNamed
  <2>7. CA!GroupId(r, row) \in CA!GroupNamed(r, row.group)
    BY <1>1, <2>6, Zenon DEF CA!GroupId
  <2>8. Good(r) /\ SameGroups(t, r)
    BY <2>2, <2>3, <2>5, Zenon DEF Good, SameGroups
  <2> QED BY <2>2, <2>7, <2>8, Zenon DEF CA!GroupNamed, r
<1>2. CASE ~(row.group \in GroupName /\ CA!GroupNamed(t, row.group) = {})
  <2>1. r = t
    BY <1>2, Zenon DEF CA!WithGroup
  <2>2. SameGroups(t, t)
    BY Zenon DEF SameGroups
  <2>3. row.group \in GroupName => CA!GroupId(t, row) \in CA!GroupNamed(t, row.group)
    <3>1. row.group \in GroupName => \E g : g \in CA!GroupNamed(t, row.group)
      BY <1>2, Zenon
    <3> QED BY <3>1, Zenon DEF CA!GroupId
  <2> QED BY <2>1, <2>2, <2>3, Zenon DEF CA!GroupNamed
<1> QED BY <1>1, <1>2, Zenon

(* One row makes one server what it says, new or found by its name.         *)
LEMMA ImportRowDone ==
    ASSUME NEW t, Good(t), NEW row \in Rows
    PROVE  /\ Good(CA!ImportRow(t, row))
           /\ \E id : RowDone(t, CA!ImportRow(t, row), row, id)
<1> DEFINE u == CA!WithGroup(t, row)
           found == CA!ServerNamed(u, row.name)
           r == CA!ImportRow(t, row)
<1>1. /\ Good(u) /\ SameGroups(t, u) /\ u.servers = t.servers /\ u.serverIds = t.serverIds
      /\ row.group \in GroupName =>
             CA!GroupId(u, row) \in DOMAIN u.groups /\ u.groups[CA!GroupId(u, row)].name = row.group
  BY WithGroupDone, Zenon
<1>2. row.domain \in BOOLEAN \cup {Absent} /\ Absent \notin GroupName
  BY CatalogueAssumption, Zenon
<1> HIDE DEF u, r
(* What either branch makes, for the id it picks.                           *)
<1>3. ASSUME NEW id, NEW port, NEW group, NEW domain \in BOOLEAN, NEW n \in Nat, id \in 1..n, t.serverIds <= n,
             \A s \in DOMAIN t.servers : s # id => t.servers[s].name # row.name,
             IF id \in DOMAIN t.servers
             THEN /\ t.servers[id].name = row.name /\ port = t.servers[id].port
                  /\ group = t.servers[id].group /\ domain = t.servers[id].domain
             ELSE port = DEFAULT_PORT /\ group = CA!NoGroup /\ domain = FALSE,
             r = CA!TablesOf(u.groups, CA!Put(u.servers, id, CA!Filled(u, row, port, group, domain)),
                             u.groupIds, n)
      PROVE  Good(r) /\ RowDone(t, r, row, id)
  <2> DEFINE new == CA!Filled(u, row, port, group, domain)
  <2>1. /\ r.groups = u.groups /\ r.servers = CA!Put(t.servers, id, new)
        /\ r.groupIds = u.groupIds /\ r.serverIds = n
    BY <1>1, <1>3 DEF CA!TablesOf
  <2>2. /\ new.name = row.name /\ new.host = row.host /\ new.port = CA!Kept(row.port, port)
        /\ new.group = (IF row.group = Absent THEN group ELSE CA!GroupId(u, row))
        /\ new.domain = CA!Kept(row.domain, domain)
    BY DEF CA!Filled
  <2> HIDE DEF new
  <2>3. /\ DOMAIN r.servers = DOMAIN t.servers \cup {id} /\ r.servers[id] = new
        /\ \A s \in DOMAIN t.servers : s # id => r.servers[s] = t.servers[s]
    BY <2>1, Zenon DEF CA!Put
  <2>4. DOMAIN r.servers \subseteq 1..n
    <3>1. 1..t.serverIds \subseteq 1..n
      BY <1>3 DEF Good
    <3> QED BY <1>3, <2>3, <3>1, Zenon DEF Good
  <2>5. new.domain \in BOOLEAN
    BY <1>2, <1>3, <2>2, Zenon DEF CA!Kept
  <2>6. \A s, q \in DOMAIN r.servers : r.servers[s].name = r.servers[q].name => s = q
    <3>1. \A s, q \in DOMAIN t.servers : t.servers[s].name = t.servers[q].name => s = q
      BY Zenon DEF Good
    <3>2. \A s \in DOMAIN r.servers : s # id =>
              s \in DOMAIN t.servers /\ r.servers[s].name = t.servers[s].name /\ r.servers[s].name # row.name
      BY <1>3, <2>3, Zenon
    <3>3. r.servers[id].name = row.name
      BY <2>2, <2>3, Zenon
    <3> QED BY <3>1, <3>2, <3>3, Zenon
  <2>7. \A s \in DOMAIN r.servers : r.servers[s].domain \in BOOLEAN
    BY <2>3, <2>5, Zenon DEF Good
  <2>8. Good(r)
    BY <1>1, <1>3, <2>1, <2>4, <2>6, <2>7, Zenon DEF Good
  <2>9. SameGroups(t, r)
    BY <1>1, <2>1, Zenon DEF SameGroups
  <2>10. RowWritten(t, r, row, id)
    <3>1. new.port = IF row.port # Absent THEN row.port
                     ELSE IF id \in DOMAIN t.servers THEN t.servers[id].port ELSE DEFAULT_PORT
      BY <1>3, <2>2, Zenon DEF CA!Kept
    <3>2. new.domain = IF row.domain # Absent THEN row.domain
                       ELSE id \in DOMAIN t.servers /\ t.servers[id].domain
      <4>1. CASE row.domain # Absent
        BY <2>2, <4>1, Zenon DEF CA!Kept
      <4>2. CASE row.domain = Absent /\ id \in DOMAIN t.servers
        <5>1. new.domain = t.servers[id].domain /\ t.servers[id].domain \in BOOLEAN
          BY <1>3, <2>2, <4>2, Zenon DEF CA!Kept, Good
        <5> QED BY <4>2, <5>1
      <4>3. CASE row.domain = Absent /\ id \notin DOMAIN t.servers
        <5>1. new.domain = FALSE
          BY <1>3, <2>2, <4>3, Zenon DEF CA!Kept
        <5> QED BY <4>3, <5>1, Zenon
      <4> QED BY <4>1, <4>2, <4>3, Zenon
    <3>3. IF row.group \in GroupName
          THEN new.group \in DOMAIN r.groups /\ r.groups[new.group].name = row.group
          ELSE new.group = IF row.group = Absent /\ id \in DOMAIN t.servers
                           THEN t.servers[id].group ELSE CA!NoGroup
      <4>1. CASE row.group \in GroupName
        <5>1. row.group # Absent
          BY <1>2, <4>1, Zenon
        <5> QED BY <1>1, <2>1, <2>2, <4>1, <5>1, Zenon
      <4>2. CASE row.group \notin GroupName
        <5>1. CA!GroupId(u, row) = CA!NoGroup
          BY <4>2, Zenon DEF CA!GroupId
        <5>2. CASE row.group = Absent
          BY <1>3, <2>2, <4>2, <5>2, Zenon
        <5>3. CASE row.group # Absent
          BY <2>2, <4>2, <5>1, <5>3, Zenon
        <5> QED BY <5>2, <5>3
      <4> QED BY <4>1, <4>2
    <3>4. id \in DOMAIN t.servers => t.servers[id].name = row.name
      BY <1>3, Zenon
    <3> QED BY <2>2, <2>3, <3>1, <3>2, <3>3, <3>4, Zenon DEF RowWritten
  <2> QED BY <1>3, <2>3, <2>8, <2>9, <2>10, Zenon DEF RowDone
<1>4. CASE found = {}
  <2>1. r = CA!TablesOf(u.groups,
                CA!Put(u.servers, u.serverIds + 1, CA!Filled(u, row, DEFAULT_PORT, CA!NoGroup, FALSE)),
                u.groupIds, u.serverIds + 1)
    BY <1>4, Zenon DEF CA!ImportRow, r, u
  <2>2. \A s \in DOMAIN t.servers : t.servers[s].name # row.name
    BY <1>1, <1>4, Zenon DEF CA!ServerNamed
  <2>3. /\ u.serverIds + 1 \in Nat /\ u.serverIds + 1 \in 1..(u.serverIds + 1)
        /\ t.serverIds <= u.serverIds + 1 /\ u.serverIds + 1 \notin DOMAIN t.servers
    BY <1>1 DEF Good
  <2>4. FALSE \in BOOLEAN
    OBVIOUS
  <2> QED BY <1>3, <2>1, <2>2, <2>3, <2>4, Zenon DEF r
<1>5. CASE found # {}
  <2> DEFINE s == CHOOSE s \in found : TRUE
  <2>1. s \in found
    BY <1>5, Zenon
  <2>2. r = CA!TablesOf(u.groups,
                CA!Put(u.servers, s, CA!Filled(u, row, u.servers[s].port, u.servers[s].group, u.servers[s].domain)),
                u.groupIds, u.serverIds)
    BY <1>5, Zenon DEF CA!ImportRow, r, u
  <2> HIDE DEF s
  <2>3. s \in DOMAIN t.servers /\ t.servers[s].name = row.name
    BY <1>1, <2>1, Zenon DEF CA!ServerNamed
  <2>4. \A q \in DOMAIN t.servers : q # s => t.servers[q].name # row.name
    BY <2>3, Zenon DEF Good
  <2>5. t.servers[s].domain \in BOOLEAN /\ u.serverIds \in Nat /\ s \in 1..u.serverIds
    BY <1>1, <2>3, Zenon DEF Good
  <2>6. t.serverIds <= u.serverIds
    BY <1>1, <2>5
  <2>7. r = CA!TablesOf(u.groups,
                CA!Put(u.servers, s, CA!Filled(u, row, t.servers[s].port, t.servers[s].group, t.servers[s].domain)),
                u.groupIds, u.serverIds)
    BY <1>1, <2>2, Zenon
  <2>8. Good(r) /\ RowDone(t, r, row, s)
    BY <1>3, <2>3, <2>4, <2>5, <2>6, <2>7, Zenon
  <2> QED BY <2>8, Zenon DEF r
<1> QED BY <1>4, <1>5, Zenon

(* The first k rows of a file.                                              *)
Named(file, k, name) == \E i \in 1..k : file[i].name = name
FileDone(t, r, file, k) ==
    /\ Good(r) /\ SameGroups(t, r) /\ DOMAIN t.servers \subseteq DOMAIN r.servers
    /\ \A s \in DOMAIN r.servers :
          IF Named(file, k, r.servers[s].name)
          THEN \E i \in 1..k : RowWritten(t, r, file[i], s)
          ELSE s \in DOMAIN t.servers /\ r.servers[s] = t.servers[s]
    /\ \A i \in 1..k : \E s \in DOMAIN r.servers : r.servers[s].name = file[i].name

(* The next row, whose name no earlier row has.                             *)
LEMMA FileDoneNext ==
    ASSUME NEW t, NEW r, NEW file, NEW N \in Nat, NEW k \in 0..(N - 1), file[k + 1] \in Rows,
           \A i, j \in 1..N : file[i].name = file[j].name => i = j,
           FileDone(t, r, file, k)
    PROVE  FileDone(t, CA!ImportRow(r, file[k + 1]), file, k + 1)
<1> DEFINE row == file[k + 1]
           q == CA!ImportRow(r, row)
<1>1. Good(r)
  BY Zenon DEF FileDone
<1>2. Good(q) /\ \E id : RowDone(r, q, row, id)
  BY <1>1, ImportRowDone, Zenon
<1> HIDE DEF q
<1>3. PICK id : RowDone(r, q, row, id)
  BY <1>2, Zenon
<1>4. 1..(k + 1) = (1..k) \cup {k + 1} /\ k + 1 \in 1..N /\ 1..k \subseteq 1..N /\ k + 1 \notin 1..k
  OBVIOUS
<1>5. ~Named(file, k, row.name)
  BY <1>4, Zenon DEF Named
<1>6. SameGroups(t, q) /\ DOMAIN t.servers \subseteq DOMAIN q.servers
  BY <1>3, Zenon DEF FileDone, RowDone, SameGroups
(* The server of this row was as at the start.                              *)
<1>7. RowWritten(t, q, row, id)
  <2>1. RowWritten(r, q, row, id)
    BY <1>3, Zenon DEF RowDone
  <2>2. CASE id \in DOMAIN r.servers
    <3>1. r.servers[id].name = row.name
      BY <2>1, <2>2, Zenon DEF RowWritten
    <3>2. id \in DOMAIN t.servers /\ r.servers[id] = t.servers[id]
      BY <1>5, <2>2, <3>1, Zenon DEF FileDone
    <3> QED BY <2>1, <2>2, <3>2, Zenon DEF RowWritten
  <2>3. CASE id \notin DOMAIN r.servers
    <3>1. id \notin DOMAIN t.servers
      BY <2>3, Zenon DEF FileDone
    <3> QED BY <2>1, <2>3, <3>1, Zenon DEF RowWritten
  <2> QED BY <2>2, <2>3
<1>8. q.servers[id].name = row.name /\ id \in DOMAIN q.servers
  BY <1>3, <1>7, Zenon DEF RowWritten, RowDone
<1>9. ASSUME NEW s \in DOMAIN q.servers, s # id
      PROVE  s \in DOMAIN r.servers /\ q.servers[s] = r.servers[s] /\ r.servers[s].name # row.name
  BY <1>3, <1>9, Zenon DEF RowDone
<1>10. ASSUME NEW s \in DOMAIN q.servers
       PROVE  IF Named(file, k + 1, q.servers[s].name)
              THEN \E i \in 1..(k + 1) : RowWritten(t, q, file[i], s)
              ELSE s \in DOMAIN t.servers /\ q.servers[s] = t.servers[s]
  <2>1. CASE s = id
    <3>1. Named(file, k + 1, q.servers[s].name) /\ \E i \in 1..(k + 1) : RowWritten(t, q, file[i], s)
      BY <1>4, <1>7, <1>8, <2>1, Zenon DEF Named
    <3> QED BY <3>1, Zenon
  <2>2. CASE s # id
    <3>1. s \in DOMAIN r.servers /\ q.servers[s] = r.servers[s] /\ r.servers[s].name # row.name
      BY <1>9, <2>2, Zenon
    <3>2. Named(file, k + 1, q.servers[s].name) <=> Named(file, k, r.servers[s].name)
      BY <1>4, <3>1, Zenon DEF Named
    <3>3. CASE Named(file, k, r.servers[s].name)
      <4>1. PICK i \in 1..k : RowWritten(t, r, file[i], s)
        BY <3>1, <3>3, Zenon DEF FileDone
      <4>2. RowWritten(t, q, file[i], s)
        <5>1. \A g \in DOMAIN r.groups : g \in DOMAIN q.groups /\ q.groups[g] = r.groups[g]
          BY <1>3, Zenon DEF RowDone, SameGroups
        <5> QED BY <3>1, <4>1, <5>1, Zenon DEF RowWritten
      <4> QED BY <1>4, <3>2, <3>3, <4>2, Zenon
    <3>4. CASE ~Named(file, k, r.servers[s].name)
      BY <3>1, <3>2, <3>4, Zenon DEF FileDone
    <3> QED BY <3>3, <3>4
  <2> QED BY <2>1, <2>2
<1>11. ASSUME NEW i \in 1..(k + 1) PROVE \E s \in DOMAIN q.servers : q.servers[s].name = file[i].name
  <2>1. CASE i = k + 1
    BY <1>8, <2>1, Zenon
  <2>2. CASE i \in 1..k
    <3>1. PICK s \in DOMAIN r.servers : r.servers[s].name = file[i].name
      BY <2>2, Zenon DEF FileDone
    <3>2. s # id => q.servers[s] = r.servers[s]
      BY <1>3, <3>1, Zenon DEF RowDone
    <3>3. s \in DOMAIN q.servers
      BY <1>3, <3>1, Zenon DEF RowDone
    <3>4. s # id
      <4>1. s = id => r.servers[s].name = row.name
        BY <1>3, <3>1, Zenon DEF RowDone, RowWritten
      <4>2. file[i].name # row.name
        BY <1>4, <2>2, Zenon
      <4> QED BY <3>1, <4>1, <4>2, Zenon
    <3> QED BY <3>1, <3>2, <3>3, <3>4, Zenon
  <2> QED BY <1>4, <2>1, <2>2, Zenon
<1> QED BY <1>2, <1>6, <1>10, <1>11, Zenon DEF FileDone, q

(* All rows, one after the other.                                           *)
LEMMA ImportDone ==
    ASSUME NEW t, Good(t), NEW file \in Seq(Rows), CA!Parses(file)
    PROVE  FileDone(t, CA!Imported(t, file), file, Len(file))
<1> DEFINE N == Len(file)
<1>1. N \in Nat /\ DOMAIN file = 1..N /\ \A i \in 1..N : file[i] \in Rows
  OBVIOUS
<1>2. PICK f : ImportRun(f, t, file, N) /\ CA!Imported(t, file) = f[N]
  BY <1>1, ImportRuns, Zenon
<1>3. \A i, j \in 1..N : file[i].name = file[j].name => i = j
  BY <1>1, Zenon DEF CA!Parses
<1> HIDE DEF N
<1> DEFINE T == {k \in 0..N : FileDone(t, f[k], file, k)}
<1>4. \A i \in 0..N : f[i] = IF i = 0 THEN t ELSE CA!ImportRow(f[i - 1], file[i])
  BY <1>2, Zenon DEF ImportRun
<1>5. 0 \in T
  <2>1. 0 \in 0..N /\ 1..0 = {}
    BY <1>1
  <2>2. f[0] = t
    BY <1>4, <2>1, Zenon
  <2>3. FileDone(t, t, file, 0)
    BY <2>1, Zenon DEF FileDone, SameGroups, Named
  <2> QED BY <2>1, <2>2, <2>3, Zenon
<1>6. ASSUME NEW k \in 0..(N - 1), k \in T PROVE k + 1 \in T
  <2>1. k + 1 \in 0..N /\ k + 1 # 0 /\ (k + 1) - 1 = k /\ k + 1 \in 1..N
    BY <1>1
  <2>2. f[k + 1] = CA!ImportRow(f[k], file[k + 1])
    BY <1>4, <2>1, Zenon
  <2>3. FileDone(t, f[k], file, k) /\ file[k + 1] \in Rows
    BY <1>1, <1>6, <2>1, Zenon
  <2>4. FileDone(t, CA!ImportRow(f[k], file[k + 1]), file, k + 1)
    BY <1>1, <1>3, <2>3, FileDoneNext, Zenon
  <2> QED BY <2>1, <2>2, <2>4, Zenon
<1>7. 0..N \subseteq T
  <2> HIDE DEF T
  <2> QED BY <1>1, <1>5, <1>6, UpTo
<1>8. N \in 0..N
  BY <1>1
<1> QED BY <1>2, <1>7, <1>8, Zenon DEF N

CatalogueInv == Good(CA!Tables)

(* A file is a list of rows.                                                *)
LEMMA FilesAreLists == ASSUME NEW file \in CA!Files PROVE file \in Seq(Rows)
<1>1. PICK n \in 1..MaxLines : file \in [1..n -> Rows]
  BY Zenon DEF CA!Files
<1>2. n \in Nat
  BY <1>1, CatalogueAssumption
<1> QED BY <1>1, <1>2

(* The record of the tables holds the tables.                               *)
LEMMA TablesFields ==
    /\ CA!Tables.groups = groups /\ CA!Tables.servers = servers
    /\ CA!Tables.groupIds = groupIds /\ CA!Tables.serverIds = serverIds
  BY DEF CA!Tables, CA!TablesOf

(* What an import leaves.                                                   *)
LEMMA ImportStep ==
    ASSUME CatalogueInv, NEW file \in CA!Files, CA!ImportServers(file)
    PROVE  /\ FileDone(CA!Tables, CA!Tables', file, Len(file))
           /\ CatalogueInv'
<1> DEFINE r == CA!Imported(CA!Tables, file)
<1>1. FileDone(CA!Tables, r, file, Len(file))
  BY FilesAreLists, ImportDone, Zenon DEF CatalogueInv, CA!ImportServers
<1>2. /\ groups' = r.groups /\ servers' = r.servers
      /\ groupIds' = r.groupIds /\ serverIds' = r.serverIds
  BY Zenon DEF CA!ImportServers, CA!Become
<1> HIDE DEF r
<1>3. /\ CA!Tables'.groups = r.groups /\ CA!Tables'.servers = r.servers
      /\ CA!Tables'.groupIds = r.groupIds /\ CA!Tables'.serverIds = r.serverIds
  BY <1>2 DEF CA!Tables, CA!TablesOf
<1> DEFINE t == CA!Tables
           q == CA!Tables'
<1>4. FileDone(t, q, file, Len(file))
  <2> HIDE DEF t, q
  <2>1. /\ q.groups = r.groups /\ q.servers = r.servers
        /\ q.groupIds = r.groupIds /\ q.serverIds = r.serverIds
    BY <1>3 DEF q
  <2>2. FileDone(t, r, file, Len(file))
    BY <1>1 DEF t
  <2>3. Good(q)
    BY <2>1, <2>2, Zenon DEF FileDone, Good
  <2>4. SameGroups(t, q)
    BY <2>1, <2>2, Zenon DEF FileDone, SameGroups
  <2>5. ASSUME NEW s, NEW row, RowWritten(t, r, row, s) PROVE RowWritten(t, q, row, s)
    BY <2>1, <2>5, Zenon DEF RowWritten
  <2> QED BY <2>1, <2>2, <2>3, <2>4, <2>5, Zenon DEF FileDone
<1>5. Good(q)
  BY <1>4, Zenon DEF FileDone
<1> QED BY <1>4, <1>5 DEF CatalogueInv

(* Empty tables.                                                            *)
LEMMA CatalogueInit == CA!Init => CatalogueInv
<1> SUFFICES ASSUME CA!Init PROVE CatalogueInv
  OBVIOUS
<1>1. DOMAIN groups = {} /\ DOMAIN servers = {} /\ groupIds \in Nat /\ serverIds \in Nat
  BY DEF CA!Init
<1> QED BY <1>1, TablesFields, Zenon DEF CatalogueInv, Good

(* A step that leaves the tables as they say.                               *)
LEMMA TablesNext ==
    ASSUME NEW gs, NEW ss, NEW gi \in Nat, NEW si \in Nat,
           groups' = gs, servers' = ss, groupIds' = gi, serverIds' = si,
           DOMAIN gs \subseteq 1..gi, DOMAIN ss \subseteq 1..si,
           \A s \in DOMAIN ss : ss[s].domain \in BOOLEAN,
           \A s, q \in DOMAIN ss : ss[s].name = ss[q].name => s = q
    PROVE  CatalogueInv'
<1> DEFINE t == CA!Tables'
<1>1. t.groups = gs /\ t.servers = ss /\ t.groupIds = gi /\ t.serverIds = si
  BY DEF CA!Tables, CA!TablesOf
<1> HIDE DEF t
<1>2. Good(t)
  BY <1>1, Zenon DEF Good
<1> QED BY <1>2 DEF CatalogueInv, t

(* server_fields: a form's domain becomes whether there is one.             *)
LEMMA FieldsDomain ==
    ASSUME NEW form \in Forms PROVE CA!ServerFields(form).domain \in BOOLEAN
  BY CatalogueAssumption DEF CA!ServerFields

(* Every form and every import keeps it.                                    *)
LEMMA CatalogueNext == CatalogueInv /\ [CA!Next]_(CA!vars) => CatalogueInv'
<1> SUFFICES ASSUME CatalogueInv, [CA!Next]_(CA!vars) PROVE CatalogueInv'
  OBVIOUS
<1>0. /\ groupIds \in Nat /\ DOMAIN groups \subseteq 1..groupIds
      /\ serverIds \in Nat /\ DOMAIN servers \subseteq 1..serverIds
      /\ \A s \in DOMAIN servers : servers[s].domain \in BOOLEAN
      /\ \A s, q \in DOMAIN servers : servers[s].name = servers[q].name => s = q
  BY TablesFields, Zenon DEF CatalogueInv, Good
<1>1. ASSUME NEW n \in GroupName, CA!AddGroup(n) PROVE CatalogueInv'
  <2> DEFINE k == groupIds + 1
             gs == CA!Put(groups, k, [name |-> n, sort |-> CA!NextSort(CA!Tables)])
             t == CA!GroupInsert(CA!Tables, n)
  <2>1. t = CA!TablesOf(gs, servers, k, serverIds)
    BY TablesFields, Zenon DEF CA!GroupInsert
  <2>2. t.groups = gs /\ t.servers = servers /\ t.groupIds = k /\ t.serverIds = serverIds
    <3> HIDE DEF t, gs, k
    <3> QED BY <2>1 DEF CA!TablesOf
  <2>3. groups' = t.groups /\ servers' = t.servers /\ groupIds' = t.groupIds /\ serverIds' = t.serverIds
    BY <1>1, Zenon DEF CA!AddGroup, CA!Become
  <2>4. k \in Nat /\ DOMAIN groups \cup {k} \subseteq 1..k
    BY <1>0
  <2>5. DOMAIN gs = DOMAIN groups \cup {k}
    BY Zenon DEF CA!Put
  <2> HIDE DEF t, gs, k
  <2> QED BY <1>0, <2>2, <2>3, <2>4, <2>5, TablesNext, Zenon
<1>2. ASSUME NEW n \in GroupName, NEW g \in DOMAIN groups, CA!RenameGroup(g, n) PROVE CatalogueInv'
  <2>1. groups' = [groups EXCEPT ![g].name = n] /\ servers' = servers /\ groupIds' = groupIds /\ serverIds' = serverIds
    BY <1>2 DEF CA!RenameGroup
  <2>2. DOMAIN [groups EXCEPT ![g].name = n] = DOMAIN groups
    OBVIOUS
  <2> DEFINE gs == [groups EXCEPT ![g].name = n]
  <2> HIDE DEF gs
  <2> QED BY <1>0, <2>1, <2>2, TablesNext, Zenon DEF gs
<1>3. ASSUME NEW ids, CA!OrderGroups(ids) PROVE CatalogueInv'
  <2>1. servers' = servers /\ groupIds' = groupIds /\ serverIds' = serverIds /\ DOMAIN groups' = DOMAIN groups
    BY <1>3, Zenon DEF CA!OrderGroups
  <2> QED BY <1>0, <2>1, TablesNext, Zenon
<1>4. ASSUME NEW g \in DOMAIN groups, CA!GroupDelete(g) PROVE CatalogueInv'
  <2>1. servers' = servers /\ groupIds' = groupIds /\ serverIds' = serverIds /\ DOMAIN groups' \subseteq DOMAIN groups
    BY <1>4, Zenon DEF CA!GroupDelete, CA!Without
  <2> QED BY <1>0, <2>1, TablesNext, Zenon
<1>5. ASSUME NEW form \in Forms, CA!AddServer(form) PROVE CatalogueInv'
  <2> DEFINE row == CA!ServerFields(form)
             k == serverIds + 1
             ss == CA!Put(servers, k, row)
             t == CA!TablesOf(groups, ss, groupIds, k)
  <2>1. row.domain \in BOOLEAN
    BY FieldsDomain, Zenon
  <2> HIDE DEF row
  <2>2. CA!ServerCreate(row)
    BY <1>5, Zenon DEF CA!AddServer, row
  <2>3. \A s \in DOMAIN servers : servers[s].name # row.name
    BY <2>2, TablesFields, Zenon DEF CA!ServerCreate, CA!ServerNamed
  <2>4. groups' = t.groups /\ servers' = t.servers /\ groupIds' = t.groupIds /\ serverIds' = t.serverIds
    BY <2>2, Zenon DEF CA!ServerCreate, CA!Become
  <2>5. t.groups = groups /\ t.servers = ss /\ t.groupIds = groupIds /\ t.serverIds = k
    <3> HIDE DEF ss, k
    <3> QED BY DEF CA!TablesOf
  <2>6. k \in Nat /\ k \notin DOMAIN servers /\ DOMAIN servers \cup {k} \subseteq 1..k
    BY <1>0
  <2> HIDE DEF t, k
  <2>7. /\ DOMAIN ss = DOMAIN servers \cup {k} /\ ss[k] = row
        /\ \A s \in DOMAIN servers : ss[s] = servers[s]
    BY <2>6, Zenon DEF CA!Put
  <2> HIDE DEF ss
  <2>8. \A s \in DOMAIN ss : ss[s].domain \in BOOLEAN
    BY <1>0, <2>1, <2>7, Zenon
  <2>9. \A s, q \in DOMAIN ss : ss[s].name = ss[q].name => s = q
    BY <1>0, <2>3, <2>7, Zenon
  <2>10. groups' = groups /\ servers' = ss /\ groupIds' = groupIds /\ serverIds' = k
    BY <2>4, <2>5, Zenon
  <2>11. DOMAIN ss \subseteq 1..k
    BY <2>6, <2>7, Zenon
  <2> QED BY <1>0, <2>6, <2>8, <2>9, <2>10, <2>11, TablesNext, Zenon
<1>6. ASSUME NEW form \in Forms, NEW s \in DOMAIN servers, CA!UpdateServer(s, form) PROVE CatalogueInv'
  <2> DEFINE row == CA!ServerFields(form)
             ss == [servers EXCEPT ![s] = row]
  <2>1. row.domain \in BOOLEAN
    BY FieldsDomain, Zenon
  <2> HIDE DEF row
  <2>2. CA!ServerUpdate(s, row)
    BY <1>6, Zenon DEF CA!UpdateServer, row
  <2>3. \A q \in DOMAIN servers : servers[q].name = row.name => q = s
    BY <2>2, TablesFields, Zenon DEF CA!ServerUpdate, CA!ServerNamed
  <2>4. servers' = ss /\ groups' = groups /\ groupIds' = groupIds /\ serverIds' = serverIds
    BY <2>2 DEF CA!ServerUpdate
  <2>5. DOMAIN ss = DOMAIN servers /\ ss[s] = row /\ \A q \in DOMAIN servers : q # s => ss[q] = servers[q]
    OBVIOUS
  <2> HIDE DEF ss
  <2>6. \A q \in DOMAIN ss : ss[q].domain \in BOOLEAN
    BY <1>0, <2>1, <2>5, Zenon
  <2>7. \A q, p \in DOMAIN ss : ss[q].name = ss[p].name => q = p
    BY <1>0, <2>3, <2>5, Zenon
  <2> QED BY <1>0, <2>4, <2>5, <2>6, <2>7, TablesNext, Zenon
<1>7. ASSUME NEW s \in DOMAIN servers, CA!RemoveServer(s) PROVE CatalogueInv'
  <2> DEFINE ss == CA!Without(servers, s)
  <2>1. servers' = ss /\ groups' = groups /\ groupIds' = groupIds /\ serverIds' = serverIds
    BY <1>7 DEF CA!RemoveServer
  <2>2. DOMAIN ss \subseteq DOMAIN servers /\ \A q \in DOMAIN ss : ss[q] = servers[q]
    BY Zenon DEF CA!Without
  <2> HIDE DEF ss
  <2>3. \A q, p \in DOMAIN ss : ss[q].name = ss[p].name => q = p
    BY <1>0, <2>2, Zenon
  <2>4. DOMAIN ss \subseteq 1..serverIds /\ \A q \in DOMAIN ss : ss[q].domain \in BOOLEAN
    BY <1>0, <2>2, Zenon
  <2> QED BY <1>0, <2>1, <2>3, <2>4, TablesNext, Zenon
<1>8. ASSUME NEW file \in CA!Files, CA!ImportServers(file) PROVE CatalogueInv'
  BY <1>8, ImportStep, Zenon
<1>9. ASSUME UNCHANGED CA!vars PROVE CatalogueInv'
  <2>1. servers' = servers /\ groups' = groups /\ groupIds' = groupIds /\ serverIds' = serverIds
    BY <1>9 DEF CA!vars
  <2> QED BY <1>0, <2>1, TablesNext, Zenon
<1> QED BY <1>1, <1>2, <1>3, <1>4, <1>5, <1>6, <1>7, <1>8, <1>9, Zenon DEF CA!Next

(* An import from such tables does what its file says.                      *)
LEMMA ImportDoesSo == CatalogueInv => CA!ImportDoesAsWritten
<1> SUFFICES ASSUME CatalogueInv, NEW file \in CA!Files, CA!ImportServers(file)
    PROVE  /\ \A s \in DOMAIN servers' :
                 IF \E i \in DOMAIN file : file[i].name = servers'[s].name
                 THEN \E i \in DOMAIN file : file[i].name = servers'[s].name /\ CA!AsWritten(file[i], s)
                 ELSE s \in DOMAIN servers /\ servers'[s] = servers[s]
           /\ DOMAIN servers \subseteq DOMAIN servers'
           /\ \A i \in DOMAIN file : \E s \in DOMAIN servers' : servers'[s].name = file[i].name
           /\ \A g \in DOMAIN groups : g \in DOMAIN groups' /\ groups'[g] = groups[g]
  BY Zenon DEF CA!ImportDoesAsWritten
<1> DEFINE t == CA!Tables
           r == CA!Tables'
           N == Len(file)
<1>1. FileDone(t, r, file, N)
  BY ImportStep, Zenon
<1>2. /\ t.groups = groups /\ t.servers = servers /\ r.groups = groups' /\ r.servers = servers'
  BY DEF CA!Tables, CA!TablesOf
<1>3. DOMAIN file = 1..N
  BY FilesAreLists
<1> HIDE DEF t, r, N
<1>4. DOMAIN servers \subseteq DOMAIN servers'
  BY <1>1, <1>2, Zenon DEF FileDone
<1>5. \A i \in DOMAIN file : \E s \in DOMAIN servers' : servers'[s].name = file[i].name
  BY <1>1, <1>2, <1>3, Zenon DEF FileDone
<1>6. \A g \in DOMAIN groups : g \in DOMAIN groups' /\ groups'[g] = groups[g]
  BY <1>1, <1>2, Zenon DEF FileDone, SameGroups
<1>7. ASSUME NEW i, NEW s, RowWritten(t, r, file[i], s)
      PROVE  file[i].name = servers'[s].name /\ CA!AsWritten(file[i], s)
  BY <1>2, <1>7, Zenon DEF RowWritten, CA!AsWritten
<1>8. ASSUME NEW s \in DOMAIN servers'
      PROVE  IF \E i \in DOMAIN file : file[i].name = servers'[s].name
             THEN \E i \in DOMAIN file : file[i].name = servers'[s].name /\ CA!AsWritten(file[i], s)
             ELSE s \in DOMAIN servers /\ servers'[s] = servers[s]
  <2>1. IF Named(file, N, servers'[s].name)
        THEN \E i \in 1..N : RowWritten(t, r, file[i], s)
        ELSE s \in DOMAIN servers /\ servers'[s] = servers[s]
    BY <1>1, <1>2, Zenon DEF FileDone
  <2>2. CASE Named(file, N, servers'[s].name)
    <3>1. PICK i \in 1..N : RowWritten(t, r, file[i], s)
      BY <2>1, <2>2, Zenon
    <3>2. i \in DOMAIN file /\ file[i].name = servers'[s].name /\ CA!AsWritten(file[i], s)
      BY <1>3, <1>7, <3>1, Zenon
    <3> QED BY <3>2, Zenon
  <2>3. CASE ~Named(file, N, servers'[s].name)
    BY <1>3, <2>1, <2>3, Zenon DEF Named
  <2> QED BY <2>2, <2>3
<1> QED BY <1>4, <1>5, <1>6, <1>8

(* store.rs servers_import: for any names, hosts, groups and rows, and      *)
(* files of any length, an import makes each server its file names what the *)
(* row says, whether it was there before or not, and leaves every other     *)
(* server and group alone.                                                  *)
THEOREM AnImportIsAsWritten == CA!Spec => ImportIsAsWritten
<1>1. CatalogueInv /\ [CA!Next]_(CA!vars) => [UNCHANGED CA!vars \/ CA!ImportDoesAsWritten]_(CA!vars)
  BY ImportDoesSo
<1> QED BY <1>1, CatalogueInit, CatalogueNext, PTL DEF CA!Spec, ImportIsAsWritten, CA!ImportIsAsWritten
==============================================================================
