------------------------------ MODULE AccessParts ------------------------------
(****************************************************************************)
(* The credential store, the directory and the catalogue of servers, each   *)
(* an instance of its module.  They share no state.                         *)
(****************************************************************************)
EXTENDS Integers, Sequences, FiniteSets

CONSTANTS
    None,                                                    \* no value
    Sid, VaultServer, Host, Admin, Client, ConsoleBeside,    \* Vault
        MaxKeys, MaxMoves,
    DirAccount, Own, Name, TypedName, Urls,                  \* Directory
    ServerName, GroupName, ServerHost, Port, Absent,         \* Catalogue
        DEFAULT_PORT, MaxServers, MaxGroups, Forms, Rows, MaxLines

VARIABLES
    serving, host, moves, keys, master, local, recovery, directory, sid, assigned, saved,
        request, console,
    netbios, entry, preferred, bind,
    groups, servers, groupIds, serverIds

(* The configured controllers.                                              *)
ASSUME DirectoryAssumption == Urls \in Nat

(* A form has its five fields, a row's domain cell says yes or no or is not *)
(* there, and a cell that is not there is no group's name.                  *)
ASSUME CatalogueAssumption ==
    /\ \A form \in Forms : DOMAIN form = {"name", "host", "port", "group", "domain"}
    /\ \A row \in Rows : row.domain \in BOOLEAN \cup {Absent}
    /\ Absent \notin GroupName /\ MaxLines \in Nat

VA == INSTANCE Vault WITH req <- request, Server <- VaultServer
DI == INSTANCE Directory WITH Account <- DirAccount, NoOne <- None, account <- entry,
                              attempt <- bind
CA == INSTANCE Catalogue WITH Name <- ServerName, Host <- ServerHost, MaxRows <- MaxLines

------------------------------------------------------------------------------
(* vault.rs credential_aad: a saved password is handed only to the account  *)
(* that saved it, across a reset between the steps of a save and a connect. *)
HandedToItsOwner == VA!HandedToItsOwner

(* vault.rs load, unlock, reset: the key in memory, the local wrap, the     *)
(* recovery wrap and the sealed directory password never come apart.        *)
OneKeyPerDatabase == VA!OneKeyPerDatabase /\ VA!DirectoryPasswordOpens

(* directory.rs authenticate, connect: who signs in is who was bound, and   *)
(* unreachable is said only after every controller was asked.               *)
SignInIsTrue == DI!SignInIsTrue

(* store.rs servers_import: a file makes each server it names what its row  *)
(* says and leaves the rest alone.                                          *)
ImportIsAsWritten == CA!ImportIsAsWritten
==============================================================================
