------------------------------- MODULE Directory -------------------------------
(****************************************************************************)
(* A password sign-in against the directory (directory.rs authenticate):    *)
(* which controller is asked, under which name the password is checked, and *)
(* which account that signs in.                                             *)
(*                                                                          *)
(* A sign-in shares only the preferred controller with those beside it.     *)
(* Whether a controller answers is open each time one is asked.  Accounts   *)
(* are not renamed between the bind and the search, so the directory is     *)
(* what it is then for the whole attempt.  It resolves a name with an @ as  *)
(* a sign-in name first and as a short name in the domain after it second;  *)
(* an account's sign-in name carries its own domain.  WhoAmI reports the    *)
(* domain, as Active Directory does.                                        *)
(****************************************************************************)
EXTENDS Integers, Sequences

CONSTANTS
    Account,      \* accounts of the directory
    Own,          \* those of the configured domain; the others are of another
    Name,         \* short names, which are also the local parts of sign-in names
    TypedName,    \* the names typed
    Urls,         \* the number of domain controllers configured
    NoOne

VARIABLES
    netbios,      \* whether the domain's NetBIOS name is configured
    account,      \* the directory's accounts
    preferred,    \* Directory.preferred, from 1
    attempt       \* the sign-in

dirVars == <<netbios, account>>
vars == <<netbios, account, preferred, attempt>>

Domain == {"own", "other"}
NoName == [form |-> "none", name |-> NoOne, domain |-> "own"]

(* What may be typed, and what may be bound with: a short name, user@domain *)
(* or DOMAIN\user.                                                          *)
Typed == [form : {"short", "at", "back"}, name : TypedName, domain : Domain]

Idle == [step |-> "idle", bind |-> NoName, order |-> <<>>, asked |-> {}, bound |-> NoOne,
         whoami |-> NoName, signedIn |-> NoOne]

(* Short names are unique in a domain, sign-in names in the directory.      *)
Distinct(acc) ==
    \A a, b \in Account : a # b /\ acc[a].domain = acc[b].domain =>
        acc[a].short # acc[b].short /\ (acc[a].signInName # acc[b].signInName \/ acc[a].signInName = NoOne)

TypeOK ==
    /\ netbios \in BOOLEAN /\ preferred \in 1..Urls
    /\ account \in [Account -> [domain : Domain, short : Name, signInName : Name \cup {NoOne}]]
    /\ Distinct(account) /\ attempt.asked \subseteq 1..Urls
    /\ {attempt.bound, attempt.signedIn} \subseteq Account \cup {NoOne}

Init ==
    /\ netbios \in BOOLEAN /\ preferred = 1 /\ attempt = Idle
    /\ account \in [Account -> [domain : Domain, short : Name, signInName : Name \cup {NoOne}]]
    /\ Distinct(account) /\ \A a \in Account : account[a].domain = "own" <=> a \in Own

At(step) == attempt.step = step

------------------------------------------------------------------------------
(* sign_in_name: as typed when it names a domain and the answer's domain    *)
(* can be checked, otherwise the configured form of the short name.         *)
BindName(n) == [form |-> IF netbios THEN "back" ELSE "at", name |-> n, domain |-> "own"]

SignInName(typed) ==
    IF typed.form \in {"at", "back"} /\ netbios THEN typed ELSE BindName(typed.name)

(* try_order: the preferred controller, then the rest.                      *)
TryOrder == [i \in 1..Urls |-> IF i = 1 THEN preferred ELSE IF i <= preferred THEN i - 1 ELSE i]

Authenticate(typed) ==
    /\ At("idle")
    /\ attempt' = [Idle EXCEPT !.step = "connect", !.bind = SignInName(typed), !.order = TryOrder]
    /\ UNCHANGED <<dirVars, preferred>>

(* connect: one controller at a time, until one answers.                    *)
Connect(answers) ==
    LET first == Head(attempt.order) IN
    /\ At("connect") /\ attempt.order # <<>>
    /\ IF answers THEN attempt' = [attempt EXCEPT !.step = "bind"] /\ preferred' = first
       ELSE /\ attempt' = [attempt EXCEPT !.order = Tail(@), !.asked = @ \cup {first}]
            /\ UNCHANGED preferred
    /\ UNCHANGED dirVars

Unreachable ==
    /\ At("connect") /\ attempt.order = <<>>
    /\ attempt' = [attempt EXCEPT !.step = "unreachable"]
    /\ UNCHANGED <<dirVars, preferred>>

(* Another sign-in found a controller that answers.                         *)
OtherConnects(url) ==
    /\ At("connect") \/ At("idle")
    /\ preferred' = url
    /\ UNCHANGED <<dirVars, attempt>>

(* Whom the directory resolves a name to.                                   *)
BySignInName(n) ==
    {a \in Account : n.form = "at" /\ account[a].signInName = n.name /\ account[a].domain = n.domain}
ByShortName(n) == {a \in Account : account[a].short = n.name /\ account[a].domain = n.domain}
Resolves(n) == IF BySignInName(n) # {} THEN BySignInName(n) ELSE ByShortName(n)

(* bind: the password is right for the account the name resolves to, or the *)
(* attempt ends, as it does when the directory refuses a right password.    *)
Bind(accepts) ==
    LET who == Resolves(attempt.bind)
    IN /\ At("bind")
       /\ attempt' = IF accepts /\ who # {}
                     THEN [attempt EXCEPT !.step = "bound", !.bound = CHOOSE w \in who : TRUE]
                     ELSE [attempt EXCEPT !.step = "refused"]
       /\ UNCHANGED <<dirVars, preferred>>

(* whoami, and the domain compared with the configured one.                 *)
WhoAmI ==
    LET me == account[attempt.bound]
    IN /\ At("bound")
       /\ attempt' = IF netbios /\ me.domain # "own"
                     THEN [attempt EXCEPT !.step = "refused"]
                     ELSE [attempt EXCEPT !.step = "known",
                              !.whoami = [form |-> "back", name |-> me.short, domain |-> me.domain]]
       /\ UNCHANGED <<dirVars, preferred>>

(* Faulty: the name typed is searched for.                                  *)
SearchedNameTyped == attempt.bind.name

(* find: the entry of that short name under the base of the domain, if the  *)
(* account is usable.                                                       *)
SearchedName == attempt.whoami.name

Find(usable) ==
    LET who == ByShortName([attempt.whoami EXCEPT !.name = SearchedName, !.domain = "own"])
    IN /\ At("known")
       /\ attempt' = IF who # {} /\ usable
                     THEN [attempt EXCEPT !.step = "signed in", !.signedIn = CHOOSE w \in who : TRUE]
                     ELSE [attempt EXCEPT !.step = "refused"]
       /\ UNCHANGED <<dirVars, preferred>>

(* A controller that stops answering fails the attempt.                     *)
Broken ==
    /\ attempt.step \in {"bind", "bound", "known"}
    /\ attempt' = [attempt EXCEPT !.step = "refused"]
    /\ UNCHANGED <<dirVars, preferred>>

Next ==
    \/ \E typed \in Typed : Authenticate(typed)
    \/ \E answers \in BOOLEAN : Connect(answers)
    \/ Unreachable
    \/ \E url \in 1..Urls : OtherConnects(url)
    \/ \E accepts \in BOOLEAN : Bind(accepts)
    \/ WhoAmI
    \/ \E usable \in BOOLEAN : Find(usable)
    \/ Broken

Spec == Init /\ [][Next]_vars

------------------------------------------------------------------------------
(* How a sign-in ends is true: the account signed in is the one whose       *)
(* password the directory checked, whatever was typed and whoever else      *)
(* carries that name, and a sign-in is told that no controller could be     *)
(* reached only after each of them was found down, whichever one another    *)
(* sign-in made the preferred one meanwhile (authenticate, connect).        *)
SignInIsTrue ==
    /\ At("signed in") => attempt.signedIn = attempt.bound
    /\ At("unreachable") => attempt.asked = 1..Urls
==============================================================================
