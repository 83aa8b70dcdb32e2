--------------------------------- MODULE Saml ---------------------------------
(****************************************************************************)
(* Single sign-on (saml.rs, sso.rs): the flow cookie that ties a response   *)
(* to the browser that asked for it, and the table of spent request and     *)
(* assertion IDs that makes each of them good for one sign-in.              *)
(*                                                                          *)
(* Cookies and responses outlive what they were for: either may be posted   *)
(* again, late, several at once, and after a restart.  A post takes its     *)
(* time when it arrives and reaches the table later; Delay bounds how much. *)
(* Documents are taken as read: see Signatures for their signatures and     *)
(* Instant for their times.                                                 *)
(****************************************************************************)
EXTENDS Integers, FiniteSets

CONSTANTS
    FLOW_SECS,      \* how long a started sign-in may take
    Skew,           \* clock_skew_secs
    MAX_SPENT,      \* spent IDs held at once
    Validity,       \* the lifetimes the identity provider may give an assertion
    Delay,          \* bound on the time from a post's arrival to the table
    Post,           \* posts that may be in flight at once
    MaxClock,       \* bound on time
    MaxRequests,    \* bound on the sign-ins started
    MaxAnswers,     \* bound on the identity provider's responses
    MaxStarts,      \* bound on the starts of the service
    Nothing         \* no value

VARIABLES
    clock,       \* seconds
    flowKey,     \* ServiceProvider.flow_key: the number of the start
    flows,       \* the flow cookies ever issued
    answers,     \* the identity provider's responses
    posts,       \* posts in flight: cookie, response and the time they took
    spent,       \* ServiceProvider.spent: ID and until when it is held
    accepted     \* how often each ID was accepted

vars == <<clock, flowKey, flows, answers, posts, spent, accepted>>

RequestId == 1..MaxRequests
AnswerId == 1..MaxAnswers
SpentKey == ({"r"} \X RequestId) \cup ({"a"} \X AnswerId)

Flow == [id : RequestId, expires : Int, key : 1..MaxStarts]
Answer == [id : AnswerId, inResponseTo : RequestId, until : Int]

TypeOK ==
    /\ clock \in 0..MaxClock /\ flowKey \in 1..MaxStarts
    /\ \A f \in flows : f \in Flow
    /\ \A a \in answers : a \in Answer
    /\ \A p \in Post : posts[p] = Nothing \/ (posts[p].flow \in flows /\ posts[p].answer \in answers)
    /\ \A e \in spent : e.key \in SpentKey /\ e.until > 0
    /\ accepted \in [SpentKey -> Nat]

Init ==
    /\ clock = 0 /\ flowKey = 1
    /\ flows = {} /\ answers = {}
    /\ posts = [p \in Post |-> Nothing]
    /\ spent = {}
    /\ accepted = [k \in SpentKey |-> 0]

------------------------------------------------------------------------------
(* An ID not given out before; the code's are random.                       *)
Unused(S, ids) == {i \in ids : \A x \in S : x.id # i}
NewId(S, ids) == CHOOSE i \in Unused(S, ids) : TRUE

(* start: a new request ID, and a cookie that holds it with its expiry,     *)
(* under the key of this start of the service.                              *)
StartFlow ==
    /\ Unused(flows, RequestId) # {}
    /\ flows' = flows \cup {[id |-> NewId(flows, RequestId), expires |-> clock + FLOW_SECS,
                             key |-> flowKey]}
    /\ UNCHANGED <<clock, flowKey, answers, posts, spent, accepted>>

(* The identity provider answers a request, more than once if asked to.     *)
Respond ==
    /\ Unused(answers, AnswerId) # {}
    /\ \E f \in flows, v \in Validity :
          answers' = answers \cup {[id |-> NewId(answers, AnswerId), inResponseTo |-> f.id,
                                    until |-> clock + v]}
    /\ UNCHANGED <<clock, flowKey, flows, posts, spent, accepted>>

(* acs: a browser posts a response with the cookie it has.                  *)
Arrive(p) ==
    /\ posts[p] = Nothing
    /\ \E f \in flows, a \in answers :
          posts' = [posts EXCEPT ![p] = [flow |-> f, answer |-> a, now |-> clock]]
    /\ UNCHANGED <<clock, flowKey, flows, answers, spent, accepted>>

------------------------------------------------------------------------------
(* flow_request: the cookie is this start's and still current.              *)
FlowRequest(f, now) == f.key = flowKey /\ f.expires > now

(* check_assertion, as far as time goes: the later of the two ends is the   *)
(* last moment the assertion could be accepted.                             *)
CheckAssertion(a, now) == now < a.until + Skew

(* The checks before the table is touched; whether the document passes its  *)
(* own (signature, issuer, audience, recipient) is left open.               *)
Checked(p, good) ==
    /\ FlowRequest(p.flow, p.now)
    /\ p.answer.inResponseTo = p.flow.id
    /\ good
    /\ CheckAssertion(p.answer, p.now)

Later(x, y) == IF x > y THEN x ELSE y

Keys(a) == {<<"r", a.inResponseTo>>, <<"a", a.id>>}

(* Faulty: entries end when the answer does.                                *)
SpendingWithoutSkew(a, now) ==
    {[key |-> <<"r", a.inResponseTo>>, until |-> now + FLOW_SECS],
     [key |-> <<"a", a.id>>, until |-> a.until]}

(* What accept adds to the table.                                           *)
Spending(a, now) ==
    {[key |-> <<"r", a.inResponseTo>>, until |-> now + FLOW_SECS + Skew],
     [key |-> <<"a", a.id>>, until |-> Later(a.until, now + FLOW_SECS) + Skew]}

(* The end of accept, under the table's lock: entries past their time go,   *)
(* then a response whose IDs are there, or for which there is no room, is   *)
(* refused.                                                                 *)
Accept(p, good) ==
    LET now == posts[p].now
        sent == posts[p].answer
        kept == {e \in spent : e.until > now}
    IN IF ~Checked(posts[p], good)
       THEN UNCHANGED <<spent, accepted>>
       ELSE IF (\E e \in kept : e.key \in Keys(sent)) \/ Cardinality(kept) + 2 > MAX_SPENT
       THEN spent' = kept /\ UNCHANGED accepted
       ELSE /\ spent' = kept \cup Spending(sent, now)
            /\ accepted' = [k \in SpentKey |-> accepted[k] + (IF k \in Keys(sent) THEN 1 ELSE 0)]

FinishPost(p) ==
    /\ posts[p] # Nothing
    /\ \E good \in BOOLEAN : Accept(p, good)
    /\ posts' = [posts EXCEPT ![p] = Nothing]
    /\ UNCHANGED <<clock, flowKey, flows, answers>>

(* A restart: a new flow key, an empty table, no request in flight.         *)
RestartSso ==
    /\ flowKey < MaxStarts
    /\ flowKey' = flowKey + 1
    /\ spent' = {}
    /\ posts' = [p \in Post |-> Nothing]
    /\ UNCHANGED <<clock, flows, answers, accepted>>

Tick ==
    /\ clock < MaxClock
    /\ \A p \in Post : posts[p] # Nothing => clock + 1 <= posts[p].now + Delay
    /\ clock' = clock + 1
    /\ UNCHANGED <<flowKey, flows, answers, posts, spent, accepted>>

Next ==
    \/ StartFlow \/ Respond \/ RestartSso \/ Tick
    \/ \E p \in Post : Arrive(p) \/ FinishPost(p)

Spec == Init /\ [][Next]_vars

------------------------------------------------------------------------------
(* A request is answered once and an assertion used once, whatever is       *)
(* posted again, at the moment an entry leaves the table or after a restart *)
(* that emptied it (ServiceProvider.spent and flow_key).                    *)
AcceptedOnce == \A k \in SpentKey : accepted[k] <= 1

(* Only a sign-in that was accepted takes room in the table: responses that *)
(* are refused can neither fill it nor spend the request they name, so they *)
(* cannot keep the real answer out (accept's order of checks).              *)
OnlyAcceptedIsSpent == \A e \in spent : accepted[e.key] = 1
==============================================================================
