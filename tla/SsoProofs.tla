------------------------------ MODULE SsoProofs -------------------------------
(****************************************************************************)
(* Proofs about single sign-on and the calendar of its timestamps, as       *)
(* SsoParts has them: for any requests, answers and posts at once, any      *)
(* clock, and every year.                                                   *)
(****************************************************************************)
EXTENDS SsoParts, TLAPS

(****************************************************************************)
(* Single sign-on.  A request that was answered is in the table of spent    *)
(* IDs until no cookie and no post of it is current any more.               *)
(****************************************************************************)

(* The keys of the table of spent IDs: a request's, an assertion's.         *)
R(i) == <<"r", i>>
A(i) == <<"a", i>>

(* Request IDs are random: none is used again.                              *)
FlowsOK ==
    /\ flows \subseteq [id : SA!RequestId, expires : Int, key : Nat]
    /\ \A f \in flows : f.key <= flowKey /\ f.expires <= clock + FLOW_SECS
    /\ \A f, g \in flows : f.id = g.id => f = g

(* Nor is an assertion's.                                                   *)
AnswersOK ==
    /\ answers \subseteq SA!Answer
    /\ \A a, b \in answers : a.id = b.id => a = b

(* A post on its way took its time at most Delay ago, and after its cookie  *)
(* was issued.                                                              *)
PostOK(q) ==
    /\ q.flow \in flows /\ q.answer \in answers
    /\ q.now \in Int /\ q.now <= clock /\ clock <= q.now + Delay
    /\ q.flow.expires <= q.now + FLOW_SECS

(* The types, with what is known of flows, answers and posts.               *)
SsoTyped ==
    /\ clock \in Nat /\ flowKey \in Nat
    /\ FlowsOK /\ AnswersOK
    /\ \A p \in Post : posts[p] # NoPost => PostOK(posts[p])
    /\ DOMAIN posts = Post
    /\ spent \subseteq [key : SA!SpentKey, until : Int]
    /\ accepted \in [SA!SpentKey -> Nat]

(* Only what was asked for and answered was accepted.                       *)
AcceptedIsKnown ==
    /\ \A i \in SA!RequestId : accepted[R(i)] > 0 => \E f \in flows : f.id = i
    /\ \A i \in SA!AnswerId : accepted[A(i)] > 0 => \E a \in answers : a.id = i

(* A request was answered at most once, and an assertion used at most as    *)
(* often as the request it answers.                                         *)
RequestOnce ==
    /\ \A i \in SA!RequestId : accepted[R(i)] <= 1
    /\ \A a \in answers : accepted[A(a.id)] <= accepted[R(a.inResponseTo)]

(* A request of this start that was answered is in the table, or too old    *)
(* for every post that is still to reach it.                                *)
Spent(f) == \E e \in spent : e.key = R(f.id) /\ e.until >= f.expires + Skew

SpentWhileCurrent ==
    \A f \in flows : f.key = flowKey /\ accepted[R(f.id)] > 0 =>
        Spent(f) \/ f.expires + Skew <= clock

(* What is in the table was accepted, once.                                 *)
SpentIsAccepted == \A e \in spent : accepted[e.key] = 1

Sso == SsoTyped /\ AcceptedIsKnown /\ RequestOnce /\ SpentWhileCurrent /\ SpentIsAccepted

(* A new ID is one that was not given out.                                  *)
LEMMA NewIdUnused ==
    ASSUME NEW S, NEW ids, SA!Unused(S, ids) # {}
    PROVE  SA!NewId(S, ids) \in ids /\ \A x \in S : x.id # SA!NewId(S, ids)
<1>1. SA!NewId(S, ids) \in SA!Unused(S, ids)
  BY Zenon DEF SA!NewId
<1> QED BY <1>1, Zenon DEF SA!Unused

(* Keys are in the table of what was accepted.                              *)
LEMMA KeysTyped ==
    /\ \A i \in SA!RequestId : R(i) \in SA!SpentKey
    /\ \A i \in SA!AnswerId : A(i) \in SA!SpentKey
  BY DEF R, A, SA!SpentKey

(* Nothing was started, answered or accepted.                               *)
LEMMA SsoInit == SA!Init => Sso
  <1> SUFFICES ASSUME SA!Init PROVE Sso
    OBVIOUS
  <1>1. SsoTyped
    BY DEF SA!Init, SsoTyped, FlowsOK, AnswersOK
  <1>2. AcceptedIsKnown /\ RequestOnce /\ SpentWhileCurrent /\ SpentIsAccepted
    BY KeysTyped DEF SA!Init, AcceptedIsKnown, RequestOnce, SpentWhileCurrent, SpentIsAccepted
  <1> QED BY <1>1, <1>2 DEF Sso

(* start gives a request an ID that nothing was accepted under.             *)
LEMMA SsoStart == ASSUME Sso, SA!StartFlow PROVE Sso'
  <1> DEFINE id == SA!NewId(flows, SA!RequestId)
             new == [id |-> id, expires |-> clock + FLOW_SECS, key |-> flowKey]
  <1>1. /\ flows' = flows \cup {new}
        /\ UNCHANGED <<clock, flowKey, answers, posts, spent, accepted>>
    BY DEF SA!StartFlow
  <1>2. id \in SA!RequestId /\ \A f \in flows : f.id # id
    BY NewIdUnused, Zenon DEF SA!StartFlow
  <1> HIDE DEF id
  <1>3. new.id = id /\ new.key = flowKey /\ new.expires = clock + FLOW_SECS
    OBVIOUS
  <1>4. clock \in Nat /\ flowKey \in Nat /\ FLOW_SECS \in Nat
    BY SamlAssumption DEF Sso, SsoTyped
  <1>6. new \in [id : SA!RequestId, expires : Int, key : Nat]
    BY <1>2, <1>4
  <1>7. FlowsOK'
    <2> HIDE DEF new
    <2>1. \A f \in flows' : f.key <= flowKey' /\ f.expires <= clock' + FLOW_SECS
      BY <1>1, <1>3, <1>4 DEF Sso, SsoTyped, FlowsOK
    <2>2. \A f, g \in flows' : f.id = g.id => f = g
      BY <1>1, <1>2, <1>3, Zenon DEF Sso, SsoTyped, FlowsOK
    <2> QED BY <1>1, <1>6, <2>1, <2>2 DEF Sso, SsoTyped, FlowsOK
  <1>8. SsoTyped'
    BY <1>1, <1>7 DEF Sso, SsoTyped, AnswersOK, PostOK
  <1>9. AcceptedIsKnown' /\ RequestOnce'
    BY <1>1 DEF Sso, AcceptedIsKnown, RequestOnce
  <1>10. accepted[R(new.id)] = 0
    <2> HIDE DEF new
    <2>1. new.id \in SA!RequestId /\ ~ \E f \in flows : f.id = new.id
      BY <1>2, <1>3
    <2>2. accepted[R(new.id)] \in Nat
      BY <2>1, KeysTyped DEF Sso, SsoTyped
    <2> QED BY <2>1, <2>2 DEF Sso, AcceptedIsKnown
  <1>11. SpentWhileCurrent'
    <2> HIDE DEF new
    <2> SUFFICES ASSUME NEW f \in flows', f.key = flowKey', accepted'[R(f.id)] > 0
                 PROVE  Spent(f)' \/ f.expires + Skew <= clock'
      BY DEF SpentWhileCurrent
    <2>1. f \in flows
      BY <1>1, <1>10
    <2> QED BY <1>1, <2>1 DEF Sso, SpentWhileCurrent, Spent
  <1> QED BY <1>1, <1>8, <1>9, <1>11 DEF Sso, SpentIsAccepted

(* The identity provider's next answer is one that was not used.            *)
LEMMA SsoRespond == ASSUME Sso, SA!Respond PROVE Sso'
  <1> DEFINE id == SA!NewId(answers, SA!AnswerId)
  <1>1. PICK f \in flows, v \in Validity :
            answers' = answers \cup {[id |-> id, inResponseTo |-> f.id, until |-> clock + v]}
    BY Zenon DEF SA!Respond
  <1> DEFINE new == [id |-> id, inResponseTo |-> f.id, until |-> clock + v]
  <1>2. UNCHANGED <<clock, flowKey, flows, posts, spent, accepted>>
    BY DEF SA!Respond
  <1>5. id \in SA!AnswerId /\ \A a \in answers : a.id # id
    BY NewIdUnused, Zenon DEF SA!Respond
  <1> HIDE DEF id
  <1>3. clock \in Nat /\ v \in Int /\ f.id \in SA!RequestId
    BY SamlAssumption DEF Sso, SsoTyped, FlowsOK
  <1>4. new.id = id /\ new.inResponseTo = f.id
    OBVIOUS
  <1>7. new \in SA!Answer
    BY <1>3, <1>5 DEF SA!Answer
  <1> HIDE DEF new
  <1>8. answers' = answers \cup {new}
    BY <1>1 DEF new
  <1>9. AnswersOK'
    <2>2. \A a, b \in answers' : a.id = b.id => a = b
      BY <1>4, <1>5, <1>8, Zenon DEF Sso, SsoTyped, AnswersOK
    <2> QED BY <1>7, <1>8, <2>2 DEF Sso, SsoTyped, AnswersOK
  <1>10. SsoTyped'
    BY <1>2, <1>8, <1>9 DEF Sso, SsoTyped, FlowsOK, PostOK
  <1>11. AcceptedIsKnown'
    BY <1>2, <1>8 DEF Sso, AcceptedIsKnown
  <1>12. accepted[A(new.id)] = 0
    <2>1. new.id \in SA!AnswerId /\ ~ \E a \in answers : a.id = new.id
      BY <1>4, <1>5
    <2>2. accepted[A(new.id)] \in Nat
      BY <2>1, KeysTyped DEF Sso, SsoTyped
    <2> QED BY <2>1, <2>2 DEF Sso, AcceptedIsKnown
  <1>13. RequestOnce'
    <2>1. accepted[R(f.id)] \in Nat
      BY <1>3, KeysTyped DEF Sso, SsoTyped
    <2> QED BY <1>2, <1>4, <1>8, <1>12, <2>1 DEF Sso, RequestOnce
  <1>14. SpentWhileCurrent'
    BY <1>2 DEF Sso, SpentWhileCurrent, Spent
  <1> QED BY <1>2, <1>10, <1>11, <1>13, <1>14 DEF Sso, SpentIsAccepted

(* Time passes, a post arrives, the service starts again.                   *)
LEMMA SsoOthers ==
    ASSUME Sso, SA!Tick \/ SA!RestartSso \/ \E p \in Post : SA!Arrive(p)
    PROVE  Sso'
  <1>1. CASE SA!Tick
    <2>1. /\ clock' = clock + 1 /\ clock \in Nat
          /\ \A p \in Post : posts[p] # NoPost => clock + 1 <= posts[p].now + Delay
          /\ UNCHANGED <<flowKey, flows, answers, posts, spent, accepted>>
      BY <1>1 DEF SA!Tick, Sso, SsoTyped
    <2>2. FlowsOK'
      BY <2>1, SamlAssumption DEF Sso, SsoTyped, FlowsOK
    <2>3. ASSUME NEW p \in Post, posts'[p] # NoPost PROVE PostOK(posts[p])'
      BY <2>1, <2>3 DEF Sso, SsoTyped, PostOK
    <2>4. SsoTyped'
      BY <2>1, <2>2, <2>3 DEF Sso, SsoTyped, AnswersOK
    <2>5. SpentWhileCurrent'
      BY <2>1, SamlAssumption DEF Sso, SsoTyped, FlowsOK, SpentWhileCurrent, Spent
    <2> QED BY <2>1, <2>4, <2>5 DEF Sso, AcceptedIsKnown, RequestOnce, SpentIsAccepted
  <1>2. CASE SA!RestartSso
    <2>1. /\ flowKey' = flowKey + 1 /\ spent' = {} /\ posts' = [p \in Post |-> NoPost]
          /\ flowKey \in Nat
          /\ UNCHANGED <<clock, flows, answers, accepted>>
      BY <1>2 DEF SA!RestartSso, Sso, SsoTyped
    <2>2. \A f \in flows : f.key <= flowKey' /\ f.key # flowKey'
      BY <2>1 DEF Sso, SsoTyped, FlowsOK
    <2>3. SsoTyped'
      BY <2>1, <2>2 DEF Sso, SsoTyped, FlowsOK, AnswersOK
    <2>4. SpentWhileCurrent'
      BY <2>1, <2>2 DEF SpentWhileCurrent
    <2> QED BY <2>1, <2>3, <2>4 DEF Sso, AcceptedIsKnown, RequestOnce, SpentIsAccepted
  <1>3. ASSUME NEW p \in Post, SA!Arrive(p) PROVE Sso'
    <2>1. PICK f \in flows, a \in answers :
              posts' = [posts EXCEPT ![p] = [flow |-> f, answer |-> a, now |-> clock]]
      BY <1>3, Zenon DEF SA!Arrive
    <2>2. UNCHANGED <<clock, flowKey, flows, answers, spent, accepted>>
      BY <1>3 DEF SA!Arrive
    <2>3. ASSUME NEW o \in Post, posts'[o] # NoPost PROVE PostOK(posts[o])'
      <3>1. CASE o = p
        <4>1. posts'[o] = [flow |-> f, answer |-> a, now |-> clock]
          BY <2>1, <3>1 DEF Sso, SsoTyped
        <4>2. f.expires <= clock + FLOW_SECS /\ clock \in Nat /\ Delay \in Nat
          BY SamlAssumption DEF Sso, SsoTyped, FlowsOK
        <4> QED BY <2>2, <4>1, <4>2 DEF PostOK
      <3>2. CASE o # p
        <4>1. posts'[o] = posts[o]
          BY <2>1, <3>2
        <4> QED BY <2>2, <2>3, <4>1 DEF Sso, SsoTyped, PostOK
      <3> QED BY <3>1, <3>2
    <2>4. SsoTyped'
      BY <2>1, <2>2, <2>3 DEF Sso, SsoTyped, FlowsOK, AnswersOK
    <2> QED BY <2>2, <2>4 DEF Sso, AcceptedIsKnown, RequestOnce, SpentWhileCurrent, Spent,
                  SpentIsAccepted
  <1> QED BY <1>1, <1>2, <1>3

(* Entries that end by now go, and nothing else of the table: an entry of a *)
(* cookie that a post on its way still could use is not among them.         *)
LEMMA SsoKept ==
    ASSUME Sso, NEW now \in Int, now <= clock,
           NEW more \in SUBSET [key : SA!SpentKey, until : Int],
           spent' = {e \in spent : e.until > now} \cup more,
           UNCHANGED <<clock, flowKey, flows>>,
           NEW f \in flows, f.key = flowKey, accepted[R(f.id)] > 0
    PROVE  Spent(f)' \/ f.expires + Skew <= clock'
  <1>1. Spent(f) \/ f.expires + Skew <= clock
    BY DEF Sso, SpentWhileCurrent
  <1>2. ASSUME NEW e \in spent, e.key = R(f.id), e.until >= f.expires + Skew
        PROVE  Spent(f)' \/ f.expires + Skew <= clock'
    <2>1. e.until \in Int /\ f.expires \in Int /\ Skew \in Nat /\ clock \in Nat
      BY SamlAssumption DEF Sso, SsoTyped, FlowsOK
    <2>2. CASE e.until > now
      BY <1>2, <2>2 DEF Spent
    <2>3. CASE ~(e.until > now)
      BY <1>2, <2>1, <2>3
    <2> QED BY <2>2, <2>3
  <1> QED BY <1>1, <1>2 DEF Spent

(* The end of accept: refused, or counted once.                             *)
LEMMA SsoFinish == ASSUME Sso, NEW p \in Post, SA!FinishPost(p) PROVE Sso'
  <1> DEFINE q == posts[p]
             now == q.now
             f == q.flow
             sent == q.answer
             kept == {e \in spent : e.until > now}
  <1>1. /\ q # NoPost /\ posts' = [posts EXCEPT ![p] = NoPost]
        /\ UNCHANGED <<clock, flowKey, flows, answers>>
    BY DEF SA!FinishPost
  <1>2. /\ PostOK(q) /\ now \in Int /\ now <= clock /\ clock <= now + Delay
        /\ f \in flows /\ sent \in answers
    BY <1>1 DEF Sso, SsoTyped, PostOK
  <1>3. f.expires <= now + FLOW_SECS
    BY <1>2 DEF PostOK
  <1>4. /\ f.id \in SA!RequestId /\ f.expires \in Int /\ clock \in Nat
        /\ sent.id \in SA!AnswerId /\ sent.inResponseTo \in SA!RequestId /\ sent.until \in Int
        /\ FLOW_SECS \in Nat /\ Skew \in Nat /\ Delay \in Nat /\ Delay <= Skew
    BY <1>2, SamlAssumption DEF Sso, SsoTyped, FlowsOK, AnswersOK, SA!Answer
  <1>5. ASSUME NEW o \in Post, posts'[o] # NoPost PROVE PostOK(posts[o])'
    <2>1. o # p /\ posts'[o] = posts[o]
      BY <1>1, <1>5 DEF Sso, SsoTyped
    <2> QED BY <1>1, <1>5, <2>1 DEF Sso, SsoTyped, PostOK
  <1>6. ASSUME spent' \subseteq [key : SA!SpentKey, until : Int], accepted' \in [SA!SpentKey -> Nat]
        PROVE  SsoTyped'
    BY <1>1, <1>5, <1>6 DEF Sso, SsoTyped, FlowsOK, AnswersOK
  <1>7. CASE UNCHANGED <<spent, accepted>>
    <2>1. SsoTyped'
      BY <1>6, <1>7 DEF Sso, SsoTyped
    <2> QED BY <1>1, <1>7, <2>1 DEF Sso, AcceptedIsKnown, RequestOnce, SpentWhileCurrent, Spent,
                  SpentIsAccepted
  <1>8. CASE spent' = kept /\ UNCHANGED accepted
    <2>1. SsoTyped'
      BY <1>6, <1>8 DEF Sso, SsoTyped
    <2>2. SpentWhileCurrent'
      <3> SUFFICES ASSUME NEW g \in flows, g.key = flowKey, accepted[R(g.id)] > 0
                   PROVE  Spent(g)' \/ g.expires + Skew <= clock'
        BY <1>1, <1>8 DEF SpentWhileCurrent
      <3>1. spent' = kept \cup {}
        BY <1>8
      <3> HIDE DEF q
      <3> QED BY <1>1, <1>2, <3>1, SsoKept, Zenon
    <2> QED BY <1>1, <1>8, <2>1, <2>2 DEF Sso, AcceptedIsKnown, RequestOnce, SpentIsAccepted
  <1>9. ASSUME SA!Checked(q, TRUE), ~ \E e \in kept : e.key \in SA!Keys(sent),
               spent' = kept \cup SA!Spending(sent, now),
               accepted' = [k \in SA!SpentKey |->
                              accepted[k] + (IF k \in SA!Keys(sent) THEN 1 ELSE 0)]
        PROVE  Sso'
    <2>1. f.key = flowKey /\ f.expires > now /\ sent.inResponseTo = f.id
      BY <1>9 DEF SA!Checked, SA!FlowRequest
    <2>2. R(f.id) \in SA!SpentKey /\ A(sent.id) \in SA!SpentKey
      BY <1>4, KeysTyped
    <2>3. SA!Keys(sent) = {R(f.id), A(sent.id)}
      BY <2>1 DEF SA!Keys, R, A
    <2>4. accepted[R(f.id)] = 0
      <3>1. ~(f.expires + Skew <= clock)
        BY <1>2, <1>4, <2>1
      <3>2. ~Spent(f)
        <4> SUFFICES ASSUME NEW e \in spent, e.key = R(f.id), e.until >= f.expires + Skew
                     PROVE  FALSE
          BY DEF Spent
        <4>1. e.until \in Int
          BY DEF Sso, SsoTyped
        <4>2. e.until > now
          BY <1>2, <1>4, <2>1, <4>1
        <4> QED BY <1>9, <2>3, <4>2
      <3>3. accepted[R(f.id)] \in Nat
        BY <2>2 DEF Sso, SsoTyped
      <3> QED BY <1>2, <2>1, <3>1, <3>2, <3>3 DEF Sso, SpentWhileCurrent
    <2>5. accepted[A(sent.id)] = 0
      <3>1. accepted[A(sent.id)] \in Nat
        BY <2>2 DEF Sso, SsoTyped
      <3> QED BY <1>2, <2>1, <2>4, <3>1 DEF Sso, RequestOnce
    <2>6. SA!Spending(sent, now) \subseteq [key : SA!SpentKey, until : Int]
      <3>1. SA!Later(sent.until, now + FLOW_SECS) \in Int
        BY <1>2, <1>4 DEF SA!Later
      <3> QED BY <1>2, <1>4, <2>1, <2>2, <3>1 DEF SA!Spending, R, A
    <2>7. \E e \in SA!Spending(sent, now) : e.key = R(f.id) /\ e.until = now + FLOW_SECS + Skew
      BY <2>1 DEF SA!Spending, R
    <2>8. /\ accepted' \in [SA!SpentKey -> Nat]
          /\ \A k \in SA!SpentKey :
                accepted'[k] = IF k \in {R(f.id), A(sent.id)} THEN 1 ELSE accepted[k]
      <3>1. \A k \in SA!SpentKey : accepted[k] \in Nat
        BY DEF Sso, SsoTyped
      <3>2. \A k \in SA!SpentKey :
              accepted'[k] = IF k \in {R(f.id), A(sent.id)} THEN 1 ELSE accepted[k]
        BY <1>9, <2>2, <2>3, <2>4, <2>5, <3>1
      <3>3. accepted' = [k \in SA!SpentKey |-> accepted'[k]]
        BY <1>9
      <3> HIDE DEF q
      <3> QED BY <3>1, <3>2, <3>3
    <2>9. /\ \A i \in SA!RequestId : accepted'[R(i)] = IF i = f.id THEN 1 ELSE accepted[R(i)]
          /\ \A i \in SA!AnswerId : accepted'[A(i)] = IF i = sent.id THEN 1 ELSE accepted[A(i)]
      BY <2>8, KeysTyped DEF R, A
    <2> HIDE DEF q
    <2>10. SsoTyped'
      BY <1>6, <1>9, <2>6, <2>8 DEF Sso, SsoTyped
    <2>11. AcceptedIsKnown'
      BY <1>1, <1>2, <2>9 DEF Sso, AcceptedIsKnown
    <2>12. RequestOnce'
      <3>1. \A i \in SA!RequestId : accepted'[R(i)] <= 1
        BY <2>9, SMT DEF Sso, RequestOnce
      <3>2. ASSUME NEW a \in answers PROVE accepted'[A(a.id)] <= accepted'[R(a.inResponseTo)]
        <4>1. a.id \in SA!AnswerId /\ a.inResponseTo \in SA!RequestId
          BY DEF Sso, SsoTyped, AnswersOK, SA!Answer
        <4>2. CASE a.id = sent.id
          <5>1. a = sent
            BY <1>2, <4>2 DEF Sso, SsoTyped, AnswersOK
          <5> QED BY <2>1, <2>9, <4>1, <5>1
        <4>3. CASE a.id # sent.id
          <5>1. /\ accepted'[A(a.id)] = accepted[A(a.id)]
                /\ accepted[A(a.id)] <= accepted[R(a.inResponseTo)]
            BY <2>9, <4>1, <4>3 DEF Sso, RequestOnce
          <5>2. accepted[R(a.inResponseTo)] \in Nat /\ accepted[A(a.id)] \in Nat
            BY <4>1, KeysTyped DEF Sso, SsoTyped
          <5> QED BY <2>4, <2>9, <4>1, <5>1, <5>2
        <4> QED BY <4>2, <4>3
      <3> QED BY <1>1, <3>1, <3>2 DEF RequestOnce
    <2>13. SpentWhileCurrent'
      <3> SUFFICES ASSUME NEW g \in flows, g.key = flowKey, accepted'[R(g.id)] > 0
                   PROVE  Spent(g)' \/ g.expires + Skew <= clock'
        BY <1>1 DEF SpentWhileCurrent
      <3>1. g.id \in SA!RequestId
        BY DEF Sso, SsoTyped, FlowsOK
      <3>2. CASE g.id = f.id
        <4>1. g = f
          BY <1>2, <3>2 DEF Sso, SsoTyped, FlowsOK
        <4>2. \E e \in spent' : e.key = R(g.id) /\ e.until >= g.expires + Skew
          BY <1>2, <1>3, <1>4, <1>9, <2>7, <4>1
        <4> QED BY <4>2 DEF Spent
      <3>3. CASE g.id # f.id
        <4>1. accepted[R(g.id)] > 0
          BY <2>9, <3>1, <3>3
        <4> QED BY <1>1, <1>2, <1>9, <2>6, <4>1, SsoKept, Zenon
      <3> QED BY <3>2, <3>3
    <2>14. SpentIsAccepted'
      <3> SUFFICES ASSUME NEW e \in spent' PROVE accepted'[e.key] = 1
        BY DEF SpentIsAccepted
      <3>1. e \in kept \/ e.key \in {R(f.id), A(sent.id)}
        BY <1>9, <2>1 DEF SA!Spending, R, A
      <3>2. e.key \in SA!SpentKey
        BY <1>9, <2>6 DEF Sso, SsoTyped
      <3> QED BY <2>8, <3>1, <3>2 DEF Sso, SpentIsAccepted
    <2> QED BY <2>10, <2>11, <2>12, <2>13, <2>14 DEF Sso
  <1>10. PICK good \in BOOLEAN : SA!Accept(p, good)
    BY DEF SA!FinishPost
  <1>11. SA!Checked(q, good) => SA!Checked(q, TRUE)
    BY DEF SA!Checked
  <1> QED BY <1>7, <1>8, <1>9, <1>10, <1>11, Zenon DEF SA!Accept

(* The invariant is kept by every step.                                     *)
LEMMA SsoNext == Sso /\ [SA!Next]_SA!vars => Sso'
  <1> SUFFICES ASSUME Sso, [SA!Next]_SA!vars PROVE Sso'
    OBVIOUS
  <1>1. CASE UNCHANGED SA!vars
    BY <1>1 DEF SA!vars, Sso, SsoTyped, FlowsOK, AnswersOK, PostOK, AcceptedIsKnown,
                RequestOnce, SpentWhileCurrent, Spent, SpentIsAccepted
  <1> QED BY <1>1, SsoStart, SsoRespond, SsoOthers, SsoFinish DEF SA!Next

(* A request is answered once and an assertion used once, whatever is       *)
(* posted again, late, several at a time or after a restart (accept,        *)
(* ServiceProvider.spent and flow_key).                                     *)
THEOREM EachAcceptedOnce == SA!Spec => []AcceptedOnce
  <1>1. Sso => SA!AcceptedOnce
    <2> SUFFICES ASSUME Sso, NEW k \in SA!SpentKey PROVE accepted[k] <= 1
      BY DEF SA!AcceptedOnce
    <2>1. CASE k \in {"r"} \X SA!RequestId
      <3>1. PICK i \in SA!RequestId : k = R(i)
        BY <2>1 DEF R
      <3> QED BY <3>1 DEF Sso, RequestOnce
    <2>2. CASE k \in {"a"} \X SA!AnswerId
      <3>1. PICK i \in SA!AnswerId : k = A(i)
        BY <2>2 DEF A
      <3>2. accepted[k] \in Nat
        BY DEF Sso, SsoTyped
      <3>3. CASE accepted[k] > 0
        <4>1. PICK a \in answers : a.id = i
          BY <3>1, <3>3 DEF Sso, AcceptedIsKnown
        <4>2. a.inResponseTo \in SA!RequestId
          BY DEF Sso, SsoTyped, AnswersOK, SA!Answer
        <4>3. accepted[k] <= accepted[R(a.inResponseTo)] /\ accepted[R(a.inResponseTo)] <= 1
          BY <3>1, <4>1, <4>2 DEF Sso, RequestOnce
        <4>4. accepted[R(a.inResponseTo)] \in Nat
          BY <4>2, KeysTyped DEF Sso, SsoTyped
        <4> QED BY <3>2, <4>3, <4>4
      <3> QED BY <3>2, <3>3
    <2> QED BY <2>1, <2>2 DEF SA!SpentKey
  <1>2. Sso => AcceptedOnce
    BY <1>1 DEF Sso, SpentIsAccepted, AcceptedOnce, SA!OnlyAcceptedIsSpent
  <1> QED BY SsoInit, SsoNext, <1>2, PTL DEF SA!Spec

------------------------------------------------------------------------------
(****************************************************************************)
(* Instant.  A year of the conversions begins in March, so that the leap    *)
(* day is its last; four centuries have 146097 days.  YearDays is the day   *)
(* such a year begins on, MonthDays the days before a month of it.  The     *)
(* constants are large, so most leaves name the prover, and facts about the *)
(* conversions are passed on as predicates.                                 *)
(****************************************************************************)

(* The days before the year yoe of an era.                                  *)
EraDays(era, yoe) == era * 146097 + (yoe * 365 + yoe \div 4 - yoe \div 100)

(* The days before a year.                                                  *)
YearDays(y) == EraDays(IT!YearEra(y), y - IT!YearEra(y) * 400)

(* The days before a month, within its year.                                *)
MonthDays(m) == (153 * ((m + 9) % 12) + 2) \div 5

(* The day doe of an era.                                                   *)
InEra(e, doe) == e * 146097 + doe

(* The year that begins in March and that a month belongs to.               *)
MarchYear(y, m) == IF m <= 2 THEN y - 1 ELSE y

(* Rounding down to whole eras, as the code does it for years and for days. *)
LEMMA EraOfYear ==
    ASSUME NEW y \in Int
    PROVE IT!YearEra(y) = y \div 400
  <1>1. CASE y >= 0
    BY <1>1, SMT DEF IT!Quot, IT!YearEra
  <1>2. CASE ~(y >= 0)
    <2>1. IT!Quot(y - 399, 400) = -((-(y - 399)) \div 400)
      BY <1>2, SMT DEF IT!Quot
    <2>2. -((-(y - 399)) \div 400) = y \div 400
      BY SMT
    <2> QED
      BY <1>2, <2>1, <2>2, SMT DEF IT!YearEra
  <1> QED
    BY <1>1, <1>2, SMT

(* The era of a day counted from the beginning of an era.                   *)
LEMMA EraOfDay ==
    ASSUME NEW e \in Int, NEW doe \in Int, 0 <= doe, doe <= 146096
    PROVE IT!DayEra(InEra(e, doe)) = e
  <1>0. PICK z \in Int : z = e * 146097 + doe /\ z = InEra(e, doe)
    BY SMT DEF InEra
  <1>1. CASE z >= 0
    BY <1>0, <1>1, SMT DEF IT!Quot, IT!DayEra
  <1>2. CASE ~(z >= 0)
    <2>1. IT!Quot(z - 146096, 146097) = -((-(z - 146096)) \div 146097)
      BY <1>2, SMT DEF IT!Quot
    <2>2. (-(z - 146096)) \div 146097 = -e
      BY <1>0, SMT
    <2> QED
      BY <1>0, <1>2, <2>1, <2>2, SMT DEF IT!DayEra
  <1> QED
    BY <1>1, <1>2, SMT

(* A year in eras, centuries, leap periods and years.                       *)
InParts(y, e, c, q, t) ==
    /\ 0 <= c /\ c <= 3 /\ 0 <= q /\ q <= 24 /\ 0 <= t /\ t <= 3
    /\ y = 400 * e + 100 * c + 4 * q + t
    /\ YearDays(y) = 146097 * e + 36524 * c + 1461 * q + 365 * t

(* Every year has its parts, and they give the day it begins on.            *)
LEMMA YearParts ==
    ASSUME NEW y \in Int
    PROVE \E e \in Int, c \in Int, q \in Int, t \in Int : InParts(y, e, c, q, t)
  <1>1. \E e \in Int, r \in Int : e = y \div 400 /\ r = y - e * 400 /\ 0 <= r /\ r <= 399
    <2>1. y \div 400 \in Int /\ 0 <= y - (y \div 400) * 400 /\ y - (y \div 400) * 400 <= 399
      BY SMT
    <2> QED
      BY <2>1, SMT
  <1>2. PICK e \in Int, r \in Int : e = y \div 400 /\ r = y - e * 400 /\ 0 <= r /\ r <= 399
    BY <1>1, SMT
  <1>3. YearDays(y) = EraDays(e, r)
    <2>1. IT!YearEra(y) = e
      BY EraOfYear, <1>2, SMT
    <2> QED
      BY <1>2, <2>1, SMT DEF YearDays
  <1>4. \E c \in Int, q \in Int, t \in Int :
          r = 100 * c + 4 * q + t /\ 0 <= c /\ c <= 3 /\ 0 <= q /\ q <= 24 /\ 0 <= t /\ t <= 3
    <2>1. r \div 100 \in Int /\ 0 <= r \div 100 /\ r \div 100 <= 3
      BY <1>2, SMT
    <2>2. 0 <= r - 100 * (r \div 100) /\ r - 100 * (r \div 100) <= 99
      BY <1>2, SMT
    <2>3. PICK c \in Int, s \in Int :
            r = 100 * c + s /\ 0 <= c /\ c <= 3 /\ 0 <= s /\ s <= 99
      BY <2>1, <2>2, SMT
    <2>4. /\ s \div 4 \in Int /\ 0 <= s \div 4 /\ s \div 4 <= 24
          /\ 0 <= s - 4 * (s \div 4) /\ s - 4 * (s \div 4) <= 3
      BY <2>3, SMT
    <2>5. r = 100 * c + 4 * (s \div 4) + (s - 4 * (s \div 4)) /\ s - 4 * (s \div 4) \in Int
      BY <2>3, <2>4, SMT
    <2> QED
      BY <2>3, <2>4, <2>5, SMT
  <1>5. PICK c \in Int, q \in Int, t \in Int :
          r = 100 * c + 4 * q + t /\ 0 <= c /\ c <= 3 /\ 0 <= q /\ q <= 24 /\ 0 <= t /\ t <= 3
    BY <1>4, SMT
  <1>6. r \div 4 = 25 * c + q /\ r \div 100 = c
    BY <1>5, SMT
  <1>7. YearDays(y) = 146097 * e + 36524 * c + 1461 * q + 365 * t
    BY <1>2, <1>3, <1>5, <1>6, SMT DEF EraDays
  <1>8. InParts(y, e, c, q, t)
    BY <1>2, <1>5, <1>7, SMT DEF InParts
  <1> QED
    BY <1>8, Zenon

(* A year is a day longer when it ends in the February of a leap year.      *)
LEMMA YearStep ==
    ASSUME NEW y \in Int
    PROVE YearDays(y) - YearDays(y - 1) = IF IT!Leap(y) THEN 366 ELSE 365
  <1>1. PICK e \in Int, c \in Int, q \in Int, t \in Int : InParts(y, e, c, q, t)
    BY YearParts, Zenon
  <1>8. y - 1 \in Int
    BY SMT
  <1>2. PICK f \in Int, d \in Int, p \in Int, s \in Int : InParts(y - 1, f, d, p, s)
    BY <1>8, YearParts, Zenon
  <1>3. IT!Leap(y) <=> t = 0 /\ (q # 0 \/ c = 0)
    <2>1. y % 4 = t
      BY <1>1, SMT DEF InParts
    <2>2. y % 100 = 4 * q + t
      BY <1>1, SMT DEF InParts
    <2>3. y % 400 = 100 * c + 4 * q + t
      BY <1>1, SMT DEF InParts
    <2> QED
      BY <2>1, <2>2, <2>3, SMT DEF IT!Leap
  <1>4. CASE t # 0
    <2>1. f = e /\ d = c /\ p = q /\ s = t - 1
      BY <1>1, <1>2, <1>4, SMT DEF InParts
    <2> QED
      BY <1>1, <1>2, <1>3, <1>4, <2>1, SMT DEF InParts
  <1>5. CASE t = 0 /\ q # 0
    <2>1. f = e /\ d = c /\ p = q - 1 /\ s = 3
      BY <1>1, <1>2, <1>5, SMT DEF InParts
    <2> QED
      BY <1>1, <1>2, <1>3, <1>5, <2>1, SMT DEF InParts
  <1>6. CASE t = 0 /\ q = 0 /\ c # 0
    <2>1. f = e /\ d = c - 1 /\ p = 24 /\ s = 3
      BY <1>1, <1>2, <1>6, SMT DEF InParts
    <2> QED
      BY <1>1, <1>2, <1>3, <1>6, <2>1, SMT DEF InParts
  <1>7. CASE t = 0 /\ q = 0 /\ c = 0
    <2>1. f = e - 1 /\ d = 3 /\ p = 24 /\ s = 3
      BY <1>1, <1>2, <1>7, SMT DEF InParts
    <2> QED
      BY <1>1, <1>2, <1>3, <1>7, <2>1, SMT DEF InParts
  <1> QED
    BY <1>4, <1>5, <1>6, <1>7, SMT DEF InParts

(* The year of a day of an era, as the code computes it.                    *)
LEMMA YearOfDay ==
    ASSUME NEW c \in Int, NEW q \in Int, NEW t \in Int, NEW doy \in Int,
           0 <= c, c <= 3, 0 <= q, q <= 24, 0 <= t, t <= 3, 0 <= doy, doy <= 365,
           doy = 365 => t = 3 /\ (q # 24 \/ c = 3),
           NEW doe \in Int, doe = 36524 * c + 1461 * q + 365 * t + doy
    PROVE /\ 0 <= doe /\ doe <= 146096
          /\ (doe - doe \div 1460 + doe \div 36524 - doe \div 146096) \div 365
                = 100 * c + 4 * q + t
  <1>1. 0 <= doe /\ doe <= 146096
    BY SMT
  <1>2. PICK s \in Int : s = 24 * c + q + 365 * t + doy /\ 0 <= s /\ s < 2920
    BY SMT
  <1>3. PICK b \in {0, 1} : (s < 1460 => b = 0) /\ (s >= 1460 => b = 1)
    BY <1>2, SMT
  <1>4. doe = 1460 * (25 * c + q) + s
    BY <1>2, SMT
  <1>5. doe \div 1460 = 25 * c + q + b
    <2>1. CASE s < 1460
      BY <1>2, <1>3, <1>4, <2>1, SMT
    <2>2. CASE s >= 1460
      BY <1>2, <1>3, <1>4, <2>2, SMT
    <2> QED
      BY <1>2, <2>1, <2>2, SMT
  <1>6. doe \div 36524 - doe \div 146096 = c
    <2>1. CASE doe = 146096
      <3>1. c = 3
        BY <2>1, SMT
      <3> QED
        BY <2>1, <3>1, SMT
    <2>2. CASE doe < 146096
      <3>1. doe \div 146096 = 0
        BY <1>1, <2>2, SMT
      <3>2. 1461 * q + 365 * t + doy < 36524
        BY <2>2, SMT
      <3>3. doe \div 36524 = c
        BY <3>2, SMT
      <3> QED
        BY <3>1, <3>3, SMT
    <2> QED
      BY <1>1, <2>1, <2>2, SMT
  <1>7. 0 <= doy - b /\ doy - b <= 364
    BY <1>2, <1>3, SMT
  <1>8. doe - doe \div 1460 + doe \div 36524 - doe \div 146096
          = 365 * (100 * c + 4 * q + t) + (doy - b)
    BY <1>1, <1>3, <1>5, <1>6, SMT
  <1>9. (365 * (100 * c + 4 * q + t) + (doy - b)) \div 365 = 100 * c + 4 * q + t
    BY <1>3, <1>7, SMT
  <1> QED
    BY <1>1, <1>8, <1>9, SMT

(* The days before each month of a year that begins in March.               *)
LEMMA MonthsAre ==
    /\ MonthDays(3) = 0 /\ MonthDays(4) = 31 /\ MonthDays(5) = 61 /\ MonthDays(6) = 92
    /\ MonthDays(7) = 122 /\ MonthDays(8) = 153 /\ MonthDays(9) = 184 /\ MonthDays(10) = 214
    /\ MonthDays(11) = 245 /\ MonthDays(12) = 275 /\ MonthDays(1) = 306 /\ MonthDays(2) = 337
  BY SMT DEF MonthDays

(* A year begins on a whole day.                                            *)
LEMMA YearDaysInt == ASSUME NEW y \in Int PROVE YearDays(y) \in Int
  <1>1. PICK e \in Int, c \in Int, q \in Int, t \in Int : InParts(y, e, c, q, t)
    BY YearParts, Zenon
  <1> QED
    BY <1>1, SMT DEF InParts

(* The number of a day, in these terms.                                     *)
IsDayNumber(y, m, d) ==
    IT!DaysFromCivil(y, m, d) = YearDays(MarchYear(y, m)) + MonthDays(m) + d - 719469

(* days_from_civil counts the days before the year, before the month and in *)
(* it.                                                                      *)
LEMMA DaysAre ==
    ASSUME NEW y \in Int, NEW m \in 1..12, NEW d \in Int
    PROVE IsDayNumber(y, m, d)
  <1>1. PICK w \in Int : w = MarchYear(y, m)
    BY SMT DEF MarchYear
  <1>2. PICK e \in Int : e = IT!YearEra(w)
    <2>1. w \div 400 \in Int
      BY SMT
    <2> QED
      BY <2>1, EraOfYear, SMT
  <1>3. PICK yoe \in Int : yoe = w - e * 400
    BY SMT
  <1>4. YearDays(w) = EraDays(e, yoe)
    BY <1>2, <1>3, SMT DEF YearDays
  <1>5. IT!DaysFromCivil(y, m, d)
          = e * 146097 + (yoe * 365 + yoe \div 4 - yoe \div 100 + (MonthDays(m) + d - 1)) - 719468
    BY <1>1, <1>2, <1>3, SMT DEF IT!DaysFromCivil, MarchYear, MonthDays, IT!YearEra
  <1>6. MonthDays(m) \in Int
    BY SMT DEF MonthDays
  <1> QED
    BY <1>1, <1>4, <1>5, <1>6, SMT DEF EraDays, IsDayNumber

(* The first of the next month comes after the last day of this one.        *)
LEMMA MonthStep ==
    ASSUME NEW y \in Int, NEW m \in 1..12
    PROVE /\ m < 12 => IT!DaysFromCivil(y, m + 1, 1) = IT!DaysFromCivil(y, m, 1) + IT!DaysIn(y, m)
          /\ m = 12 => IT!DaysFromCivil(y + 1, 1, 1) = IT!DaysFromCivil(y, m, 1) + IT!DaysIn(y, m)
  <1>1. YearDays(y) \in Int /\ YearDays(y - 1) \in Int
    BY YearDaysInt, SMT
  <1>2. CASE m = 12
    <2>1. /\ IT!DaysFromCivil(y + 1, 1, 1)
                = YearDays(MarchYear(y + 1, 1)) + MonthDays(1) + 1 - 719469
          /\ IT!DaysFromCivil(y, 12, 1) = YearDays(MarchYear(y, 12)) + MonthDays(12) + 1 - 719469
      BY DaysAre, SMT DEF IsDayNumber
    <2>2. MarchYear(y + 1, 1) = y /\ MarchYear(y, 12) = y
      BY SMT DEF MarchYear
    <2> QED
      BY <1>1, <1>2, <2>1, <2>2, MonthsAre, SMT DEF IT!DaysIn
  <1>3. CASE m < 12
    <2>1. /\ IT!DaysFromCivil(y, m + 1, 1)
                = YearDays(MarchYear(y, m + 1)) + MonthDays(m + 1) + 1 - 719469
          /\ IT!DaysFromCivil(y, m, 1) = YearDays(MarchYear(y, m)) + MonthDays(m) + 1 - 719469
      BY <1>3, DaysAre, SMT DEF IsDayNumber
    <2>2. CASE m = 1
      <3>1. MarchYear(y, 2) = y - 1 /\ MarchYear(y, 1) = y - 1
        BY SMT DEF MarchYear
      <3> QED
        BY <1>1, <2>1, <2>2, <3>1, MonthsAre, SMT DEF IT!DaysIn
    <2>3. CASE m = 2
      <3>1. MarchYear(y, 3) = y /\ MarchYear(y, 2) = y - 1
        BY SMT DEF MarchYear
      <3> QED
        BY <1>1, <2>1, <2>3, <3>1, MonthsAre, YearStep, SMT DEF IT!DaysIn
    <2>4. CASE m \in 3..11
      <3>1. MarchYear(y, m + 1) = y /\ MarchYear(y, m) = y
        BY <2>4, SMT DEF MarchYear
      <3>2. MonthDays(m + 1) = MonthDays(m) + IT!DaysIn(y, m)
        BY <2>4, MonthsAre, SMT DEF IT!DaysIn
      <3>3. MonthDays(m) \in Int /\ IT!DaysIn(y, m) \in Int
        BY <2>4, SMT DEF IT!DaysIn, MonthDays
      <3> QED
        BY <1>1, <1>3, <2>1, <3>1, <3>2, <3>3, SMT
    <2> QED
      BY <1>3, <2>2, <2>3, <2>4, SMT
  <1> QED
    BY <1>2, <1>3, SMT

(* The month has this day.                                                  *)
IsDate(y, m, d) == m \in 1..12 /\ d \in Int /\ 1 <= d /\ d <= IT!DaysIn(y, m)

(* What civil_from_days uses of the day of the year.                        *)
IsDayOfYear(y, m, doy) ==
    /\ 0 <= doy /\ doy <= 365 /\ (doy = 365 => m = 2 /\ IT!Leap(y))
    /\ (5 * doy + 2) \div 153 = (m + 9) % 12

(* The day of the year gives the month back, by the fraction 5/153 of       *)
(* civil_from_days.                                                         *)
LEMMA DayOfYear ==
    ASSUME NEW y \in Int, NEW m, NEW d, IsDate(y, m, d)
    PROVE IsDayOfYear(y, m, MonthDays(m) + d - 1)
  <1> USE DEF IsDate, IsDayOfYear
  <1>1. CASE m = 2
    BY <1>1, MonthsAre, SMT DEF IT!DaysIn
  <1>2. CASE m = 1
    BY <1>2, MonthsAre, SMT DEF IT!DaysIn
  <1>3. CASE m \in 3..7
    BY <1>3, MonthsAre, SMT DEF IT!DaysIn
  <1>4. CASE m \in 8..12
    BY <1>4, MonthsAre, SMT DEF IT!DaysIn
  <1> QED
    BY <1>1, <1>2, <1>3, <1>4, SMT

(* For every date of every year: civil_from_days gives back the date        *)
(* days_from_civil was given.                                               *)
LEMMA BackToDate ==
    ASSUME NEW y \in Int, NEW m, NEW d, IsDate(y, m, d)
    PROVE IT!CivilFromDays(IT!DaysFromCivil(y, m, d)) = [y |-> y, m |-> m, d |-> d]
  <1>0. m \in 1..12 /\ d \in Int
    BY SMT DEF IsDate
  <1>1. PICK w \in Int : w = MarchYear(y, m)
    BY <1>0, SMT DEF MarchYear
  <1>2. PICK e \in Int, c \in Int, q \in Int, t \in Int : InParts(w, e, c, q, t)
    BY YearParts, Zenon
  <1>3. PICK doy \in Int : doy = MonthDays(m) + d - 1
    <2>1. MonthDays(m) \in Int
      BY <1>0, SMT DEF MonthDays
    <2> QED
      BY <1>0, <2>1, SMT
  <1>4. /\ 0 <= doy /\ doy <= 365 /\ (doy = 365 => m = 2 /\ IT!Leap(y))
        /\ (5 * doy + 2) \div 153 = (m + 9) % 12
    <2>1. IsDayOfYear(y, m, doy)
      BY <1>3, DayOfYear, SMT
    <2> QED
      BY <2>1, SMT DEF IsDayOfYear
  <1>5. doy = 365 => t = 3 /\ (q # 24 \/ c = 3)
    <2>1. SUFFICES ASSUME doy = 365 PROVE t = 3 /\ (q # 24 \/ c = 3)
      BY SMT
    <2>2. y = 400 * e + 100 * c + 4 * q + t + 1
      BY <1>1, <1>2, <1>4, <2>1, SMT DEF InParts, MarchYear
    <2>3. IT!Leap(y)
      BY <1>4, <2>1, SMT
    <2>4. t = 3
      BY <1>2, <2>2, <2>3, SMT DEF InParts, IT!Leap
    <2>5. ASSUME q = 24 PROVE c = 3
      BY <1>2, <2>2, <2>3, <2>4, <2>5, SMT DEF InParts, IT!Leap
    <2> QED
      BY <2>4, <2>5, SMT
  <1>6. PICK doe \in Int : doe = 36524 * c + 1461 * q + 365 * t + doy
    BY SMT
  <1>7. PICK yoe \in Int : yoe = 100 * c + 4 * q + t
    BY SMT
  <1>8. /\ 0 <= doe /\ doe <= 146096
        /\ IT!YearOfEra(doe) = yoe
    <2>1. 0 <= c /\ c <= 3 /\ 0 <= q /\ q <= 24 /\ 0 <= t /\ t <= 3
      BY <1>2, SMT DEF InParts
    <2> QED
      BY <1>4, <1>5, <1>6, <1>7, <2>1, YearOfDay, SMT DEF IT!YearOfEra
  <1>9. doe - (365 * yoe + yoe \div 4 - yoe \div 100) = doy
    <2>1. yoe \div 4 = 25 * c + q /\ yoe \div 100 = c
      BY <1>2, <1>7, SMT DEF InParts
    <2> QED
      BY <1>6, <1>7, <2>1, SMT
  <1>10. PICK n \in Int : n = IT!DaysFromCivil(y, m, d) /\ n = e * 146097 + doe - 719468
    <2>5. IT!DaysFromCivil(y, m, d)
            = YearDays(MarchYear(y, m)) + MonthDays(m) + d - 719469
      BY <1>0, DaysAre, SMT DEF IsDayNumber
    <2>1. IT!DaysFromCivil(y, m, d) = YearDays(w) + MonthDays(m) + d - 719469
      BY <1>1, <2>5, SMT
    <2>2. MonthDays(m) \in Int
      BY <1>0, SMT DEF MonthDays
    <2>3. YearDays(w) = 146097 * e + 36524 * c + 1461 * q + 365 * t
      BY <1>2, SMT DEF InParts
    <2>4. IT!DaysFromCivil(y, m, d) = e * 146097 + doe - 719468
      BY <1>0, <1>3, <1>6, <2>1, <2>2, <2>3, SMT
    <2> QED
      BY <2>4, SMT
  <1>11. PICK z \in Int : z = n + 719468 /\ z = e * 146097 + doe
    BY <1>10, SMT
  <1>12. IT!DayEra(z) = e
    <2>1. IT!DayEra(InEra(e, doe)) = e
      <3>1. 0 <= doe /\ doe <= 146096
        BY <1>8, SMT
      <3> QED
        BY <3>1, EraOfDay, SMT
    <2> QED
      BY <1>11, <2>1, SMT DEF InEra
  <1>13. z - e * 146097 = doe
    BY <1>11, SMT
  <1>14. IT!CivilFromDays(n) = IT!DateInYear(yoe + e * 400, doy)
    <2>1. IT!DayEra(n + 719468) = e
      BY <1>11, <1>12, SMT
    <2>2. (n + 719468) - IT!DayEra(n + 719468) * 146097 = doe
      BY <1>11, <1>13, <2>1, SMT
    <2>3. IT!YearOfEra((n + 719468) - IT!DayEra(n + 719468) * 146097) = yoe
      BY <1>8, <2>2, SMT
    <2> QED
      BY <1>9, <2>1, <2>2, <2>3, SMT DEF IT!CivilFromDays
  <1>15. PICK mp \in Int : mp = (m + 9) % 12 /\ mp = (5 * doy + 2) \div 153
    BY <1>0, <1>4, SMT
  <1>16. (IF mp < 10 THEN mp + 3 ELSE mp - 9) = m
    BY <1>0, <1>15, SMT
  <1>17. doy - (153 * mp + 2) \div 5 + 1 = d
    BY <1>0, <1>3, <1>15, SMT DEF MonthDays
  <1>18. (IF m <= 2 THEN yoe + e * 400 + 1 ELSE yoe + e * 400) = y
    BY <1>0, <1>1, <1>2, <1>7, SMT DEF InParts, MarchYear
  <1>19. IT!DateInYear(yoe + e * 400, doy) = [y |-> y, m |-> m, d |-> d]
    BY <1>0, <1>15, <1>16, <1>17, <1>18, SMT DEF IT!DateInYear
  <1> QED
    BY <1>10, <1>14, <1>19, SMT

(* The number of a day, from that of the first of its month.                *)
FromFirst(y, m, d) ==
    /\ IT!DaysFromCivil(y, m, 1) \in Int
    /\ IT!DaysFromCivil(y, m, d) = IT!DaysFromCivil(y, m, 1) + d - 1

(* Within a month, day numbers go by one.                                   *)
LEMMA DayLinear ==
    ASSUME NEW y \in Int, NEW m \in 1..12, NEW d \in Int
    PROVE FromFirst(y, m, d)
  <1>1. PICK w \in Int : w = MarchYear(y, m)
    BY SMT DEF MarchYear
  <1>2. YearDays(w) \in Int /\ MonthDays(m) \in Int
    <2>1. MonthDays(m) \in Int
      BY SMT DEF MonthDays
    <2> QED
      BY <2>1, YearDaysInt, SMT
  <1>3. /\ IT!DaysFromCivil(y, m, d) = YearDays(MarchYear(y, m)) + MonthDays(m) + d - 719469
        /\ IT!DaysFromCivil(y, m, 1) = YearDays(MarchYear(y, m)) + MonthDays(m) + 1 - 719469
    <2>1. 1 \in Int
      BY SMT
    <2>2. IsDayNumber(y, m, d) /\ IsDayNumber(y, m, 1)
      BY <2>1, DaysAre, Zenon
    <2> QED
      BY <2>2, SMT DEF IsDayNumber
  <1> QED
    BY <1>1, <1>2, <1>3, SMT DEF FromFirst

(* A month has 28 to 31 days.                                               *)
LEMMA MonthLength == ASSUME NEW y \in Int, NEW m \in 1..12 PROVE IT!DaysIn(y, m) \in 28..31
  BY SMT DEF IT!DaysIn

(* A day before the first of a month, or after its last, is a date of       *)
(* another month.                                                           *)
LEMMA OtherMonth ==
    ASSUME NEW y \in Int, NEW m \in 1..12, NEW d \in 0..32, ~IsDate(y, m, d)
    PROVE \E yy \in Int, mm \in 1..12, dd \in Int :
            IsDate(yy, mm, dd) /\ mm # m /\ IT!DaysFromCivil(yy, mm, dd) = IT!DaysFromCivil(y, m, d)
  <1>1. d = 0 \/ (d \in Int /\ IT!DaysIn(y, m) < d)
    BY MonthLength, SMT DEF IsDate
  <1>2. CASE d = 0
    <2>1. \E yy \in Int, mm \in 1..12 :
            mm # m /\ IT!DaysFromCivil(y, m, 1) = IT!DaysFromCivil(yy, mm, 1) + IT!DaysIn(yy, mm)
      <3>1. CASE m = 1
        <4>1. y - 1 \in Int /\ 12 \in 1..12 /\ (y - 1) + 1 = y
          BY SMT
        <4>2. IT!DaysFromCivil(y, 1, 1) = IT!DaysFromCivil(y - 1, 12, 1) + IT!DaysIn(y - 1, 12)
          BY <4>1, MonthStep, SMT
        <4> QED
          BY <3>1, <4>1, <4>2, SMT
      <3>2. CASE m # 1
        <4>1. m - 1 \in 1..12 /\ m - 1 < 12 /\ (m - 1) + 1 = m /\ m - 1 # m
          BY <3>2, SMT
        <4>2. IT!DaysFromCivil(y, m, 1) = IT!DaysFromCivil(y, m - 1, 1) + IT!DaysIn(y, m - 1)
          BY <4>1, MonthStep, SMT
        <4> QED
          BY <4>1, <4>2, SMT
      <3> QED
        BY <3>1, <3>2, SMT
    <2>2. PICK yy \in Int, mm \in 1..12 :
            mm # m /\ IT!DaysFromCivil(y, m, 1) = IT!DaysFromCivil(yy, mm, 1) + IT!DaysIn(yy, mm)
      BY <2>1, Zenon
    <2>3. PICK dd \in Int : dd = IT!DaysIn(yy, mm) /\ dd >= 1
      BY MonthLength, SMT
    <2>4. IsDate(yy, mm, dd)
      BY <2>3, SMT DEF IsDate
    <2>5. IT!DaysFromCivil(yy, mm, dd) = IT!DaysFromCivil(y, m, 1) - 1
      <3>1. FromFirst(yy, mm, dd)
        BY DayLinear, Zenon
      <3> QED
        BY <2>2, <2>3, <3>1, SMT DEF FromFirst
    <2>6. IT!DaysFromCivil(y, m, 0) = IT!DaysFromCivil(y, m, 1) - 1
      <3>1. 0 \in Int
        BY SMT
      <3>2. FromFirst(y, m, 0)
        BY <3>1, DayLinear, Zenon
      <3> QED
        BY <3>2, SMT DEF FromFirst
    <2>7. IT!DaysFromCivil(yy, mm, dd) = IT!DaysFromCivil(y, m, d)
      BY <1>2, <2>5, <2>6, Zenon
    <2> QED
      BY <2>2, <2>4, <2>7, Zenon
  <1>3. CASE d \in Int /\ IT!DaysIn(y, m) < d
    <2>1. \E yy \in Int, mm \in 1..12 :
            mm # m /\ IT!DaysFromCivil(yy, mm, 1) = IT!DaysFromCivil(y, m, 1) + IT!DaysIn(y, m)
      <3>1. CASE m = 12
        <4>1. y + 1 \in Int /\ 1 \in 1..12
          BY SMT
        <4> QED
          BY <3>1, <4>1, MonthStep, SMT
      <3>2. CASE m # 12
        <4>1. m + 1 \in 1..12 /\ m < 12 /\ m + 1 # m
          BY <3>2, SMT
        <4> QED
          BY <4>1, MonthStep, SMT
      <3> QED
        BY <3>1, <3>2, SMT
    <2>2. PICK yy \in Int, mm \in 1..12 :
            mm # m /\ IT!DaysFromCivil(yy, mm, 1) = IT!DaysFromCivil(y, m, 1) + IT!DaysIn(y, m)
      BY <2>1, Zenon
    <2>3. PICK dd \in Int : dd = d - IT!DaysIn(y, m) /\ dd >= 1 /\ dd <= 4
      BY <1>3, MonthLength, SMT
    <2>4. IsDate(yy, mm, dd)
      BY <2>3, MonthLength, SMT DEF IsDate
    <2>5. IT!DaysFromCivil(yy, mm, dd) = IT!DaysFromCivil(yy, mm, 1) + dd - 1
      <3>1. FromFirst(yy, mm, dd)
        BY DayLinear, Zenon
      <3> QED
        BY <3>1, SMT DEF FromFirst
    <2>6. /\ IT!DaysFromCivil(y, m, d) = IT!DaysFromCivil(y, m, 1) + d - 1
          /\ IT!DaysFromCivil(y, m, 1) \in Int /\ IT!DaysIn(y, m) \in Int
      <3>1. FromFirst(y, m, d)
        BY <1>3, DayLinear, Zenon
      <3> QED
        BY <3>1, MonthLength, SMT DEF FromFirst
    <2>7. IT!DaysFromCivil(yy, mm, dd) = IT!DaysFromCivil(y, m, d)
      BY <1>3, <2>2, <2>3, <2>5, <2>6, SMT
    <2> QED
      BY <2>2, <2>4, <2>7, Zenon
  <1> QED
    BY <1>1, <1>2, <1>3, Zenon

(* For every month of every year: of the days that can be written for it    *)
(* parse_instant takes those it has.                                        *)
LEMMA ParsesDates ==
    ASSUME NEW y \in Int, NEW m \in 1..12, NEW d \in 0..32
    PROVE IT!ParsesAsDate(y, m, d) <=> d \in 1..IT!DaysIn(y, m)
  <1>1. d \in 1..IT!DaysIn(y, m) <=> IsDate(y, m, d)
    BY MonthLength, SMT DEF IsDate
  <1>2. CASE IsDate(y, m, d)
    BY <1>1, <1>2, BackToDate, Zenon DEF IT!ParsesAsDate
  <1>3. CASE ~IsDate(y, m, d)
    <2>1. PICK yy \in Int, mm \in 1..12, dd \in Int :
            IsDate(yy, mm, dd) /\ mm # m /\ IT!DaysFromCivil(yy, mm, dd) = IT!DaysFromCivil(y, m, d)
      BY <1>3, OtherMonth, Zenon
    <2>2. IT!CivilFromDays(IT!DaysFromCivil(y, m, d)) = [y |-> yy, m |-> mm, d |-> dd]
      BY <2>1, BackToDate, Zenon
    <2>3. [y |-> yy, m |-> mm, d |-> dd] # [y |-> y, m |-> m, d |-> d]
      BY <2>1, SMT
    <2> QED
      BY <1>1, <1>3, <2>2, <2>3, Zenon DEF IT!ParsesAsDate
  <1> QED
    BY <1>2, <1>3, Zenon

(* The date is one, and the day is its number.                              *)
OnCalendar ==
    /\ date = [y |-> date.y, m |-> date.m, d |-> date.d]
    /\ date.y \in Int /\ IsDate(date.y, date.m, date.d)
    /\ day = IT!DaysFromCivil(date.y, date.m, date.d)

(* The next day of the calendar has the next number.                        *)
LEMMA CalendarTurns == OnCalendar /\ [IT!Next]_IT!vars => OnCalendar'
  <1> SUFFICES ASSUME OnCalendar, [IT!Next]_IT!vars PROVE OnCalendar'
    OBVIOUS
  <1>1. PICK y \in Int, m \in 1..12, d \in Int :
          /\ date = [y |-> y, m |-> m, d |-> d] /\ date.y = y /\ date.m = m /\ date.d = d
          /\ 1 <= d /\ d <= IT!DaysIn(y, m) /\ day = IT!DaysFromCivil(y, m, d)
    BY Zenon DEF OnCalendar, IsDate
  <1>2. ASSUME NEW yy \in Int, NEW mm \in 1..12, NEW dd \in Int,
               date' = [y |-> yy, m |-> mm, d |-> dd], 1 <= dd, dd <= IT!DaysIn(yy, mm),
               day' = IT!DaysFromCivil(yy, mm, dd)
        PROVE OnCalendar'
    <2>1. date'.y = yy /\ date'.m = mm /\ date'.d = dd
      BY <1>2, SMT
    <2> QED
      BY <1>2, <2>1, Zenon DEF OnCalendar, IsDate
  <1>3. /\ IT!DaysFromCivil(y, m, 1) \in Int
        /\ IT!DaysFromCivil(y, m, d) = IT!DaysFromCivil(y, m, 1) + d - 1
        /\ IT!DaysFromCivil(y, m, d + 1) = IT!DaysFromCivil(y, m, 1) + (d + 1) - 1
        /\ IT!DaysIn(y, m) \in Int
    <2>1. d + 1 \in Int
      BY SMT
    <2>2. FromFirst(y, m, d) /\ FromFirst(y, m, d + 1)
      BY <2>1, DayLinear, Zenon
    <2> QED
      BY <2>2, MonthLength, SMT DEF FromFirst
  <1>4. CASE IT!NextDay
    <2>1. /\ date' = [y |-> y, m |-> m, d |-> d + 1] /\ d < IT!DaysIn(y, m) /\ day' = day + 1
      BY <1>1, <1>4, SMT DEF IT!NextDay
    <2>2. d + 1 \in Int /\ 1 <= d + 1 /\ d + 1 <= IT!DaysIn(y, m)
      BY <1>1, <1>3, <2>1, SMT
    <2>3. day' = IT!DaysFromCivil(y, m, d + 1)
      BY <1>1, <1>3, <2>1, SMT
    <2> QED
      BY <1>2, <2>1, <2>2, <2>3, Zenon
  <1>5. CASE IT!NextMonth
    <2>1. /\ date' = [y |-> y, m |-> m + 1, d |-> 1] /\ d = IT!DaysIn(y, m) /\ m < 12
          /\ day' = day + 1
      BY <1>1, <1>5, Zenon DEF IT!NextMonth
    <2>2. m + 1 \in 1..12 /\ 1 \in Int /\ 1 <= 1 /\ 1 <= IT!DaysIn(y, m + 1)
      BY <2>1, MonthLength, SMT
    <2>3. day' = IT!DaysFromCivil(y, m + 1, 1)
      BY <1>1, <1>3, <2>1, MonthStep, SMT
    <2> QED
      BY <1>2, <2>1, <2>2, <2>3, Zenon
  <1>6. CASE IT!NextYear
    <2>1. /\ date' = [y |-> y + 1, m |-> 1, d |-> 1] /\ d = 31 /\ m = 12 /\ day' = day + 1
      <3>1. /\ date' = [y |-> date.y + 1, m |-> 1, d |-> 1] /\ date.d = 31 /\ date.m = 12
            /\ day' = day + 1
        BY <1>6, Zenon DEF IT!NextYear
      <3> QED
        BY <1>1, <3>1, Zenon
    <2>2. y + 1 \in Int /\ 1 \in 1..12 /\ 1 \in Int /\ 1 <= 1 /\ 1 <= IT!DaysIn(y + 1, 1)
      BY MonthLength, SMT
    <2>3. day' = IT!DaysFromCivil(y + 1, 1, 1)
      <3>1. IT!DaysIn(y, m) = 31
        BY <2>1, SMT DEF IT!DaysIn
      <3> QED
        BY <1>1, <1>3, <2>1, <3>1, MonthStep, SMT
    <2> QED
      BY <1>2, <2>1, <2>2, <2>3, Zenon
  <1>7. CASE UNCHANGED IT!vars
    BY <1>7, Zenon DEF IT!vars, OnCalendar
  <1> QED
    BY <1>4, <1>5, <1>6, <1>7, Zenon DEF IT!Next

(* For every year, before and after 1970 and 0: both conversions are the    *)
(* calendar's on every day, and parse_instant takes the days there are      *)
(* (CalendarAgrees; saml.rs days_from_civil, civil_from_days,               *)
(* parse_instant).                                                          *)
THEOREM ConversionsAreTheCalendars == IT!Spec => []CalendarAgrees
  <1>1. IT!Init => OnCalendar
    <2> SUFFICES ASSUME IT!Init PROVE OnCalendar
      OBVIOUS
    <2>1. PICK y \in FirstYears :
            day = IT!DaysFromCivil(y, 1, 1) /\ date = [y |-> y, m |-> 1, d |-> 1]
      BY Zenon DEF IT!Init
    <2>2. y \in Int /\ date.y = y /\ date.m = 1 /\ date.d = 1
      BY <2>1, InstantAssumption, SMT
    <2>3. IsDate(y, 1, 1)
      BY <2>2, MonthLength, SMT DEF IsDate
    <2> QED
      BY <2>1, <2>2, <2>3, Zenon DEF OnCalendar
  <1>2. OnCalendar => CalendarAgrees
    <2> SUFFICES ASSUME OnCalendar PROVE IT!CalendarAgrees
      BY DEF CalendarAgrees
    <2>1. IT!CivilFromDays(day) = date
      BY BackToDate, Zenon DEF OnCalendar
    <2>2. IT!DaysFromCivil(date.y, date.m, date.d) = day
      BY Zenon DEF OnCalendar
    <2>3. \A d \in 0..32 : IT!ParsesAsDate(date.y, date.m, d) <=> d \in 1..IT!DaysIn(date.y, date.m)
      BY ParsesDates, Zenon DEF OnCalendar, IsDate
    <2> QED
      BY <2>1, <2>2, <2>3, Zenon DEF IT!CalendarAgrees
  <1> QED
    BY <1>1, <1>2, CalendarTurns, PTL DEF IT!Spec
==============================================================================
