------------------------------- MODULE ClipProofs -------------------------------
(****************************************************************************)
(* Five theorems about module Clip, for any number of sessions, any file    *)
(* lists, limits, range size and staging budget: only clean files are       *)
(* offered, what is served is what was scanned, the receiver is not left    *)
(* with an old list, answers go to who asked, and the staging budget is     *)
(* what the stores hold.                                                    *)
(*                                                                          *)
(* The invariant is about each lane by itself.  PhaseOK says what a fetch   *)
(* at each step has: the newest list, the units it asked for in order, the  *)
(* files before the current one whole, and verdicts that are on record.     *)
(* QueueOK says that the proxy's notes agree with the endpoints' queues.    *)
(****************************************************************************)
EXTENDS Clip, TLAPS, FiniteSetTheorems, WellFoundedInduction

------------------------------------------------------------------------------
(* Numbers and sequences.                                                   *)

(* What the operators on sequences give.                                    *)
LEMMA SeqAt == ASSUME NEW X, NEW s \in Seq(X), NEW i \in 1..Len(s) PROVE s[i] \in X
  OBVIOUS

LEMMA SeqSame ==
    ASSUME NEW X, NEW s \in Seq(X), NEW t \in Seq(X), Len(t) = Len(s), \A i \in 1..Len(s) : t[i] = s[i]
    PROVE  s = t
  OBVIOUS

LEMMA SeqJoined ==
    ASSUME NEW X, NEW s \in Seq(X), NEW t \in Seq(X)
    PROVE  /\ s \o t \in Seq(X) /\ Len(s \o t) = Len(s) + Len(t)
           /\ \A i \in 1..(Len(s) + Len(t)) :
                 (s \o t)[i] = IF i <= Len(s) THEN s[i] ELSE t[i - Len(s)]
  OBVIOUS

LEMMA SeqPart ==
    ASSUME NEW X, NEW s, NEW m \in Int, NEW n \in Int, \A i \in m..n : s[i] \in X
    PROVE  /\ SubSeq(s, m, n) \in Seq(X)
           /\ Len(SubSeq(s, m, n)) = (IF m <= n THEN n - m + 1 ELSE 0)
           /\ \A i \in 1..(n - m + 1) : SubSeq(s, m, n)[i] = s[m + i - 1]
  OBVIOUS

LEMMA SeqTail ==
    ASSUME NEW X, NEW s \in Seq(X), s # <<>>
    PROVE  /\ Head(s) \in X /\ Tail(s) \in Seq(X) /\ Len(Tail(s)) = Len(s) - 1
           /\ \A i \in 1..Len(Tail(s)) : Tail(s)[i] = s[i + 1]
  OBVIOUS

LEMMA SeqLonger ==
    ASSUME NEW X, NEW s \in Seq(X), NEW x \in X
    PROVE  /\ Append(s, x) \in Seq(X) /\ Append(s, x) # <<>> /\ Len(Append(s, x)) = Len(s) + 1
           /\ \A i \in 1..Len(s) : Append(s, x)[i] = s[i]
           /\ Append(s, x)[Len(s) + 1] = x
  OBVIOUS

LessThan == {ss \in Nat \X Nat : ss[1] < ss[2]}

(* A set of naturals has a least one.                                       *)
LEMMA Least == ASSUME NEW S, S \subseteq Nat, S # {} PROVE \E x \in S : \A y \in S : x <= y
<1>1. OpToRel(<, Nat) = LessThan
  BY Zenon DEF OpToRel, LessThan
<1>2. IsWellFoundedOn(LessThan, Nat)
  BY <1>1, NatLessThanWellFounded, Zenon
<1>3. PICK x \in S : \A y \in S : ~ (<<y, x>> \in LessThan)
  BY <1>2, WFMin, Zenon
<1>4. ASSUME NEW y \in S PROVE x <= y
  <2>1. <<y, x>> \in Nat \X Nat
    OBVIOUS
  <2>2. ~(y < x)
    BY <1>3, <2>1 DEF LessThan
  <2> QED BY <2>2
<1> QED BY <1>4

(* The units of n bytes of file i, asked for under generation g.            *)
Units(g, i, n) == [k \in 1..n |-> <<g, i, k - 1>>]

(* The m units after the first n.                                           *)
UnitsAfter(g, i, n, m) == [k \in 1..m |-> <<g, i, n + k - 1>>]

(* The next units continue the first.                                       *)
LEMMA UnitsContinue ==
    ASSUME NEW g, NEW i, NEW n \in Nat, NEW m \in Nat
    PROVE  Units(g, i, n) \o UnitsAfter(g, i, n, m) = Units(g, i, n + m)
<1> DEFINE S == {g} \X {i} \X Int
           s == Units(g, i, n)
           t == [k \in 1..m |-> <<g, i, n + k - 1>>]
           u == Units(g, i, n + m)
<1>1. s \in Seq(S) /\ Len(s) = n
  BY DEF Units
<1>2. t \in Seq(S) /\ Len(t) = m
  OBVIOUS
<1>3. u \in Seq(S) /\ Len(u) = n + m
  BY DEF Units
<1>4. s \o t \in Seq(S) /\ Len(s \o t) = n + m
  BY <1>1, <1>2, SeqJoined
<1>5. ASSUME NEW k \in 1..(n + m) PROVE (s \o t)[k] = u[k]
  <2>1. CASE k <= n
    BY <1>1, <1>2, <2>1, SeqJoined DEF Units
  <2>2. CASE k > n
    <3>1. k - n \in 1..m /\ n + (k - n) - 1 = k - 1
      BY <2>2
    <3>2. t[k - n] = <<g, i, k - 1>>
      BY <3>1
    <3>3. u[k] = <<g, i, k - 1>>
      BY DEF Units
    <3> HIDE DEF s, t, S
    <3>4. (s \o t)[k] = t[k - n]
      BY <1>1, <1>2, <2>2, SeqJoined
    <3> QED BY <3>2, <3>3, <3>4, Zenon
  <2>3. k <= n \/ k > n
    OBVIOUS
  <2> QED BY <2>1, <2>2, <2>3, Zenon
<1>6. s \o t = u
  BY <1>3, <1>4, <1>5, SeqSame, Zenon
<1> QED BY <1>6, Zenon DEF UnitsAfter

(* A part of the units, as contents_request cuts it.                        *)
LEMMA UnitsPart ==
    ASSUME NEW g, NEW i, NEW size \in Nat, NEW at \in Nat, NEW e \in Nat, e <= size
    PROVE  SubSeq(Units(g, i, size), at + 1, e) =
               UnitsAfter(g, i, at, IF e < at THEN 0 ELSE e - at)
<1> DEFINE S == {g} \X {i} \X Int
           s == Units(g, i, size)
<1>1. s \in Seq(S) /\ Len(s) = size /\ \A k \in 1..size : s[k] = <<g, i, k - 1>>
  BY DEF Units
<1> HIDE DEF s
<1>2. CASE e < at + 1
  <2>1. SubSeq(s, at + 1, e) = <<>>
    BY <1>2
  <2>2. (IF e < at THEN 0 ELSE e - at) = 0
    BY <1>2
  <2> QED BY <2>1, <2>2 DEF s, UnitsAfter
<1>3. CASE ~(e < at + 1)
  <2> DEFINE t == [k \in 1..(e - at) |-> <<g, i, at + k - 1>>]
  <2>1. e - at \in Nat /\ (IF e < at THEN 0 ELSE e - at) = e - at
    BY <1>3
  <2>2. t \in Seq(S) /\ Len(t) = e - at /\ \A k \in 1..(e - at) : t[k] = <<g, i, at + k - 1>>
    BY <2>1
  <2>3. \A k \in (at + 1)..e : s[k] \in S
    BY <1>1, <2>1
  <2> HIDE DEF t, S
  <2>4. /\ SubSeq(s, at + 1, e) \in Seq(S) /\ Len(SubSeq(s, at + 1, e)) = e - at
        /\ \A k \in 1..(e - at) : SubSeq(s, at + 1, e)[k] = s[at + k]
    <3>1. e - (at + 1) + 1 = e - at /\ at + 1 <= e
      BY <1>3
    <3>2. \A k \in Int : at + 1 + k - 1 = at + k
      OBVIOUS
    <3> QED BY <2>3, <3>1, <3>2, SeqPart
  <2>5. \A k \in 1..(e - at) : s[at + k] = <<g, i, at + k - 1>>
    BY <1>1, <1>3
  <2>6. SubSeq(s, at + 1, e) = t
    BY <2>2, <2>4, <2>5, SeqSame, Zenon
  <2> QED BY <2>1, <2>6 DEF s, t, UnitsAfter
<1> QED BY <1>2, <1>3

------------------------------------------------------------------------------
(* The invariant.                                                           *)

IsPhase(p) ==
    DOMAIN p = {"step", "gen", "list", "files", "data", "index", "verdicts", "reserved"}

(* What is staged of the files is what was asked for, and no more than each *)
(* file's listed size.                                                      *)
DataOK(p) ==
    /\ p.files \in Seq(File)
    /\ DOMAIN p.data = DOMAIN p.files
    /\ \A i \in DOMAIN p.files :
          /\ Len(p.data[i]) \in Nat
          /\ Len(p.data[i]) <= p.files[i].size
          /\ p.data[i] = Units(p.gen, i, Len(p.data[i]))

Whole(p, n) == \A i \in 1..n : Len(p.data[i]) = p.files[i].size

Job(l, p, i) == [lane |-> l, gen |-> p.gen, index |-> i]

ContentsOK(p) == DataOK(p) /\ p.index \in 1..Len(p.files) /\ Whole(p, p.index - 1)

ScanningOK(l, p, scanned) ==
    /\ DataOK(p) /\ Whole(p, Len(p.files))
    /\ DOMAIN p.verdicts = DOMAIN p.files
    /\ \A i \in DOMAIN p.files : p.verdicts[i] = "Clean" => Job(l, p, i) \in scanned

OfferedOK(l, p, scanned) ==
    /\ DataOK(p) /\ Whole(p, Len(p.files))
    /\ \A i \in DOMAIN p.files : Job(l, p, i) \in scanned

(* What holds of a lane's phase, with the sender's last list, the list the  *)
(* receiver has seen, and the files scanned clean.                          *)
PhaseOK(l, p, last, seen, scanned) ==
    /\ IsPhase(p)
    /\ p.step \in {"Idle", "Descriptor", "Contents", "Scanning", "Offered"}
    /\ p.step = "Idle" => seen \in {0, last}
    /\ p.step # "Idle" => p.list = last
    /\ p.step = "Contents" => ContentsOK(p)
    /\ p.step = "Scanning" => ScanningOK(l, p, scanned)
    /\ p.step = "Offered" => OfferedOK(l, p, scanned) /\ seen = last

PhasesOK ==
    /\ phase = [l \in Lane |-> phase[l]]
    /\ newest = [l \in Lane |-> newest[l]]
    /\ shown = [l \in Lane |-> shown[l]]
    /\ \A l \in Lane : PhaseOK(l, phase[l], newest[l], shown[l], clean)

JobsOK ==
    \A j \in jobs : j.lane \in Lane /\ j = [lane |-> j.lane, gen |-> j.gen, index |-> j.index]

Owners(requests) == [i \in DOMAIN requests |-> requests[i].owner]
Receivers(list) == Cardinality({i \in DOMAIN list : list[i] = "Receiver"})

(* What holds of a lane's queues: the proxy's notes and the endpoints'.     *)
QueueOK(dataOwed, requests, listsOwed, list, waiting) ==
    /\ requests \in Seq([owner : Owner, format : Format])
    /\ list \in Seq(Owner)
    /\ dataOwed = Owners(requests)
    /\ listsOwed = list
    /\ waiting = Receivers(list)

QueuesOK ==
    /\ data_owed = [l \in Lane |-> data_owed[l]]
    /\ asked = [l \in Lane |-> asked[l]]
    /\ lists_owed = [l \in Lane |-> lists_owed[l]]
    /\ listed = [l \in Lane |-> listed[l]]
    /\ unanswered = [l \in Lane |-> unanswered[l]]
    /\ \A l \in Lane : QueueOK(data_owed[l], asked[l], lists_owed[l], listed[l], unanswered[l])

Inv == PhasesOK /\ JobsOK /\ QueuesOK

------------------------------------------------------------------------------
(* Queues.                                                                  *)

(* Each request has its owner.                                              *)
LEMMA OwnersSeq ==
    ASSUME NEW requests \in Seq([owner : Owner, format : Format])
    PROVE  /\ Owners(requests) \in Seq(Owner) /\ Len(Owners(requests)) = Len(requests)
           /\ \A i \in 1..Len(requests) : Owners(requests)[i] = requests[i].owner
<1> DEFINE n == Len(requests)
<1>1. n \in Nat /\ DOMAIN requests = 1..n
  OBVIOUS
<1>2. \A i \in 1..n : requests[i] \in [owner : Owner, format : Format]
  BY SeqAt, Zenon
<1>3. \A i \in 1..n : requests[i].owner \in Owner
  BY <1>2
<1>4. Owners(requests) = [i \in 1..n |-> requests[i].owner]
  BY <1>1 DEF Owners
<1> HIDE DEF n
<1> QED BY <1>1, <1>3, <1>4 DEF n

(* A request that is added is owed to its owner.                            *)
LEMMA OwnersAppend ==
    ASSUME NEW requests \in Seq([owner : Owner, format : Format]),
           NEW owner \in Owner, NEW format \in Format
    PROVE  LET more == Append(requests, [owner |-> owner, format |-> format])
           IN  /\ more \in Seq([owner : Owner, format : Format])
               /\ Owners(more) = Append(Owners(requests), owner)
<1> DEFINE R == [owner : Owner, format : Format]
           r == [owner |-> owner, format |-> format]
           more == Append(requests, r)
<1>1. r \in R /\ r.owner = owner
  OBVIOUS
<1>2. Owners(requests) \in Seq(Owner) /\ Len(Owners(requests)) = Len(requests)
  BY OwnersSeq, Zenon
<1> HIDE DEF r
<1>3. /\ more \in Seq(R) /\ Len(more) = Len(requests) + 1
      /\ \A i \in 1..Len(requests) : more[i] = requests[i]
      /\ more[Len(requests) + 1] = r
  BY <1>1, SeqLonger
<1>4. /\ Owners(more) \in Seq(Owner) /\ Len(Owners(more)) = Len(requests) + 1
      /\ \A i \in 1..(Len(requests) + 1) : Owners(more)[i] = more[i].owner
  BY <1>3, OwnersSeq, Zenon
<1>5. /\ Append(Owners(requests), owner) \in Seq(Owner)
      /\ Len(Append(Owners(requests), owner)) = Len(requests) + 1
  BY <1>2, SeqLonger
<1>6. ASSUME NEW i \in 1..(Len(requests) + 1)
      PROVE  Owners(more)[i] = Append(Owners(requests), owner)[i]
  <2>1. Owners(more)[i] = more[i].owner
    BY <1>4
  <2>2. CASE i = Len(requests) + 1
    BY <1>1, <1>2, <1>3, <2>1, <2>2, SeqLonger
  <2>3. CASE i \in 1..Len(requests)
    <3>1. Append(Owners(requests), owner)[i] = Owners(requests)[i]
      BY <1>2, <2>3, SeqLonger
    <3>2. Owners(requests)[i] = requests[i].owner
      BY <2>3, OwnersSeq, Zenon
    <3>3. more[i] = requests[i]
      BY <1>3, <2>3
    <3> QED BY <2>1, <3>1, <3>2, <3>3, Zenon
  <2>4. i = Len(requests) + 1 \/ i \in 1..Len(requests)
    OBVIOUS
  <2> QED BY <2>2, <2>3, <2>4, Zenon
<1>7. Owners(more) = Append(Owners(requests), owner)
  BY <1>4, <1>5, <1>6, SeqSame
<1> QED BY <1>3, <1>7 DEF r

(* The oldest request's answer is owed to the oldest owner.                 *)
LEMMA OwnersTail ==
    ASSUME NEW requests \in Seq([owner : Owner, format : Format]), requests # <<>>
    PROVE  /\ Tail(requests) \in Seq([owner : Owner, format : Format])
           /\ Owners(requests) # <<>>
           /\ Owners(Tail(requests)) = Tail(Owners(requests))
<1> DEFINE R == [owner : Owner, format : Format]
           rest == Tail(requests)
<1>1. /\ Owners(requests) \in Seq(Owner) /\ Len(Owners(requests)) = Len(requests)
      /\ \A i \in 1..Len(requests) : Owners(requests)[i] = requests[i].owner
  BY OwnersSeq, Zenon
<1>2. Len(requests) > 0 /\ Owners(requests) # <<>>
  BY <1>1
<1>3. /\ rest \in Seq(R) /\ Len(rest) = Len(requests) - 1
      /\ \A i \in 1..Len(rest) : rest[i] = requests[i + 1]
  BY SeqTail
<1>4. /\ Tail(Owners(requests)) \in Seq(Owner) /\ Len(Tail(Owners(requests))) = Len(requests) - 1
      /\ \A i \in 1..(Len(requests) - 1) : Tail(Owners(requests))[i] = Owners(requests)[i + 1]
  BY <1>1, <1>2, SeqTail
<1> HIDE DEF rest
<1>5. /\ Owners(rest) \in Seq(Owner) /\ Len(Owners(rest)) = Len(requests) - 1
      /\ \A i \in 1..(Len(requests) - 1) : Owners(rest)[i] = rest[i].owner
  BY <1>3, OwnersSeq, Zenon
<1>6. ASSUME NEW i \in 1..(Len(requests) - 1)
      PROVE  Owners(rest)[i] = Tail(Owners(requests))[i]
  <2>1. i + 1 \in 1..Len(requests)
    BY <1>2
  <2> QED BY <1>1, <1>3, <1>4, <1>5, <2>1
<1>7. Owners(rest) = Tail(Owners(requests))
  BY <1>4, <1>5, <1>6, SeqSame
<1> QED BY <1>2, <1>3, <1>7 DEF rest

(* The receiver's answers to the sender's own lists, of a list queue.       *)
AtReceiver(list) == {i \in DOMAIN list : list[i] = "Receiver"}

(* They are finitely many, within the queue.                                *)
LEMMA AtReceiverFinite ==
    ASSUME NEW list \in Seq(Owner)
    PROVE  /\ AtReceiver(list) = {i \in 1..Len(list) : list[i] = "Receiver"}
           /\ IsFiniteSet(AtReceiver(list))
           /\ Receivers(list) = Cardinality(AtReceiver(list))
           /\ Receivers(list) \in Nat
<1>1. AtReceiver(list) = {i \in 1..Len(list) : list[i] = "Receiver"}
  BY DEF AtReceiver
<1>2. IsFiniteSet(1..Len(list))
  BY FS_Interval
<1>3. IsFiniteSet(AtReceiver(list))
  BY <1>1, <1>2, FS_Subset
<1> QED BY <1>1, <1>3, FS_CardinalityType DEF Receivers, AtReceiver

(* A list that is sent is one more of its owner's.                          *)
LEMMA ReceiversAppend ==
    ASSUME NEW list \in Seq(Owner), NEW owner \in Owner
    PROVE  /\ Append(list, owner) \in Seq(Owner)
           /\ Receivers(Append(list, owner)) = Receivers(list) + IF owner = "Receiver" THEN 1 ELSE 0
<1> DEFINE more == Append(list, owner)
           n == Len(list)
<1>1. /\ more \in Seq(Owner) /\ Len(more) = n + 1 /\ n \in Nat
      /\ \A i \in 1..n : more[i] = list[i]
      /\ more[n + 1] = owner
  BY SeqLonger
<1> HIDE DEF more, n
<1>2. AtReceiver(list) = {i \in 1..n : list[i] = "Receiver"}
  BY AtReceiverFinite DEF n
<1>3. AtReceiver(more) = {i \in 1..(n + 1) : more[i] = "Receiver"}
  BY <1>1, AtReceiverFinite
<1>4. CASE owner = "Receiver"
  <2>1. AtReceiver(more) = AtReceiver(list) \cup {n + 1}
    BY <1>1, <1>2, <1>3, <1>4
  <2>2. n + 1 \notin AtReceiver(list)
    BY <1>1, <1>2
  <2>3. Cardinality(AtReceiver(more)) = Cardinality(AtReceiver(list)) + 1
    BY <2>1, <2>2, AtReceiverFinite, FS_AddElement, Zenon
  <2> QED BY <1>1, <1>4, <2>3, AtReceiverFinite, Zenon DEF more
<1>5. CASE owner # "Receiver"
  <2>1. AtReceiver(more) = AtReceiver(list)
    BY <1>1, <1>2, <1>3, <1>5
  <2>2. Receivers(more) = Receivers(list) /\ Receivers(list) \in Nat
    BY <1>1, <2>1, AtReceiverFinite
  <2> QED BY <1>1, <1>5, <2>2 DEF more
<1> QED BY <1>4, <1>5

(* A list that is answered is one less of its owner's.                      *)
LEMMA ReceiversTail ==
    ASSUME NEW list \in Seq(Owner), list # <<>>
    PROVE  /\ Tail(list) \in Seq(Owner)
           /\ Receivers(Tail(list)) = Receivers(list) - IF Head(list) = "Receiver" THEN 1 ELSE 0
<1> DEFINE rest == Tail(list)
           n == Len(list)
<1>1. /\ rest \in Seq(Owner) /\ Len(rest) = n - 1 /\ n \in Nat /\ n > 0
      /\ \A i \in 1..(n - 1) : rest[i] = list[i + 1]
      /\ Head(list) = list[1]
  BY SeqTail
<1> HIDE DEF rest, n
<1>2. AtReceiver(list) = {i \in 1..n : list[i] = "Receiver"}
  BY AtReceiverFinite DEF n
<1>3. AtReceiver(rest) = {i \in 1..(n - 1) : rest[i] = "Receiver"}
  BY <1>1, AtReceiverFinite
<1> DEFINE later == AtReceiver(list) \ {1}
           f == [i \in AtReceiver(rest) |-> i + 1]
<1>4. f \in Bijection(AtReceiver(rest), later)
  <2>1. \A i \in AtReceiver(rest) : i + 1 \in later
    BY <1>1, <1>2, <1>3
  <2>2. \A k \in later : k - 1 \in AtReceiver(rest) /\ (k - 1) + 1 = k
    BY <1>1, <1>2, <1>3
  <2>3. \A i, k \in AtReceiver(rest) : i + 1 = k + 1 => i = k
    BY <1>3
  <2> HIDE DEF later
  <2>4. f \in [AtReceiver(rest) -> later]
    BY <2>1
  <2>5. \A k \in later : \E i \in AtReceiver(rest) : f[i] = k
    BY <2>2
  <2>6. \A i, k \in AtReceiver(rest) : f[i] = f[k] => i = k
    BY <2>3
  <2> HIDE DEF f
  <2> QED BY <2>4, <2>5, <2>6 DEF Bijection, Injection, Surjection, IsInjective
<1>5. Cardinality(later) = Cardinality(AtReceiver(rest))
  <2>1. ExistsBijection(AtReceiver(rest), later)
    BY <1>4, Zenon DEF ExistsBijection
  <2>2. IsFiniteSet(AtReceiver(rest))
    BY <1>1, AtReceiverFinite
  <2> HIDE DEF later
  <2> QED BY <2>1, <2>2, FS_Bijection
<1>6. Cardinality(later) = Cardinality(AtReceiver(list)) - IF 1 \in AtReceiver(list) THEN 1 ELSE 0
  <2>1. IsFiniteSet(AtReceiver(list)) /\ Cardinality(AtReceiver(list)) \in Nat
    BY AtReceiverFinite
  <2>2. Cardinality(later) = IF 1 \in AtReceiver(list) THEN Cardinality(AtReceiver(list)) - 1
                             ELSE Cardinality(AtReceiver(list))
    BY <2>1, FS_RemoveElement, Zenon
  <2> HIDE DEF later
  <2> QED BY <2>1, <2>2
<1>7. 1 \in AtReceiver(list) <=> Head(list) = "Receiver"
  BY <1>1, <1>2
<1> HIDE DEF later
<1>8. Receivers(rest) = Receivers(list) - IF Head(list) = "Receiver" THEN 1 ELSE 0
  BY <1>1, <1>5, <1>6, <1>7, AtReceiverFinite, Zenon
<1> QED BY <1>1, <1>8 DEF rest

(* What one PDU does to a lane's queues keeps them in agreement: a request  *)
(* to the sender, its answer, a list to the receiver, and its response.     *)
LEMMA QueueSteps ==
    ASSUME NEW d, NEW a, NEW o, NEW r, NEW w, QueueOK(d, a, o, r, w)
    PROVE  /\ \A owner \in Owner, format \in Format :
                 QueueOK(Append(d, owner), Append(a, [owner |-> owner, format |-> format]), o, r, w)
           /\ a # <<>> => QueueOK(IF d = <<>> THEN d ELSE Tail(d), Tail(a), o, r, w)
           /\ QueueOK(d, a, Append(o, "Receiver"), Append(r, "Receiver"), w + 1)
           /\ QueueOK(d, a, Append(o, "Proxy"), Append(r, "Proxy"), w)
           /\ r # <<>> => QueueOK(d, a, IF o = <<>> THEN o ELSE Tail(o), Tail(r),
                                  IF o # <<>> /\ Head(o) = "Proxy" THEN w ELSE w - 1)
<1> DEFINE R == [owner : Owner, format : Format]
<1>1. /\ a \in Seq(R) /\ r \in Seq(Owner) /\ d = Owners(a) /\ o = r /\ w = Receivers(r)
  BY DEF QueueOK
<1>2. w \in Nat
  BY <1>1, AtReceiverFinite
<1>3. ASSUME NEW owner \in Owner, NEW format \in Format
      PROVE QueueOK(Append(d, owner), Append(a, [owner |-> owner, format |-> format]), o, r, w)
  BY <1>1, OwnersAppend, Zenon DEF QueueOK
<1>4. ASSUME a # <<>> PROVE QueueOK(IF d = <<>> THEN d ELSE Tail(d), Tail(a), o, r, w)
  BY <1>1, <1>4, OwnersTail, Zenon DEF QueueOK
<1>5. QueueOK(d, a, Append(o, "Receiver"), Append(r, "Receiver"), w + 1)
  <2>1. "Receiver" \in Owner
    BY DEF Owner
  <2>2. Append(r, "Receiver") \in Seq(Owner) /\ Receivers(Append(r, "Receiver")) = w + 1
    BY <1>1, <2>1, ReceiversAppend
  <2> QED BY <1>1, <2>2, Zenon DEF QueueOK
<1>6. QueueOK(d, a, Append(o, "Proxy"), Append(r, "Proxy"), w)
  <2>1. "Proxy" \in Owner
    BY DEF Owner
  <2>2. Append(r, "Proxy") \in Seq(Owner) /\ Receivers(Append(r, "Proxy")) = w
    BY <1>1, <1>2, <2>1, ReceiversAppend
  <2> QED BY <1>1, <2>2, Zenon DEF QueueOK
<1>7. ASSUME r # <<>>
      PROVE QueueOK(d, a, IF o = <<>> THEN o ELSE Tail(o), Tail(r),
                    IF o # <<>> /\ Head(o) = "Proxy" THEN w ELSE w - 1)
  <2>1. Head(r) \in Owner
    BY <1>1, <1>7, SeqTail
  <2>2. Head(r) = "Proxy" \/ Head(r) = "Receiver"
    BY <2>1 DEF Owner
  <2>3. /\ Tail(r) \in Seq(Owner)
        /\ Receivers(Tail(r)) = IF Head(r) = "Proxy" THEN w ELSE w - 1
    BY <1>1, <1>2, <1>7, <2>2, ReceiversTail
  <2> QED BY <1>1, <1>7, <2>3, Zenon DEF QueueOK
<1> QED BY <1>3, <1>4, <1>5, <1>6, <1>7

------------------------------------------------------------------------------
(* Phases.                                                                  *)

(* A scan more takes nothing back.                                          *)
LEMMA PhaseMonotone ==
    ASSUME NEW l, NEW p, NEW last, NEW seen, NEW S, NEW T, S \subseteq T,
           PhaseOK(l, p, last, seen, S)
    PROVE  PhaseOK(l, p, last, seen, T)
BY DEF PhaseOK, ScanningOK, OfferedOK

(* A step that changes one lane's phase is judged by that lane.             *)
LEMMA PhasesFrame ==
    ASSUME PhasesOK, NEW l \in Lane, NEW p, NEW last, NEW seen,
           phase' = [phase EXCEPT ![l] = p],
           newest' = [newest EXCEPT ![l] = last],
           shown' = [shown EXCEPT ![l] = seen],
           clean \subseteq clean',
           PhaseOK(l, p, last, seen, clean')
    PROVE  PhasesOK'
<1>1. ASSUME NEW k \in Lane PROVE PhaseOK(k, phase'[k], newest'[k], shown'[k], clean')
  <2>1. CASE k = l
    BY <2>1 DEF PhasesOK
  <2>2. CASE k # l
    <3>1. phase'[k] = phase[k] /\ newest'[k] = newest[k] /\ shown'[k] = shown[k]
      BY <2>2 DEF PhasesOK
    <3>2. PhaseOK(k, phase[k], newest[k], shown[k], clean)
      BY DEF PhasesOK
    <3> QED BY <3>1, <3>2, PhaseMonotone
  <2> QED BY <2>1, <2>2
<1> QED BY <1>1, Zenon DEF PhasesOK

(* No fetch at all: the receiver has an empty list, or the newest.          *)
LEMMA IdleOK ==
    ASSUME NEW l, NEW last, NEW seen \in {0, last}, NEW S
    PROVE  PhaseOK(l, Idle, last, seen, S)
BY DEF PhaseOK, IsPhase, Idle

(* Files before the next one to ask for are whole.                          *)
LEMMA NextFileWhole ==
    ASSUME NEW p, DataOK(p), p.index \in 1..(Len(p.files) + 1), Whole(p, p.index - 1)
    PROVE  /\ NextFile(p) \in 1..(Len(p.files) + 1)
           /\ Whole(p, NextFile(p) - 1)
<1> DEFINE n == Len(p.files)
           lacking == {i \in p.index..n : Len(p.data[i]) < p.files[i].size}
<1>1. n \in Nat /\ DOMAIN p.files = 1..n
  BY DEF DataOK
<1>2. \A i \in 1..n : p.files[i].size \in Nat
  <2>1. \A i \in 1..n : p.files[i] \in File
    BY SeqAt DEF DataOK
  <2> QED BY <2>1 DEF File
<1>3. \A i \in 1..n : Len(p.data[i]) \in Nat /\ Len(p.data[i]) <= p.files[i].size
  BY <1>1 DEF DataOK
<1>4. NextFile(p) = IF lacking = {} THEN n + 1 ELSE CHOOSE i \in lacking : \A k \in lacking : i <= k
  BY DEF NextFile
<1>5. lacking \subseteq Nat /\ lacking \subseteq 1..n
  BY <1>1
<1>6. \A i \in (p.index)..n : i \notin lacking => Len(p.data[i]) = p.files[i].size
  BY <1>1, <1>2, <1>3
<1>7. \A i \in 1..(p.index - 1) : Len(p.data[i]) = p.files[i].size
  BY DEF Whole
<1>8. CASE lacking = {}
  <2>1. NextFile(p) = n + 1
    BY <1>4, <1>8
  <2>2. \A i \in 1..n : Len(p.data[i]) = p.files[i].size
    BY <1>1, <1>6, <1>7, <1>8
  <2>3. n + 1 - 1 = n
    BY <1>1
  <2> QED BY <1>1, <2>1, <2>2, <2>3 DEF Whole
<1>9. CASE lacking # {}
  <2> HIDE DEF lacking
  <2>1. \E i \in lacking : \A k \in lacking : i <= k
    BY <1>5, <1>9, Least, Zenon
  <2>2. PICK i \in lacking : NextFile(p) = i /\ \A k \in lacking : i <= k
    BY <1>4, <1>9, <2>1
  <2>3. i \in 1..n
    BY <1>5
  <2>4. ASSUME NEW k \in 1..(i - 1) PROVE Len(p.data[k]) = p.files[k].size
    <3>1. k \notin lacking /\ k \in 1..n
      BY <1>1, <1>5, <2>2, <2>3
    <3>2. k \in 1..(p.index - 1) \/ k \in (p.index)..n
      BY <1>1, <3>1
    <3> QED BY <1>6, <1>7, <3>1, <3>2
  <2> QED BY <1>1, <2>2, <2>3, <2>4 DEF Whole
<1> QED BY <1>8, <1>9

(* fetch_next leaves a phase that asks for the next range, or one that      *)
(* scans whole files.                                                       *)
LEMMA FetchNextOK ==
    ASSUME NEW l \in Lane, NEW p, NEW last, NEW seen, NEW S, NEW answered,
           IsPhase(p), p.step = "Contents", p.list = last,
           DataOK(p), p.index \in 1..(Len(p.files) + 1), Whole(p, p.index - 1),
           FetchNext(l, p, answered)
    PROVE  \E q : phase' = [phase EXCEPT ![l] = q] /\ PhaseOK(l, q, last, seen, S)
<1> DEFINE next == [p EXCEPT !.index = NextFile(p)]
           scan == [p EXCEPT !.step = "Scanning", !.index = 0,
                             !.verdicts = [i \in DOMAIN p.files |-> "None"]]
<1>1. Len(p.files) \in Nat
  BY DEF DataOK
<1>2. NextFile(p) \in 1..(Len(p.files) + 1) /\ Whole(p, NextFile(p) - 1)
  BY NextFileWhole
<1>3. /\ IsPhase(next) /\ next.step = "Contents" /\ next.list = last /\ next.gen = p.gen
      /\ next.files = p.files /\ next.data = p.data /\ next.index = NextFile(p)
  BY DEF IsPhase
<1>4. /\ IsPhase(scan) /\ scan.step = "Scanning" /\ scan.list = last /\ scan.gen = p.gen
      /\ scan.files = p.files /\ scan.data = p.data
      /\ scan.verdicts = [i \in DOMAIN p.files |-> "None"]
  BY DEF IsPhase
<1>5. \/ NextFile(p) <= Len(p.files) /\ phase' = [phase EXCEPT ![l] = next]
      \/ NextFile(p) > Len(p.files) /\ phase' = [phase EXCEPT ![l] = scan]
  BY <1>3 DEF FetchNext, SetPhase
<1> HIDE DEF next, scan
<1>6. CASE NextFile(p) <= Len(p.files) /\ phase' = [phase EXCEPT ![l] = next]
  <2>1. NextFile(p) \in 1..Len(p.files)
    BY <1>1, <1>2, <1>6
  <2>2. ContentsOK(next)
    BY <1>2, <1>3, <2>1 DEF ContentsOK, DataOK, Whole
  <2>3. PhaseOK(l, next, last, seen, S)
    BY <1>3, <2>2 DEF PhaseOK
  <2> QED BY <1>6, <2>3, Zenon
<1>7. CASE NextFile(p) > Len(p.files) /\ phase' = [phase EXCEPT ![l] = scan]
  <2>1. NextFile(p) - 1 = Len(p.files)
    BY <1>1, <1>2, <1>7
  <2>2. DataOK(scan) /\ Whole(scan, Len(scan.files))
    BY <1>2, <1>4, <2>1 DEF DataOK, Whole
  <2>3. /\ DOMAIN scan.verdicts = DOMAIN scan.files
        /\ \A i \in DOMAIN scan.files : scan.verdicts[i] # "Clean"
    BY <1>4
  <2>4. ScanningOK(l, scan, S)
    BY <2>2, <2>3 DEF ScanningOK
  <2>5. PhaseOK(l, scan, last, seen, S)
    BY <1>4, <2>4 DEF PhaseOK
  <2> QED BY <1>7, <2>5, Zenon
<1> QED BY <1>5, <1>6, <1>7

(* fetch_next starts scans of its own lane only.                            *)
LEMMA FetchNextJobs ==
    ASSUME JobsOK, NEW l \in Lane, NEW p, NEW answered, FetchNext(l, p, answered)
    PROVE  JobsOK'
<1>1. jobs' = jobs \/ jobs' = jobs \cup [lane : {l}, gen : {p.gen}, index : DOMAIN p.files]
  BY DEF FetchNext
<1>2. \A j \in [lane : {l}, gen : {p.gen}, index : DOMAIN p.files] :
         j.lane \in Lane /\ j = [lane |-> j.lane, gen |-> j.gen, index |-> j.index]
  OBVIOUS
<1> QED BY <1>1, <1>2 DEF JobsOK

(* A refusal leaves an idle lane and an empty list.                         *)
LEMMA RefuseOK ==
    ASSUME PhasesOK, NEW l \in Lane, NEW last, Refuse(l), clean \subseteq clean',
           newest' = [newest EXCEPT ![l] = last]
    PROVE  PhasesOK'
<1>1. phase' = [phase EXCEPT ![l] = Idle] /\ shown' = [shown EXCEPT ![l] = 0]
  BY DEF Refuse, SetPhase, SendList
<1>2. PhaseOK(l, Idle, last, 0, clean')
  BY IdleOK
<1> QED BY <1>1, <1>2, PhasesFrame, Zenon

(* The start of a relay, and the standing and the settings, leave the lanes *)
(* alone.                                                                   *)
LEMMA InvKept ==
    ASSUME Inv, UNCHANGED <<laneVars, jobs, clean, endpointVars>>
    PROVE  Inv'
BY DEF Inv, PhasesOK, JobsOK, QueuesOK, laneVars, endpointVars

(* Nothing is fetched, offered, owed or scanned before the first session.   *)
LEMMA InitInv == ASSUME Init PROVE Inv
<1>1. PhasesOK
  <2>1. \A l \in Lane : phase[l] = Idle /\ newest[l] = 0 /\ shown[l] = 0
    BY DEF Init
  <2>2. \A l \in Lane : PhaseOK(l, Idle, 0, 0, clean)
    BY IdleOK
  <2> QED BY <2>1, <2>2 DEF PhasesOK, Init
<1>2. JobsOK
  BY DEF Init, JobsOK
<1>3. QueueOK(<<>>, <<>>, <<>>, <<>>, 0)
  <2>1. Owners(<<>>) = <<>> /\ {i \in DOMAIN <<>> : <<>>[i] = "Receiver"} = {}
    BY DEF Owners
  <2> QED BY <2>1, FS_EmptySet DEF QueueOK, Receivers
<1>4. QueuesOK
  BY <1>3 DEF Init, QueuesOK
<1> QED BY <1>1, <1>2, <1>4 DEF Inv

------------------------------------------------------------------------------
(* Every step keeps the invariant.                                          *)

(* The end of a relay takes the session's lanes, scans and queues away.     *)
LEMMA EndRelayInv == ASSUME Inv, NEW s \in Session, EndRelay(s) PROVE Inv'
<1> USE DEF Inv
<1>1. PhasesOK'
  <2>1. /\ phase' = [l \in Lane |-> phase'[l]]
        /\ newest' = [l \in Lane |-> newest'[l]]
        /\ shown' = [l \in Lane |-> shown'[l]]
    BY DEF EndRelay, Cleared
  <2>2. ASSUME NEW l \in Lane PROVE PhaseOK(l, phase'[l], newest'[l], shown'[l], clean')
    <3>1. CASE l[1] = s
      <4>1. phase'[l] = Idle /\ newest'[l] = 0 /\ shown'[l] = 0
        BY <3>1 DEF EndRelay, Cleared
      <4> QED BY <4>1, IdleOK
    <3>2. CASE l[1] # s
      <4>1. phase'[l] = phase[l] /\ newest'[l] = newest[l] /\ shown'[l] = shown[l]
        BY <3>2 DEF EndRelay, Cleared
      <4>2. PhaseOK(l, phase[l], newest[l], shown[l], clean)
        BY DEF PhasesOK
      <4>3. \A i : Job(l, phase[l], i) \in clean => Job(l, phase[l], i) \in clean'
        BY <3>2 DEF EndRelay, Job
      <4> QED BY <4>1, <4>2, <4>3 DEF PhaseOK, ScanningOK, OfferedOK
    <3> QED BY <3>1, <3>2
  <2> QED BY <2>1, <2>2 DEF PhasesOK
<1>2. JobsOK'
  BY DEF JobsOK, EndRelay
<1>3. QueuesOK'
  <2>1. QueueOK(<<>>, <<>>, <<>>, <<>>, 0)
    <3>1. Owners(<<>>) = <<>> /\ {i \in DOMAIN <<>> : <<>>[i] = "Receiver"} = {}
      BY DEF Owners
    <3> QED BY <3>1, FS_EmptySet DEF QueueOK, Receivers
  <2> QED BY <2>1 DEF QueuesOK, EndRelay, Cleared
<1> QED BY <1>1, <1>2, <1>3

(* A list that is passed on is the newest, and the receiver has it.         *)
LEMMA FormatListPassedInv == ASSUME Inv, NEW l \in Lane, FormatListPassed(l) PROVE Inv'
<1> USE DEF Inv
<1>1. PhasesOK'
  <2>1. /\ phase' = [phase EXCEPT ![l] = Idle]
        /\ newest' = [newest EXCEPT ![l] = newest[l] + 1]
        /\ shown' = [shown EXCEPT ![l] = newest[l] + 1]
        /\ clean' = clean
    BY DEF FormatListPassed, SetPhase, SendList
  <2>2. PhaseOK(l, Idle, newest[l] + 1, newest[l] + 1, clean')
    BY IdleOK
  <2> QED BY <2>1, <2>2, PhasesFrame, Zenon
<1>2. JobsOK'
  BY DEF JobsOK, FormatListPassed
<1>3. QueuesOK'
  <2>1. QueueOK(data_owed[l], asked[l], lists_owed[l], listed[l], unanswered[l])
    BY DEF QueuesOK
  <2>2. QueueOK(data_owed[l], asked[l], Append(lists_owed[l], "Receiver"),
                Append(listed[l], "Receiver"), unanswered[l] + 1)
    BY <2>1, QueueSteps
  <2>3. /\ lists_owed' = [lists_owed EXCEPT ![l] = Append(lists_owed[l], "Receiver")]
        /\ listed' = [listed EXCEPT ![l] = Append(listed[l], "Receiver")]
        /\ unanswered' = [unanswered EXCEPT ![l] = unanswered[l] + 1]
        /\ data_owed' = data_owed /\ asked' = asked
    BY DEF FormatListPassed, SendList
  <2> QED BY <2>2, <2>3, Zenon DEF QueuesOK
<1> QED BY <1>1, <1>2, <1>3

(* A list the proxy sends the receiver is owed to the proxy.                *)
LEMMA ProxyListQueues ==
    ASSUME QueuesOK, NEW l \in Lane, NEW list, SendList(l, "Proxy", list),
           UNCHANGED <<data_owed, asked, unanswered>>
    PROVE  QueuesOK'
<1>1. QueueOK(data_owed[l], asked[l], lists_owed[l], listed[l], unanswered[l])
  BY DEF QueuesOK
<1>2. QueueOK(data_owed[l], asked[l], Append(lists_owed[l], "Proxy"),
              Append(listed[l], "Proxy"), unanswered[l])
  BY <1>1, QueueSteps
<1>3. /\ lists_owed' = [lists_owed EXCEPT ![l] = Append(lists_owed[l], "Proxy")]
      /\ listed' = [listed EXCEPT ![l] = Append(listed[l], "Proxy")]
  BY DEF SendList
<1> QED BY <1>2, <1>3, Zenon DEF QueuesOK

(* A request is owed to whoever asked.                                      *)
LEMMA AskQueues ==
    ASSUME QueuesOK, NEW l \in Lane, NEW owner \in Owner, NEW format \in Format,
           AskSender(l, owner, format), UNCHANGED <<lists_owed, listed, unanswered>>
    PROVE  QueuesOK'
<1>1. QueueOK(data_owed[l], asked[l], lists_owed[l], listed[l], unanswered[l])
  BY DEF QueuesOK
<1>2. QueueOK(Append(data_owed[l], owner),
              Append(asked[l], [owner |-> owner, format |-> format]),
              lists_owed[l], listed[l], unanswered[l])
  BY <1>1, QueueSteps, Zenon
<1>3. /\ data_owed' = [data_owed EXCEPT ![l] = Append(data_owed[l], owner)]
      /\ asked' = [asked EXCEPT ![l] = Append(asked[l], [owner |-> owner, format |-> format])]
  BY DEF AskSender
<1> QED BY <1>2, <1>3, Zenon DEF QueuesOK

(* A list of files is refused, or fetched as the newest.                    *)
LEMMA FormatListOfFilesInv == ASSUME Inv, NEW l \in Lane, FormatListOfFiles(l) PROVE Inv'
<1> USE DEF Inv
<1> DEFINE p == [Idle EXCEPT !.step = "Descriptor", !.gen = generation'[l[1]],
                             !.list = newest[l] + 1]
<1>1. JobsOK' /\ clean' = clean /\ newest' = [newest EXCEPT ![l] = newest[l] + 1]
  BY DEF JobsOK, FormatListOfFiles
<1>2. CASE Refuse(l) /\ UNCHANGED <<data_owed, asked>>
  <2>1. PhasesOK'
    BY <1>1, <1>2, RefuseOK, Zenon
  <2>2. QueuesOK'
    BY <1>2, ProxyListQueues DEF Refuse, FormatListOfFiles
  <2> QED BY <1>1, <2>1, <2>2
<1>3. CASE /\ SetPhase(l, p) /\ AskSender(l, "Proxy", "files")
           /\ UNCHANGED <<lists_owed, listed, shown>>
  <2>1. PhaseOK(l, p, newest[l] + 1, shown[l], clean')
    BY DEF PhaseOK, IsPhase, Idle
  <2>2. phase' = [phase EXCEPT ![l] = p]
    BY <1>3 DEF SetPhase
  <2>3. shown' = [shown EXCEPT ![l] = shown[l]]
    BY <1>3 DEF PhasesOK
  <2> HIDE DEF p
  <2>4. PhasesOK'
    BY <1>1, <2>1, <2>2, <2>3, PhasesFrame, Zenon
  <2>5. "Proxy" \in Owner /\ "files" \in Format
    BY DEF Owner, Format
  <2>6. QueuesOK'
    BY <1>3, <2>5, AskQueues DEF FormatListOfFiles
  <2> QED BY <1>1, <2>4, <2>6
<1> QED BY <1>2, <1>3 DEF FormatListOfFiles

(* The response to a list goes to the list's owner.                         *)
LEMMA FormatListResponseInv == ASSUME Inv, NEW l \in Lane, FormatListResponse(l) PROVE Inv'
<1> USE DEF Inv
<1>1. PhasesOK' /\ JobsOK'
  BY DEF PhasesOK, JobsOK, FormatListResponse
<1>2. QueueOK(data_owed[l], asked[l], lists_owed[l], listed[l], unanswered[l])
  BY DEF QueuesOK
<1>3. QueueOK(data_owed[l], asked[l],
              IF lists_owed[l] = <<>> THEN lists_owed[l] ELSE Tail(lists_owed[l]), Tail(listed[l]),
              IF lists_owed[l] # <<>> /\ Head(lists_owed[l]) = "Proxy"
              THEN unanswered[l] ELSE unanswered[l] - 1)
  BY <1>2, QueueSteps, Zenon DEF FormatListResponse
<1>4. /\ data_owed' = data_owed /\ asked' = asked
      /\ lists_owed' = [lists_owed EXCEPT ![l] =
             IF lists_owed[l] = <<>> THEN lists_owed[l] ELSE Tail(lists_owed[l])]
      /\ listed' = [listed EXCEPT ![l] = Tail(listed[l])]
      /\ unanswered' = [unanswered EXCEPT ![l] =
             IF lists_owed[l] # <<>> /\ Head(lists_owed[l]) = "Proxy"
             THEN unanswered[l] ELSE unanswered[l] - 1]
  BY DEF FormatListResponse
<1>5. QueuesOK'
  BY <1>3, <1>4, Zenon DEF QueuesOK
<1> QED BY <1>1, <1>5

(* A request that goes to the sender is the receiver's.                     *)
LEMMA DataRequestInv ==
    ASSUME Inv, NEW l \in Lane, NEW format \in Format, DataRequest(l, format)
    PROVE  Inv'
<1> USE DEF Inv
<1>1. PhasesOK' /\ JobsOK'
  BY DEF PhasesOK, JobsOK, DataRequest
<1>2. "Receiver" \in Owner
  BY DEF Owner
<1>3. QueuesOK'
  BY <1>2, AskQueues DEF DataRequest
<1> QED BY <1>1, <1>3

(* An answer goes to whoever is first in line; the fetch that waits for it  *)
(* is refused, or asks for its first range.                                 *)
LEMMA DataResponseInv == ASSUME Inv, NEW l \in Lane, DataResponse(l) PROVE Inv'
<1> USE DEF Inv
<1> DEFINE d == IF data_owed[l] = <<>> THEN data_owed[l] ELSE Tail(data_owed[l])
           a == Tail(asked[l])
<1>1. /\ clean' = clean /\ newest' = newest /\ unanswered' = unanswered
      /\ data_owed' = [data_owed EXCEPT ![l] = d] /\ asked' = [asked EXCEPT ![l] = a]
  BY DEF DataResponse
<1>2. QueueOK(d, a, lists_owed[l], listed[l], unanswered[l])
  BY QueueSteps, Zenon DEF QueuesOK, DataResponse
<1> HIDE DEF d, a
<1>3. ASSUME lists_owed' = lists_owed, listed' = listed PROVE QueuesOK'
  BY <1>1, <1>2, <1>3, Zenon DEF QueuesOK
<1>4. newest' = [newest EXCEPT ![l] = newest[l]]
  BY <1>1 DEF PhasesOK
<1>5. CASE UNCHANGED <<held, phase, ranges, jobs, lists_owed, listed, shown>>
  BY <1>1, <1>3, <1>5 DEF PhasesOK, JobsOK
<1>6. ASSUME NEW files \in FileLists \cup {<<>>}, DescriptorRefused(l, files) PROVE Inv'
  <2>1. PhasesOK'
    BY <1>1, <1>4, <1>6, RefuseOK, Zenon DEF DescriptorRefused
  <2>2. JobsOK'
    BY <1>6 DEF JobsOK, DescriptorRefused
  <2>3. QueueOK(d, a, Append(lists_owed[l], "Proxy"), Append(listed[l], "Proxy"), unanswered[l])
    BY <1>2, QueueSteps
  <2>4. /\ lists_owed' = [lists_owed EXCEPT ![l] = Append(lists_owed[l], "Proxy")]
        /\ listed' = [listed EXCEPT ![l] = Append(listed[l], "Proxy")]
    BY <1>6 DEF DescriptorRefused, Refuse, SendList
  <2>5. QueuesOK'
    BY <1>1, <2>3, <2>4, Zenon DEF QueuesOK
  <2> QED BY <2>1, <2>2, <2>5
<1>7. ASSUME NEW files \in FileLists \cup {<<>>}, DescriptorTaken(l, files),
             phase[l].step = "Descriptor"
      PROVE  Inv'
  <2> DEFINE p == [phase[l] EXCEPT !.step = "Contents", !.files = files, !.index = 1,
                       !.data = [i \in DOMAIN files |-> <<>>], !.reserved = Total(files)]
  <2>1. PhaseOK(l, phase[l], newest[l], shown[l], clean)
    BY DEF PhasesOK
  <2>2. /\ IsPhase(p) /\ p.step = "Contents" /\ p.list = newest[l] /\ p.files = files
        /\ p.index = 1 /\ p.data = [i \in DOMAIN files |-> <<>>]
    BY <1>7, <2>1 DEF PhaseOK, IsPhase
  <2>3. FetchNext(l, p, {}) /\ lists_owed' = lists_owed /\ listed' = listed /\ shown' = shown
    BY <1>7 DEF DescriptorTaken
  <2>4. files \in Seq(File)
    <3>1. CASE files \in FileLists
      BY <3>1, ClipAssumption
    <3>2. CASE files = <<>>
      BY <3>2
    <3> QED BY <3>1, <3>2
  <2> HIDE DEF p
  <2>5. DataOK(p)
    <3>1. \A i \in DOMAIN files : files[i].size \in Nat
      <4>1. \A i \in DOMAIN files : files[i] \in File
        BY <2>4, SeqAt
      <4> QED BY <4>1 DEF File
    <3>2. \A i \in DOMAIN files : p.data[i] = <<>> /\ Len(p.data[i]) = 0
      BY <2>2
    <3>3. \A i : Units(p.gen, i, 0) = <<>>
      BY DEF Units
    <3> QED BY <2>2, <2>4, <3>1, <3>2, <3>3 DEF DataOK
  <2>6. p.index \in 1..(Len(p.files) + 1) /\ Whole(p, p.index - 1)
    BY <2>2, <2>4 DEF Whole
  <2>7. PICK q : phase' = [phase EXCEPT ![l] = q] /\ PhaseOK(l, q, newest[l], shown[l], clean')
    BY <2>2, <2>3, <2>5, <2>6, FetchNextOK, Zenon
  <2>8. shown' = [shown EXCEPT ![l] = shown[l]]
    BY <2>3 DEF PhasesOK
  <2>9. PhasesOK'
    BY <1>1, <1>4, <2>7, <2>8, PhasesFrame, Zenon
  <2>10. JobsOK'
    BY <2>3, FetchNextJobs
  <2> QED BY <1>3, <2>3, <2>9, <2>10
<1> QED BY <1>5, <1>6, <1>7 DEF DataResponse

(* An answer to the range the fetch waits for is the next of that file.     *)
LEMMA ContentsInv ==
    ASSUME Inv, NEW l \in Lane, NEW r, NEW n \in 0..(RangeSize + 1), Contents(l, r, n)
    PROVE  Inv'
<1> USE DEF Inv
<1>1. /\ clean' = clean /\ newest' = newest /\ unanswered' = unanswered
      /\ data_owed' = data_owed /\ asked' = asked
  BY Zenon DEF Contents
<1>2. newest' = [newest EXCEPT ![l] = newest[l]]
  BY <1>1 DEF PhasesOK
<1>3. CASE UNCHANGED <<held, phase, jobs, lists_owed, listed, shown>>
  BY <1>1, <1>3 DEF PhasesOK, JobsOK, QueuesOK
<1>4. CASE Refuse(l) /\ UNCHANGED jobs
  <2>1. PhasesOK'
    BY <1>1, <1>2, <1>4, RefuseOK, Zenon
  <2>2. QueuesOK'
    BY <1>1, <1>4, ProxyListQueues DEF Refuse
  <2> QED BY <1>4, <2>1, <2>2 DEF JobsOK
<1> DEFINE p == phase[l]
           i == p.index
           room == p.files[i].size - Len(p.data[i])
           got == [k \in 1..n |-> <<r[1], r[2], r[3] + k - 1>>]
           q == [p EXCEPT !.data = [p.data EXCEPT ![i] = p.data[i] \o got]]
<1>5. CASE /\ Expected(l, r) /\ n <= room /\ FetchNext(l, q, {r})
           /\ UNCHANGED <<lists_owed, listed, shown>>
  <2>1. PhaseOK(l, p, newest[l], shown[l], clean)
    BY DEF PhasesOK
  <2>2. p.step = "Contents" /\ r = <<p.gen, i, Len(p.data[i])>>
    BY <1>5 DEF Expected, Stream
  <2>3. IsPhase(p) /\ p.list = newest[l] /\ ContentsOK(p)
    BY <2>1, <2>2 DEF PhaseOK
  <2>4. /\ IsPhase(q) /\ q.step = "Contents" /\ q.list = newest[l] /\ q.files = p.files
        /\ q.index = i /\ q.gen = p.gen /\ q.data = [p.data EXCEPT ![i] = p.data[i] \o got]
    BY <2>2, <2>3 DEF IsPhase
  <2>5. r[1] = p.gen /\ r[2] = i /\ r[3] = Len(p.data[i])
    BY <2>2
  <2> DEFINE m == Len(p.data[i])
  <2>6. /\ DataOK(p) /\ i \in DOMAIN p.files /\ DOMAIN p.data = DOMAIN p.files /\ m \in Nat
        /\ p.data[i] = Units(p.gen, i, m) /\ i \in 1..Len(p.files) /\ Len(p.files) \in Nat
    BY <2>3 DEF ContentsOK, DataOK
  <2>7. p.files[i].size \in Nat
    <3>1. p.files[i] \in File
      BY <2>6, SeqAt DEF DataOK
    <3> QED BY <3>1 DEF File
  <2>8. n \in Nat /\ m + n \in Nat
    BY <2>6, ClipAssumption
  <2>9. p.data[i] \o got = Units(p.gen, i, m + n)
    <3>1. got = UnitsAfter(p.gen, i, m, n)
      BY <2>5 DEF UnitsAfter
    <3> HIDE DEF got, m, p, i
    <3>2. Units(p.gen, i, m) \o UnitsAfter(p.gen, i, m, n) = Units(p.gen, i, m + n)
      BY <2>6, <2>8, UnitsContinue
    <3> QED BY <2>6, <3>1, <3>2, Zenon
  <2>10. m + n <= p.files[i].size
    <3>1. n <= room
      BY <1>5
    <3> HIDE DEF m, p, i
    <3>2. room = p.files[i].size - m
      BY DEF m
    <3> HIDE DEF room
    <3> QED BY <2>6, <2>7, <2>8, <3>1, <3>2
  <2>11. Len(Units(p.gen, i, m + n)) = m + n
    BY <2>8 DEF Units
  <2> HIDE DEF got, q, m, p, i, room
  <2>12. /\ DOMAIN q.data = DOMAIN p.files /\ q.data[i] = Units(p.gen, i, m + n)
         /\ \A k \in DOMAIN p.files : k # i => q.data[k] = p.data[k]
    BY <2>4, <2>6, <2>9
  <2>13. DataOK(q)
    <3>1. ASSUME NEW k \in DOMAIN p.files
          PROVE  /\ Len(q.data[k]) \in Nat /\ Len(q.data[k]) <= p.files[k].size
                 /\ q.data[k] = Units(p.gen, k, Len(q.data[k]))
      <4>1. CASE k = i
        BY <2>8, <2>10, <2>11, <2>12, <4>1
      <4>2. CASE k # i
        BY <2>6, <2>12, <4>2 DEF DataOK
      <4> QED BY <4>1, <4>2
    <3> QED BY <2>4, <2>6, <2>12, <3>1 DEF DataOK
  <2>14. q.index \in 1..(Len(q.files) + 1) /\ Whole(q, q.index - 1)
    <3>1. \A k \in 1..(i - 1) : k \in DOMAIN p.files /\ k # i
      BY <2>6 DEF DataOK
    <3>2. \A k \in 1..(i - 1) : Len(p.data[k]) = p.files[k].size
      BY <2>3 DEF ContentsOK, Whole, i
    <3> QED BY <2>4, <2>6, <2>12, <3>1, <3>2 DEF Whole
  <2>15. FetchNext(l, q, {r})
    BY <1>5
  <2>16. PICK next : /\ phase' = [phase EXCEPT ![l] = next]
                     /\ PhaseOK(l, next, newest[l], shown[l], clean')
    BY <2>4, <2>13, <2>14, <2>15, FetchNextOK, Zenon
  <2>17. shown' = [shown EXCEPT ![l] = shown[l]]
    BY <1>5 DEF PhasesOK
  <2>18. PhasesOK'
    BY <1>1, <1>2, <2>16, <2>17, PhasesFrame, Zenon
  <2>19. JobsOK'
    BY <2>15, FetchNextJobs
  <2>20. QueuesOK'
    BY <1>1, <1>5 DEF QueuesOK
  <2> QED BY <2>18, <2>19, <2>20
<1> QED BY <1>3, <1>4, <1>5, Zenon DEF Contents

(* A verdict counts for the fetch that asked for it, and the last one       *)
(* decides.                                                                 *)
LEMMA ScannedInv == ASSUME Inv, NEW j \in jobs, NEW v \in Verdict, Scanned(j, v) PROVE Inv'
<1> USE DEF Inv
<1> DEFINE l == j.lane
           p == [phase[l] EXCEPT !.verdicts = [phase[l].verdicts EXCEPT ![j.index] = v]]
<1>1. l \in Lane /\ j = [lane |-> l, gen |-> j.gen, index |-> j.index]
  BY DEF JobsOK
<1>2. JobsOK'
  BY DEF JobsOK, Scanned
<1>3. /\ clean \subseteq clean' /\ newest' = newest /\ unanswered' = unanswered
      /\ data_owed' = data_owed /\ asked' = asked /\ (v = "Clean" => j \in clean')
  BY DEF Scanned
<1>4. newest' = [newest EXCEPT ![l] = newest[l]]
  BY <1>1, <1>3 DEF PhasesOK
<1>5. CASE UNCHANGED <<held, phase, lists_owed, listed, shown>>
  <2>1. PhasesOK'
    BY <1>3, <1>5, PhaseMonotone DEF PhasesOK
  <2>2. QueuesOK'
    BY <1>3, <1>5 DEF QueuesOK
  <2> QED BY <1>2, <2>1, <2>2
<1>6. CASE Refuse(l)
  <2> HIDE DEF l
  <2>1. PhasesOK'
    BY <1>1, <1>3, <1>4, <1>6, RefuseOK, Zenon
  <2>2. QueuesOK'
    BY <1>1, <1>3, <1>6, ProxyListQueues DEF Refuse
  <2> QED BY <1>2, <2>1, <2>2
<1>7. ASSUME ForThisFetch(j)
      PROVE  /\ IsPhase(p) /\ p.step = "Scanning" /\ p.list = newest[l]
             /\ ScanningOK(l, p, clean')
  <2>1. PhaseOK(l, phase[l], newest[l], shown[l], clean)
    BY <1>1 DEF PhasesOK
  <2>2. phase[l].step = "Scanning" /\ phase[l].gen = j.gen
    BY <1>7 DEF ForThisFetch
  <2>3. IsPhase(phase[l]) /\ phase[l].list = newest[l] /\ ScanningOK(l, phase[l], clean)
    BY <2>1, <2>2 DEF PhaseOK
  <2>4. /\ IsPhase(p) /\ p.step = "Scanning" /\ p.list = newest[l] /\ p.gen = j.gen
        /\ p.files = phase[l].files /\ p.data = phase[l].data
        /\ p.verdicts = [phase[l].verdicts EXCEPT ![j.index] = v]
    BY <2>2, <2>3 DEF IsPhase
  <2> HIDE DEF p, l
  <2>5. DataOK(p) /\ Whole(p, Len(p.files))
    BY <2>2, <2>3, <2>4 DEF ScanningOK, DataOK, Whole
  <2>6. DOMAIN p.verdicts = DOMAIN p.files
    BY <2>3, <2>4 DEF ScanningOK
  <2>7. ASSUME NEW i \in DOMAIN p.files, p.verdicts[i] = "Clean" PROVE Job(l, p, i) \in clean'
    <3>1. CASE i = j.index
      BY <1>1, <1>3, <2>3, <2>4, <2>7, <3>1 DEF Job, ScanningOK
    <3>2. CASE i # j.index
      BY <1>3, <2>2, <2>3, <2>4, <2>7, <3>2 DEF Job, ScanningOK
    <3> QED BY <3>1, <3>2
  <2> QED BY <2>4, <2>5, <2>6, <2>7 DEF ScanningOK
<1>8. CASE /\ ForThisFetch(j) /\ SetPhase(l, p) /\ UNCHANGED <<lists_owed, listed, shown>>
  <2>1. phase' = [phase EXCEPT ![l] = p]
    BY <1>8 DEF SetPhase
  <2>2. shown' = [shown EXCEPT ![l] = shown[l]]
    BY <1>1, <1>8 DEF PhasesOK
  <2> HIDE DEF p, l
  <2>3. PhaseOK(l, p, newest[l], shown[l], clean')
    BY <1>7, <1>8 DEF PhaseOK
  <2>4. PhasesOK'
    BY <1>1, <1>3, <1>4, <2>1, <2>2, <2>3, PhasesFrame, Zenon
  <2>5. QueuesOK'
    BY <1>3, <1>8 DEF QueuesOK
  <2> QED BY <1>2, <2>4, <2>5
<1>9. CASE /\ ForThisFetch(j) /\ \A i \in DOMAIN p.verdicts : p.verdicts[i] = "Clean"
           /\ SetPhase(l, [p EXCEPT !.step = "Offered", !.verdicts = <<>>])
           /\ SendList(l, "Proxy", p.list)
  <2> HIDE DEF p, l
  <2> DEFINE q == [p EXCEPT !.step = "Offered", !.verdicts = <<>>]
  <2>1. /\ IsPhase(q) /\ q.step = "Offered" /\ q.list = newest[l] /\ q.gen = p.gen
        /\ q.files = p.files /\ q.data = p.data
    BY <1>7, <1>9 DEF IsPhase
  <2>2. phase' = [phase EXCEPT ![l] = q] /\ shown' = [shown EXCEPT ![l] = newest[l]]
    BY <1>7, <1>9, Zenon DEF SetPhase, SendList
  <2> HIDE DEF q
  <2>3. OfferedOK(l, q, clean')
    BY <1>7, <1>9, <2>1 DEF ScanningOK, OfferedOK, DataOK, Whole, Job
  <2>4. PhaseOK(l, q, newest[l], newest[l], clean')
    BY <2>1, <2>3 DEF PhaseOK
  <2>5. PhasesOK'
    BY <1>1, <1>3, <1>4, <2>2, <2>4, PhasesFrame, Zenon
  <2>6. QueuesOK'
    BY <1>1, <1>3, <1>9, ProxyListQueues
  <2> QED BY <1>2, <2>5, <2>6
<1> QED BY <1>5, <1>6, <1>8, <1>9 DEF Scanned

(* A deadline that is not met refuses the files.                            *)
LEMMA ExpireInv == ASSUME Inv, NEW l \in Lane, Expire(l) PROVE Inv'
<1> USE DEF Inv
<1>1. newest' = [newest EXCEPT ![l] = newest[l]]
  BY DEF PhasesOK, Expire
<1>2. PhasesOK'
  BY <1>1, RefuseOK, Zenon DEF Expire
<1>3. QueuesOK'
  BY ProxyListQueues DEF Expire, Refuse
<1> QED BY <1>2, <1>3 DEF JobsOK, Expire

(* The invariant holds in every state.                                      *)
LEMMA InvAlways == Init /\ [][Next]_vars => []Inv
<1>1. Init => Inv
  BY InitInv
<1>2. Inv /\ [Next]_vars => Inv'
  <2> SUFFICES ASSUME Inv, [Next]_vars PROVE Inv'
    OBVIOUS
  <2>1. CASE UNCHANGED vars
    BY <2>1, InvKept DEF vars
  <2>2. CASE Check \/ CheckGoesStale \/ SetLimit
    BY <2>2, InvKept DEF Check, CheckGoesStale, SetLimit
  <2>3. ASSUME NEW s \in Session, StartRelay(s) PROVE Inv'
    BY <2>3, InvKept DEF StartRelay
  <2>4. ASSUME NEW s \in Session, EndRelay(s) PROVE Inv'
    BY <2>4, EndRelayInv
  <2>5. ASSUME NEW l \in Lane, FormatListPassed(l) \/ FormatListOfFiles(l) \/ FormatListResponse(l)
        PROVE  Inv'
    BY <2>5, FormatListPassedInv, FormatListOfFilesInv, FormatListResponseInv
  <2>6. ASSUME NEW l \in Lane, NEW format \in Format, DataRequest(l, format) PROVE Inv'
    BY <2>6, DataRequestInv
  <2>7. ASSUME NEW l \in Lane, DataResponse(l) PROVE Inv'
    BY <2>7, DataResponseInv
  <2>8. ASSUME NEW l \in Lane, NEW r \in ranges[l], NEW n \in 0..(RangeSize + 1),
               Contents(l, r, n)
        PROVE  Inv'
    BY <2>8, ContentsInv
  <2>9. ASSUME NEW l \in Lane, Expire(l) PROVE Inv'
    BY <2>9, ExpireInv
  <2>10. ASSUME NEW j \in jobs, NEW v \in Verdict, Scanned(j, v) PROVE Inv'
    BY <2>10, ScannedInv
  <2> QED BY <2>1, <2>2, <2>3, <2>4, <2>5, <2>6, <2>7, <2>8, <2>9, <2>10, Zenon DEF Next
<1> QED BY <1>1, <1>2, PTL

------------------------------------------------------------------------------
(* Sums, and the staging budget.                                            *)

(* The units of a sum.                                                      *)
UnitsOf(f) == UNION {{i} \X (1..f[i]) : i \in DOMAIN f}

(* A function to the naturals, with finitely many arguments.                *)
Summable(f) == IsFiniteSet(DOMAIN f) /\ \A i \in DOMAIN f : f[i] \in Nat

(* A unit is an argument and a number up to its value.                      *)
LEMMA UnitsAre ==
    ASSUME NEW f, NEW x
    PROVE  x \in UnitsOf(f) <=> \E i \in DOMAIN f : x \in {i} \X (1..f[i])
BY DEF UnitsOf

(* There are finitely many units, as many as the sum.                       *)
LEMMA SumIsNat ==
    ASSUME NEW f, Summable(f)
    PROVE  IsFiniteSet(UnitsOf(f)) /\ SumOf(f) = Cardinality(UnitsOf(f)) /\ SumOf(f) \in Nat
<1> DEFINE part == [i \in DOMAIN f |-> {i} \X (1..f[i])]
           parts == {{i} \X (1..f[i]) : i \in DOMAIN f}
<1>1. part \in Surjection(DOMAIN f, parts)
  BY Zenon DEF Surjection
<1>2. IsFiniteSet(parts)
  BY <1>1, FS_Surjection DEF Summable
<1>3. \A i \in DOMAIN f : IsFiniteSet({i} \X (1..f[i]))
  <2> TAKE i \in DOMAIN f
  <2>1. IsFiniteSet({i})
    BY FS_Singleton, Zenon
  <2>2. IsFiniteSet(1..f[i])
    BY FS_Interval DEF Summable
  <2> QED BY <2>1, <2>2, FS_Product, Zenon
<1>4. IsFiniteSet(UNION parts)
  BY <1>2, <1>3, FS_UNION, Zenon
<1>5. IsFiniteSet(UnitsOf(f)) /\ SumOf(f) = Cardinality(UnitsOf(f))
  BY <1>4 DEF UnitsOf, SumOf
<1> QED BY <1>5, FS_CardinalityType

(* A sum is the sum over a part and the sum over the rest.                  *)
LEMMA SumSplit ==
    ASSUME NEW f, Summable(f), NEW S, S \subseteq DOMAIN f,
           NEW g, g = [i \in S |-> f[i]],
           NEW h, h = [i \in DOMAIN f \ S |-> f[i]]
    PROVE  Summable(g) /\ Summable(h) /\ SumOf(f) = SumOf(g) + SumOf(h)
<1>1. IsFiniteSet(S) /\ IsFiniteSet(DOMAIN f \ S)
  BY FS_Subset DEF Summable
<1>2. DOMAIN g = S /\ DOMAIN h = DOMAIN f \ S
      /\ (\A i \in S : g[i] = f[i]) /\ (\A i \in DOMAIN f \ S : h[i] = f[i])
  OBVIOUS
<1>3. Summable(g) /\ Summable(h)
  BY <1>1, <1>2 DEF Summable
<1>4. \A x : x \in UnitsOf(f) <=> x \in UnitsOf(g) \cup UnitsOf(h)
  BY <1>2, UnitsAre
<1>5. UnitsOf(f) = UnitsOf(g) \cup UnitsOf(h)
  BY <1>4
<1>6. UnitsOf(g) \cap UnitsOf(h) = {}
  <2>1. ASSUME NEW x, x \in UnitsOf(g), x \in UnitsOf(h) PROVE FALSE
    <3>1. PICK i \in S : x \in {i} \X (1..g[i])
      BY <1>2, <2>1, UnitsAre
    <3>2. PICK j \in DOMAIN f \ S : x \in {j} \X (1..h[j])
      BY <1>2, <2>1, UnitsAre
    <3> QED BY <3>1, <3>2
  <2> QED BY <2>1
<1>7. Cardinality(UnitsOf(f)) = Cardinality(UnitsOf(g)) + Cardinality(UnitsOf(h))
  <2>1. IsFiniteSet(UnitsOf(g)) /\ IsFiniteSet(UnitsOf(h))
    BY <1>3, SumIsNat
  <2>2. Cardinality(UnitsOf(g) \cup UnitsOf(h)) =
            Cardinality(UnitsOf(g)) + Cardinality(UnitsOf(h)) - Cardinality({})
    BY <1>6, <2>1, FS_Union
  <2>3. Cardinality({}) = 0
    BY FS_EmptySet
  <2>4. Cardinality(UnitsOf(g)) \in Nat /\ Cardinality(UnitsOf(h)) \in Nat
    BY <2>1, FS_CardinalityType
  <2> QED BY <1>5, <2>2, <2>3, <2>4
<1>8. SumOf(f) = SumOf(g) + SumOf(h)
  BY <1>3, <1>7, SumIsNat
<1> QED BY <1>3, <1>8

(* The sum over one argument is its value.                                  *)
LEMMA SumOne ==
    ASSUME NEW f, NEW i, DOMAIN f = {i}, f[i] \in Nat
    PROVE  SumOf(f) = f[i]
<1>1. UnitsOf(f) = {i} \X (1..f[i])
  BY DEF UnitsOf
<1>2. IsFiniteSet({i}) /\ Cardinality({i}) = 1
  BY FS_Singleton, Zenon
<1>3. IsFiniteSet(1..f[i]) /\ Cardinality(1..f[i]) = f[i]
  BY FS_Interval
<1>4. Cardinality({i} \X (1..f[i])) = Cardinality({i}) * Cardinality(1..f[i])
  BY <1>2, <1>3, FS_Product, Zenon
<1>5. SumOf(f) = Cardinality(UnitsOf(f))
  BY Zenon DEF SumOf, UnitsOf
<1> QED BY <1>1, <1>2, <1>3, <1>4, <1>5

(* Smaller values have a smaller sum.                                       *)
LEMMA SumMonotone ==
    ASSUME NEW f, NEW g, Summable(g), DOMAIN f = DOMAIN g,
           \A i \in DOMAIN f : f[i] \in Nat /\ f[i] <= g[i]
    PROVE  SumOf(f) <= SumOf(g)
<1>1. Summable(f)
  BY DEF Summable
<1>2. ASSUME NEW x \in UnitsOf(f) PROVE x \in UnitsOf(g)
  <2>1. PICK i \in DOMAIN f : x \in {i} \X (1..f[i])
    BY UnitsAre
  <2>2. 1..f[i] \subseteq 1..g[i]
    BY DEF Summable
  <2> QED BY <2>1, <2>2, UnitsAre
<1>3. UnitsOf(f) \subseteq UnitsOf(g)
  BY <1>2
<1> QED BY <1>1, <1>3, SumIsNat, FS_Subset

(* No values, or only zeros, have the sum zero.                             *)
LEMMA SumZero ==
    ASSUME NEW f, \A i \in DOMAIN f : f[i] = 0
    PROVE  SumOf(f) = 0
<1>1. \A i \in DOMAIN f : 1..f[i] = {}
  OBVIOUS
<1>2. UnitsOf(f) = {}
  BY <1>1 DEF UnitsOf
<1> QED BY <1>2, FS_EmptySet DEF SumOf, UnitsOf

(* What an offer reserved is the listed size of its files, and one without  *)
(* files yet holds nothing.                                                 *)
StagedOK(p) ==
    /\ p.files \in Seq(File)
    /\ p.reserved = Total(p.files)
    /\ p.step \in {"Idle", "Descriptor"} => p.files = <<>> /\ p.data = <<>>

Staged ==
    /\ held = ReservedBy(Lane) /\ held <= MaxStaged
    /\ \A l \in Lane : StagedOK(phase[l])

(* The listed sizes have a sum.                                             *)
LEMMA TotalIsNat ==
    ASSUME NEW files \in Seq(File)
    PROVE  Summable(Sizes(files)) /\ Total(files) \in Nat
<1>1. \A i \in DOMAIN files : files[i].size \in Nat
  <2>1. \A i \in 1..Len(files) : files[i] \in File
    BY SeqAt
  <2> QED BY <2>1 DEF File
<1>2. IsFiniteSet(DOMAIN files)
  <2>1. DOMAIN files = 1..Len(files) /\ Len(files) \in Nat
    OBVIOUS
  <2> QED BY <2>1, FS_Interval
<1>3. Summable(Sizes(files))
  BY <1>1, <1>2 DEF Summable, Sizes
<1> QED BY <1>3, SumIsNat DEF Total

(* No files take no room.                                                   *)
LEMMA IdleStaged == StagedOK(Idle) /\ Idle.reserved = 0
<1>1. Total(<<>>) = 0
  <2>1. DOMAIN Sizes(<<>>) = {}
    BY DEF Sizes
  <2> QED BY <2>1, SumZero DEF Total
<1> QED BY <1>1 DEF StagedOK, Idle

(* Finitely many lanes reserve some room each.                              *)
LEMMA LanesSummable ==
    ASSUME \A l \in Lane : phase[l].reserved \in Nat
    PROVE  Summable([l \in Lane |-> phase[l].reserved])
<1>1. IsFiniteSet(Dir)
  <2>1. IsFiniteSet({"Upload"}) /\ IsFiniteSet({"Download"})
    BY FS_Singleton, Zenon
  <2>2. IsFiniteSet({"Upload"} \cup {"Download"})
    BY <2>1, FS_Union, Zenon
  <2>3. Dir = {"Upload"} \cup {"Download"}
    BY DEF Dir
  <2> QED BY <2>2, <2>3
<1>2. IsFiniteSet(Lane)
  BY <1>1, SessionAssumption, FS_Product DEF Lane
<1> QED BY <1>2 DEF Summable

(* The reservations are natural numbers, before and after.                  *)
LEMMA ReservedNat ==
    ASSUME NEW p, StagedOK(p) PROVE p.reserved \in Nat
BY TotalIsNat DEF StagedOK

(* A phase that replaces another takes its own reservation and gives the    *)
(* other's back.                                                            *)
LEMMA SetPhaseStaged ==
    ASSUME Staged, phase = [k \in Lane |-> phase[k]], NEW l \in Lane, NEW p,
           SetPhase(l, p), StagedOK(p),
           p.reserved <= phase[l].reserved \/ held + p.reserved <= MaxStaged
    PROVE  Staged'
<1> DEFINE f == [k \in Lane |-> phase[k].reserved]
           g == [k \in Lane |-> phase'[k].reserved]
           rest == [k \in Lane \ {l} |-> phase[k].reserved]
<1>1. \A k \in Lane : phase'[k] = IF k = l THEN p ELSE phase[k]
  BY DEF SetPhase
<1>2. \A k \in Lane : StagedOK(phase[k]) /\ StagedOK(phase'[k])
  BY <1>1 DEF Staged
<1>3. \A k \in Lane : phase[k].reserved \in Nat /\ phase'[k].reserved \in Nat
  BY <1>2, ReservedNat
<1>4. Summable(f) /\ Summable(g)
  <2>1. Summable(f)
    BY <1>3, LanesSummable
  <2> QED BY <1>3, <2>1 DEF Summable
<1>5. SumOf(f) = phase[l].reserved + SumOf(rest)
  <2> DEFINE one == [k \in {l} |-> f[k]]
  <2>1. /\ {l} \subseteq DOMAIN f /\ one = [k \in {l} |-> f[k]]
        /\ rest = [k \in DOMAIN f \ {l} |-> f[k]]
    OBVIOUS
  <2>2. SumOf(one) = phase[l].reserved
    BY <1>3, SumOne
  <2> HIDE DEF f, one, rest
  <2>3. SumOf(f) = SumOf(one) + SumOf(rest)
    BY <1>4, <2>1, SumSplit
  <2> QED BY <2>2, <2>3
<1>6. SumOf(g) = p.reserved + SumOf(rest)
  <2> DEFINE one == [k \in {l} |-> g[k]]
  <2>1. /\ {l} \subseteq DOMAIN g /\ one = [k \in {l} |-> g[k]]
        /\ rest = [k \in DOMAIN g \ {l} |-> g[k]]
    BY <1>1
  <2>2. SumOf(one) = p.reserved
    BY <1>1, <1>3, SumOne
  <2> HIDE DEF g, one, rest
  <2>3. SumOf(g) = SumOf(one) + SumOf(rest)
    BY <1>4, <2>1, SumSplit
  <2> QED BY <2>2, <2>3
<1>7. held = SumOf(f) /\ held <= MaxStaged /\ held' = held - phase[l].reserved + p.reserved
  BY DEF Staged, ReservedBy, SetPhase
<1>8. SumOf(rest) \in Nat
  <2>1. Summable(rest)
    BY <1>3, <1>4, FS_Subset DEF Summable
  <2> QED BY <2>1, SumIsNat
<1> HIDE DEF f, g, rest
<1>9. held' = SumOf(g) /\ held' <= MaxStaged
  BY <1>1, <1>3, <1>5, <1>6, <1>7, <1>8, ClipAssumption
<1> QED BY <1>2, <1>9 DEF Staged, ReservedBy, g

(* fetch_next keeps the files, and what is reserved for them.               *)
LEMMA FetchStaged ==
    ASSUME Staged, phase = [k \in Lane |-> phase[k]], NEW l \in Lane, NEW p, NEW answered,
           IsPhase(p), p.step = "Contents", p.files \in Seq(File), p.reserved = Total(p.files),
           p.reserved <= phase[l].reserved \/ held + p.reserved <= MaxStaged,
           FetchNext(l, p, answered)
    PROVE  Staged'
<1> DEFINE next == [p EXCEPT !.index = NextFile(p)]
           scan == [p EXCEPT !.step = "Scanning", !.index = 0,
                             !.verdicts = [i \in DOMAIN p.files |-> "None"]]
<1>1. StagedOK(next) /\ next.reserved = p.reserved
  BY DEF StagedOK, IsPhase
<1>2. StagedOK(scan) /\ scan.reserved = p.reserved
  BY DEF StagedOK, IsPhase
<1>3. SetPhase(l, next) \/ SetPhase(l, scan)
  BY DEF FetchNext
<1> HIDE DEF next, scan
<1> QED BY <1>1, <1>2, <1>3, SetPhaseStaged

(* A refusal gives the reservation back.                                    *)
LEMMA RefuseStaged ==
    ASSUME Staged, phase = [k \in Lane |-> phase[k]], NEW l \in Lane, SetPhase(l, Idle)
    PROVE  Staged'
<1>1. phase[l].reserved \in Nat
  BY ReservedNat DEF Staged
<1> QED BY <1>1, IdleStaged, SetPhaseStaged

(* The end of a relay gives back what its two lanes reserved.               *)
LEMMA EndRelayStaged ==
    ASSUME Staged, NEW s \in Session, EndRelay(s)
    PROVE  Staged'
<1> DEFINE f == [k \in Lane |-> phase[k].reserved]
           g == [k \in Lane |-> phase'[k].reserved]
           mine == [k \in LanesOf(s) |-> phase[k].reserved]
           rest == [k \in Lane \ LanesOf(s) |-> phase[k].reserved]
<1>1. LanesOf(s) \subseteq Lane /\ \A k \in Lane : k[1] = s <=> k \in LanesOf(s)
  BY DEF LanesOf, Lane
<1>2. \A k \in Lane : phase'[k] = IF k \in LanesOf(s) THEN Idle ELSE phase[k]
  BY <1>1 DEF EndRelay, Cleared
<1>3. \A k \in Lane : StagedOK(phase[k]) /\ StagedOK(phase'[k])
  BY <1>2, IdleStaged DEF Staged
<1>4. \A k \in Lane : phase[k].reserved \in Nat /\ phase'[k].reserved \in Nat
  BY <1>3, ReservedNat
<1>5. Summable(f) /\ Summable(g)
  <2>1. Summable(f)
    BY <1>4, LanesSummable
  <2> QED BY <1>4, <2>1 DEF Summable
<1>6. SumOf(f) = SumOf(mine) + SumOf(rest) /\ Summable(mine) /\ Summable(rest)
  <2>1. LanesOf(s) \subseteq DOMAIN f /\ mine = [k \in LanesOf(s) |-> f[k]]
        /\ rest = [k \in DOMAIN f \ LanesOf(s) |-> f[k]]
    BY <1>1
  <2> HIDE DEF f, mine, rest
  <2> QED BY <1>5, <2>1, SumSplit
<1>7. SumOf(g) = 0 + SumOf(rest)
  <2> DEFINE none == [k \in LanesOf(s) |-> g[k]]
  <2>1. LanesOf(s) \subseteq DOMAIN g /\ rest = [k \in DOMAIN g \ LanesOf(s) |-> g[k]]
    BY <1>1, <1>2
  <2>2. \A k \in LanesOf(s) : g[k] = 0
    BY <1>1, <1>2, IdleStaged
  <2>3. SumOf(none) = 0
    BY <2>2, SumZero, Zenon
  <2> HIDE DEF g, rest
  <2>4. SumOf(g) = SumOf(none) + SumOf(rest)
    BY <1>5, <2>1, SumSplit
  <2> QED BY <2>3, <2>4
<1>8. held = SumOf(f) /\ held <= MaxStaged /\ held' = held - SumOf(mine)
  BY DEF Staged, ReservedBy, EndRelay
<1>9. SumOf(mine) \in Nat /\ SumOf(rest) \in Nat
  BY <1>6, SumIsNat
<1> HIDE DEF f, g, mine, rest
<1>10. held' = SumOf(g) /\ held' <= MaxStaged
  BY <1>6, <1>7, <1>8, <1>9, ClipAssumption
<1> QED BY <1>3, <1>10 DEF Staged, ReservedBy, g

(* Every step leaves the budget as the sum of what the lanes reserved.      *)
LEMMA StagedNext == Inv /\ Staged /\ [Next]_vars => Staged'
<1> SUFFICES ASSUME Inv, Staged, [Next]_vars PROVE Staged'
  OBVIOUS
<1>0. phase = [k \in Lane |-> phase[k]] /\ \A l \in Lane : IsPhase(phase[l])
  BY DEF Inv, PhasesOK, PhaseOK
<1>1. ASSUME UNCHANGED <<held, phase>> PROVE Staged'
  BY <1>1 DEF Staged, ReservedBy
<1>2. ASSUME NEW l \in Lane, Refuse(l) PROVE Staged'
  BY <1>0, <1>2, RefuseStaged DEF Refuse
<1>3. ASSUME NEW s \in Session, EndRelay(s) PROVE Staged'
  BY <1>3, EndRelayStaged
<1>4. ASSUME NEW l \in Lane, FormatListPassed(l) \/ Expire(l) PROVE Staged'
  BY <1>0, <1>2, <1>4, RefuseStaged DEF FormatListPassed, Expire
<1>5. ASSUME NEW l \in Lane, FormatListOfFiles(l) PROVE Staged'
  <2> DEFINE p == [Idle EXCEPT !.step = "Descriptor", !.gen = generation'[l[1]],
                               !.list = newest[l] + 1]
  <2>1. Refuse(l) \/ SetPhase(l, p)
    BY <1>5 DEF FormatListOfFiles
  <2>2. StagedOK(p) /\ p.reserved = 0
    BY IdleStaged DEF StagedOK, Idle
  <2>3. phase[l].reserved \in Nat
    BY ReservedNat DEF Staged
  <2> HIDE DEF p
  <2>4. ASSUME SetPhase(l, p) PROVE Staged'
    BY <1>0, <2>2, <2>3, <2>4, SetPhaseStaged
  <2> QED BY <1>2, <2>1, <2>4
<1>6. ASSUME NEW l \in Lane, DataResponse(l) PROVE Staged'
  <2>1. ASSUME NEW files \in FileLists \cup {<<>>}, DescriptorTaken(l, files) PROVE Staged'
    <3> DEFINE p == [phase[l] EXCEPT !.step = "Contents", !.files = files, !.index = 1,
                         !.data = [i \in DOMAIN files |-> <<>>], !.reserved = Total(files)]
    <3>1. files \in Seq(File)
      <4>1. <<>> \in Seq(File)
        OBVIOUS
      <4> QED BY <4>1, ClipAssumption, Zenon
    <3>2. /\ IsPhase(p) /\ p.step = "Contents" /\ p.files = files
          /\ p.reserved = Total(files)
      BY <1>0 DEF IsPhase
    <3>3. held + Total(files) <= MaxStaged /\ FetchNext(l, p, {})
      BY <2>1 DEF DescriptorTaken, HasRoom
    <3> HIDE DEF p
    <3> QED BY <1>0, <3>1, <3>2, <3>3, FetchStaged
  <2>2. \/ UNCHANGED <<held, phase>>
        \/ Refuse(l)
        \/ \E files \in FileLists \cup {<<>>} : DescriptorTaken(l, files)
    BY <1>6 DEF DataResponse, DescriptorRefused
  <2> QED BY <1>1, <1>2, <2>1, <2>2
<1>7. ASSUME NEW l \in Lane, NEW r, NEW n \in 0..(RangeSize + 1), Contents(l, r, n)
      PROVE  Staged'
  <2> DEFINE p == phase[l]
             got == [k \in 1..n |-> <<r[1], r[2], r[3] + k - 1>>]
             q == [p EXCEPT !.data = [p.data EXCEPT ![p.index] = p.data[p.index] \o got]]
  <2>1. \/ UNCHANGED <<held, phase>>
        \/ Refuse(l)
        \/ p.step = "Contents" /\ FetchNext(l, q, {r})
    BY <1>7, Zenon DEF Contents, Expected
  <2>2. ASSUME p.step = "Contents", FetchNext(l, q, {r}) PROVE Staged'
    <3>1. /\ IsPhase(q) /\ q.step = "Contents" /\ q.files = p.files
          /\ q.reserved = p.reserved
      BY <1>0, <2>2 DEF IsPhase
    <3>2. p.files \in Seq(File) /\ p.reserved = Total(p.files) /\ p.reserved \in Nat
      BY ReservedNat DEF Staged, StagedOK
    <3> HIDE DEF q
    <3> QED BY <1>0, <2>2, <3>1, <3>2, FetchStaged
  <2> QED BY <1>1, <1>2, <2>1, <2>2
<1>8. ASSUME NEW j \in jobs, NEW v \in Verdict, Scanned(j, v) PROVE Staged'
  <2> DEFINE l == j.lane
             p == [phase[l] EXCEPT !.verdicts = [phase[l].verdicts EXCEPT ![j.index] = v]]
             q == [p EXCEPT !.step = "Offered", !.verdicts = <<>>]
  <2>1. l \in Lane
    BY DEF Inv, JobsOK
  <2>2. \/ UNCHANGED <<held, phase>>
        \/ Refuse(l)
        \/ phase[l].step = "Scanning" /\ (SetPhase(l, p) \/ SetPhase(l, q))
    BY <1>8 DEF Scanned, ForThisFetch
  <2>3. StagedOK(phase[l]) /\ phase[l].reserved \in Nat
    BY <2>1, ReservedNat DEF Staged
  <2>4. ASSUME phase[l].step = "Scanning"
        PROVE  /\ StagedOK(p) /\ p.reserved = phase[l].reserved
               /\ StagedOK(q) /\ q.reserved = phase[l].reserved
    BY <1>0, <2>1, <2>3, <2>4 DEF StagedOK, IsPhase
  <2> HIDE DEF p, q, l
  <2>5. ASSUME phase[l].step = "Scanning", SetPhase(l, p) \/ SetPhase(l, q) PROVE Staged'
    BY <1>0, <2>1, <2>3, <2>4, <2>5, SetPhaseStaged
  <2> QED BY <1>1, <1>2, <2>1, <2>2, <2>5
<1>9. ASSUME \/ UNCHANGED vars
             \/ Check \/ CheckGoesStale \/ SetLimit
             \/ \E s \in Session : StartRelay(s)
             \/ \E l \in Lane : FormatListResponse(l)
             \/ \E l \in Lane, format \in Format : DataRequest(l, format)
      PROVE  Staged'
  <2>1. UNCHANGED <<held, phase>>
    BY <1>9 DEF vars, laneVars, Check, CheckGoesStale, SetLimit, StartRelay,
                FormatListResponse, DataRequest
  <2> QED BY <1>1, <2>1
<1> QED BY <1>3, <1>4, <1>5, <1>6, <1>7, <1>8, <1>9, Zenon DEF Next

(* What is staged of an offer is no more than what it reserved.             *)
LEMMA StagedFits ==
    ASSUME Inv, Staged, NEW l \in Lane
    PROVE  SumOf([i \in DOMAIN phase[l].data |-> Len(phase[l].data[i])]) <= phase[l].reserved
<1> DEFINE p == phase[l]
           lens == [i \in DOMAIN p.data |-> Len(p.data[i])]
<1>1. PhaseOK(l, p, newest[l], shown[l], clean) /\ StagedOK(p)
  BY DEF Inv, PhasesOK, Staged
<1>2. p.reserved = Total(p.files) /\ p.reserved \in Nat /\ Summable(Sizes(p.files))
  BY <1>1, ReservedNat, TotalIsNat DEF StagedOK
<1> HIDE DEF p
<1>3. CASE p.step \in {"Idle", "Descriptor"}
  <2>1. DOMAIN lens = {}
    BY <1>1, <1>3 DEF StagedOK
  <2>2. SumOf(lens) = 0
    BY <2>1, SumZero
  <2> QED BY <1>2, <2>2 DEF p
<1>4. CASE p.step \notin {"Idle", "Descriptor"}
  <2>1. DataOK(p)
    BY <1>1, <1>4 DEF PhaseOK, ContentsOK, ScanningOK, OfferedOK
  <2>2. /\ DOMAIN lens = DOMAIN Sizes(p.files)
        /\ \A i \in DOMAIN lens : lens[i] \in Nat /\ lens[i] <= Sizes(p.files)[i]
    BY <2>1 DEF DataOK, Sizes
  <2> HIDE DEF lens
  <2>3. SumOf(lens) <= Total(p.files)
    BY <1>2, <2>2, SumMonotone DEF Total
  <2> QED BY <1>2, <2>3 DEF p, lens
<1> QED BY <1>3, <1>4

------------------------------------------------------------------------------
(* The theorems.                                                            *)

(* Files are on offer only when every file of that very offer was scanned   *)
(* clean (clip.rs scanned).                                                 *)
THEOREM OnlyCleanIsOffered == Spec => []OfferedIsClean
<1>1. Inv => OfferedIsClean
  BY DEF Inv, PhasesOK, PhaseOK, OfferedOK, Job, OfferedIsClean
<1> QED BY <1>1, InvAlways, PTL DEF Spec

(* Once the sender's newest clipboard is decided, the receiver has it or an *)
(* empty one (clip.rs clear_receiver, scanned, format_list).                *)
THEOREM NoOldListIsLeft == Spec => []ReceiverSeesNewest
<1>1. Inv => ReceiverSeesNewest
  BY DEF Inv, PhasesOK, PhaseOK, ReceiverSeesNewest
<1> QED BY <1>1, InvAlways, PTL DEF Spec

(* Every answer goes to who asked (clip.rs data_owed, lists_owed).          *)
THEOREM AnswersReachTheirOwners == Spec => []AnswersGoHome
<1>1. Inv => AnswersGoHome
  BY Zenon DEF Inv, QueuesOK, QueueOK, Owners, Receivers, AnswersGoHome
<1> QED BY <1>1, InvAlways, PTL DEF Spec

(* What is served is what the sender sent for that file of that offer       *)
(* (clip.rs contents, fetch_next, contents_request).                        *)
THEOREM TheSendersBytesAreServed == Spec => []ServedIsTheSenders
<1>1. Inv => ServedIsTheSenders
  <2> SUFFICES ASSUME Inv, NEW l \in Lane, phase[l].step = "Offered",
                      NEW i \in DOMAIN phase[l].files, NEW at \in 0..2, NEW n \in 0..2
               PROVE  LET size == phase[l].files[i].size
                          end == IF at + n < size THEN at + n ELSE size
                      IN  Served(l, i, at, n) =
                              [k \in 1..(IF end < at THEN 0 ELSE end - at) |->
                                  <<phase[l].gen, i, at + k - 1>>]
    BY Zenon DEF ServedIsTheSenders
  <2> DEFINE p == phase[l]
             size == p.files[i].size
             end == IF at + n < size THEN at + n ELSE size
  <2>1. OfferedOK(l, p, clean)
    BY DEF Inv, PhasesOK, PhaseOK
  <2>2. /\ p.files \in Seq(File) /\ i \in DOMAIN p.data /\ i \in 1..Len(p.files)
        /\ p.data[i] = Units(p.gen, i, Len(p.data[i])) /\ Len(p.data[i]) = size
    BY <2>1 DEF OfferedOK, DataOK, Whole
  <2>3. size \in Nat
    <3>1. p.files[i] \in File
      BY <2>2, SeqAt
    <3> QED BY <3>1 DEF File
  <2>4. Served(l, i, at, n) =
            SubSeq(p.data[i], at + 1, IF at + n < Len(p.data[i]) THEN at + n ELSE Len(p.data[i]))
    BY <2>2, Zenon DEF Served
  <2> HIDE DEF size, p
  <2>5. Served(l, i, at, n) = SubSeq(Units(p.gen, i, size), at + 1, end)
    BY <2>2, <2>4, Zenon
  <2>6. end \in Nat /\ end <= size /\ at \in Nat
    BY <2>3
  <2> HIDE DEF end
  <2>7. SubSeq(Units(p.gen, i, size), at + 1, end) =
            UnitsAfter(p.gen, i, at, IF end < at THEN 0 ELSE end - at)
    BY <2>3, <2>6, UnitsPart, Zenon
  <2> QED BY <2>5, <2>7, Zenon DEF end, size, p, UnitsAfter
<1> QED BY <1>1, InvAlways, PTL DEF Spec

(* The shared budget is the sum of what the offers in progress reserved,    *)
(* stays within its maximum and covers every byte they hold, whichever way  *)
(* offers and sessions end (clip.rs Staging, Reservation).                  *)
THEOREM TheBudgetIsKept == Spec => []StagingAccounts
<1>1. Init => Staged
  <2> SUFFICES ASSUME Init PROVE Staged
    OBVIOUS
  <2>1. \A l \in Lane : phase[l] = Idle
    BY DEF Init
  <2>2. \A l \in Lane : StagedOK(phase[l]) /\ phase[l].reserved = 0
    BY <2>1, IdleStaged
  <2>3. ReservedBy(Lane) = 0
    BY <2>2, SumZero DEF ReservedBy
  <2> QED BY <2>2, <2>3, ClipAssumption DEF Staged, Init
<1>2. Inv /\ Staged => StagingAccounts
  BY StagedFits DEF Staged, StagingAccounts
<1> QED BY <1>1, <1>2, InvAlways, StagedNext, PTL DEF Spec
==============================================================================
