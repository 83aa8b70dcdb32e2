-------------------------------- MODULE Clip --------------------------------
(****************************************************************************)
(* The store-and-forward of clipboard files (scan/clip.rs), in the session  *)
(* that relays it (proxy.rs relay_scanned), with the scanner's standing     *)
(* (scan/mod.rs, server.rs scan_checks) and the staging budget every        *)
(* session shares.                                                          *)
(*                                                                          *)
(* A lane is one direction of one session: a sender, a receiver and the     *)
(* Direction between them.  One step is one PDU, verdict or deadline that   *)
(* the session's clip task handles, with everything it writes in answer.    *)
(* The sender answers Format Data Requests in order and contents requests   *)
(* in any order and as late as it likes; the receiver answers Format Lists  *)
(* in order and has one Format Data Request open at a time.  A stream id is *)
(* minted once, so it is named by the range it was minted for.              *)
(****************************************************************************)
EXTENDS Integers, Sequences, FiniteSets

CONSTANTS
    Session,      \* sessions relayed at the same time
    FileLists,    \* the file lists senders answer with
    Limits,       \* the Settings tab's per-file limits, NoLimit among them
    NoLimit,
    RangeSize,    \* bytes of one contents request (RANGE)
    MaxStaged,    \* the staging budget (Staging.max)
    MaxLists      \* bound on the Format Lists of the open sessions

Dir == {"Upload", "Download"}
Lane == Session \X Dir
Owner == {"Receiver", "Proxy"}
Verdict == {"Clean", "Detected", "Unavailable"}
Format == {"files", "other"}

VARIABLES
    open,         \* the sessions with a relay
    limit,        \* the stored per-file limit
    cap,          \* the limit each relay read when it started
    healthy,      \* whether ScanService.healthy answers Ok
    held,         \* Staging.held
    generation,   \* Clip.generation, of each session
    phase,        \* Direction.phase
    data_owed,    \* Direction.data_owed
    lists_owed,   \* Direction.lists_owed
    jobs,         \* scans whose verdict the clip task has not handled
    clean,        \* history: the files scanned clean, by lane, generation and index
    newest,       \* the sender's Format Lists so far
    asked,        \* Format Data Requests the sender has not answered
    ranges,       \* contents requests the sender has not answered
    unanswered,   \* the sender's Format Lists that have no response
    listed,       \* Format Lists the receiver has not answered, by who sent them
    shown         \* the Format List the receiver has: the sender's by number, or 0 for empty

laneVars == <<phase, data_owed, lists_owed>>
endpointVars == <<newest, asked, ranges, unanswered, listed, shown>>
vars == <<open, limit, cap, healthy, held, generation, laneVars, jobs, clean, endpointVars>>

(* A file of a list: its size, and whether it can be transferred at all.    *)
File == [size : Nat, folder : BOOLEAN, sized : BOOLEAN]

ASSUME ClipAssumption ==
    /\ RangeSize \in Nat \ {0} /\ MaxStaged \in Nat /\ MaxLists \in Nat
    /\ NoLimit \in Limits /\ Limits \ {NoLimit} \subseteq Nat
    /\ FileLists \subseteq Seq(File)

(* Finitely many sessions are relayed at once.                              *)
ASSUME SessionAssumption == IsFiniteSet(Session)

(* Phase with Step.  data[i] holds the units of file i, each named by the   *)
(* generation, file and position it was asked for.                          *)
Phase == [step : {"Idle", "Descriptor", "Contents", "Scanning", "Offered"},
          gen : Nat, list : Nat, files : Seq(File), data : Seq(Seq(Nat \X Nat \X Nat)),
          index : Nat, verdicts : Seq(Verdict \cup {"None"}), reserved : Nat]
Idle == [step |-> "Idle", gen |-> 0, list |-> 0, files |-> <<>>, data |-> <<>>,
         index |-> 0, verdicts |-> <<>>, reserved |-> 0]
Fetching(p) == p.step \in {"Descriptor", "Contents", "Scanning"}

TypeOK ==
    /\ open \subseteq Session
    /\ limit \in Limits
    /\ cap \in [Session -> Limits]
    /\ healthy \in BOOLEAN
    /\ held \in Nat
    /\ generation \in [Session -> Nat]
    /\ phase \in [Lane -> Phase]
    /\ data_owed \in [Lane -> Seq(Owner)]
    /\ lists_owed \in [Lane -> Seq(Owner)]
    /\ jobs \subseteq [lane : Lane, gen : Nat, index : Nat]
    /\ clean \subseteq [lane : Lane, gen : Nat, index : Nat]
    /\ newest \in [Lane -> 0..MaxLists]
    /\ asked \in [Lane -> Seq([owner : Owner, format : Format])]
    /\ ranges \in [Lane -> SUBSET (Nat \X Nat \X Nat)]
    /\ unanswered \in [Lane -> Nat]
    /\ listed \in [Lane -> Seq(Owner)]
    /\ shown \in [Lane -> 0..MaxLists]

Init ==
    /\ open = {}
    /\ limit \in Limits
    /\ cap = [s \in Session |-> limit]
    /\ healthy = FALSE
    /\ held = 0
    /\ generation = [s \in Session |-> 0]
    /\ phase = [l \in Lane |-> Idle]
    /\ data_owed = [l \in Lane |-> <<>>]
    /\ lists_owed = [l \in Lane |-> <<>>]
    /\ jobs = {} /\ clean = {}
    /\ newest = [l \in Lane |-> 0]
    /\ asked = [l \in Lane |-> <<>>]
    /\ ranges = [l \in Lane |-> {}]
    /\ unanswered = [l \in Lane |-> 0]
    /\ listed = [l \in Lane |-> <<>>]
    /\ shown = [l \in Lane |-> 0]

------------------------------------------------------------------------------
(* The scanner's standing, the settings, and the relay's start and end.     *)

(* A check of the scanner ends (ScanService::check, scanner::check): EICAR  *)
(* detected and the harmless file clean, or anything else, an error and the *)
(* timeout included.                                                        *)
Check ==
    /\ healthy' \in BOOLEAN
    /\ UNCHANGED <<open, limit, cap, held, generation, laneVars, jobs, clean, endpointVars>>

(* No check for two intervals and ten minutes (ScanService::healthy).       *)
CheckGoesStale ==
    /\ healthy
    /\ healthy' = FALSE
    /\ UNCHANGED <<open, limit, cap, held, generation, laneVars, jobs, clean, endpointVars>>

SetLimit ==
    /\ limit' \in Limits \ {limit}
    /\ UNCHANGED <<open, cap, healthy, held, generation, laneVars, jobs, clean, endpointVars>>

(* The sum of a function's values: so many units of each argument.          *)
SumOf(f) == Cardinality(UNION {{i} \X (1..f[i]) : i \in DOMAIN f})

ReservedBy(ls) == SumOf([l \in ls |-> phase[l].reserved])

LanesOf(s) == {s} \X Dir
Cleared(f, s, v) == [l \in Lane |-> IF l[1] = s THEN v ELSE f[l]]

(* relay_scanned makes its Clip, with the limit as it is stored now.        *)
StartRelay(s) ==
    /\ s \notin open
    /\ open' = open \cup {s}
    /\ cap' = [cap EXCEPT ![s] = limit]
    /\ UNCHANGED <<limit, healthy, held, generation, laneVars, jobs, clean, endpointVars>>

(* Either side closes, a PDU is out of step, or the session is ended: the   *)
(* whole of relay_scanned is dropped, and with the Clip its reservations.   *)
(* Scans still running find their channel closed.                           *)
EndRelay(s) ==
    /\ s \in open
    /\ open' = open \ {s}
    /\ held' = held - ReservedBy(LanesOf(s))
    /\ generation' = [generation EXCEPT ![s] = 0]
    /\ phase' = Cleared(phase, s, Idle)
    /\ data_owed' = Cleared(data_owed, s, <<>>)
    /\ lists_owed' = Cleared(lists_owed, s, <<>>)
    /\ jobs' = {j \in jobs : j.lane[1] # s}
    /\ clean' = {c \in clean : c.lane[1] # s}
    /\ newest' = Cleared(newest, s, 0)
    /\ asked' = Cleared(asked, s, <<>>)
    /\ ranges' = Cleared(ranges, s, {})
    /\ unanswered' = Cleared(unanswered, s, 0)
    /\ listed' = Cleared(listed, s, <<>>)
    /\ shown' = Cleared(shown, s, 0)
    /\ UNCHANGED <<limit, cap, healthy>>

------------------------------------------------------------------------------
(* Writing.  A phase that is replaced drops its reservation.                *)

SetPhase(l, p) ==
    /\ phase' = [phase EXCEPT ![l] = p]
    /\ held' = held - phase[l].reserved + p.reserved

(* A Format List goes to the receiver, who answers it to its owner.         *)
SendList(l, owner, list) ==
    /\ lists_owed' = [lists_owed EXCEPT ![l] = Append(@, owner)]
    /\ listed' = [listed EXCEPT ![l] = Append(@, owner)]
    /\ shown' = [shown EXCEPT ![l] = list]

(* Faulty: who asked is not noted.                                          *)
AskSenderUnrecorded(l, owner, format) ==
    /\ asked' = [asked EXCEPT ![l] = Append(@, [owner |-> owner, format |-> format])]
    /\ UNCHANGED data_owed

(* A Format Data Request goes to the sender, who owes its owner an answer.  *)
AskSender(l, owner, format) ==
    /\ data_owed' = [data_owed EXCEPT ![l] = Append(@, owner)]
    /\ asked' = [asked EXCEPT ![l] = Append(@, [owner |-> owner, format |-> format])]

(* Faulty: the receiver is left with the list it had.                       *)
RefuseSilently(l) ==
    /\ SetPhase(l, Idle)
    /\ UNCHANGED <<lists_owed, listed, shown>>

(* clear_receiver, after the report: what was in progress is dropped and    *)
(* the receiver is sent an empty list.                                      *)
Refuse(l) ==
    /\ SetPhase(l, Idle)
    /\ SendList(l, "Proxy", 0)

------------------------------------------------------------------------------
(* Format Lists.                                                            *)

ListsSent == SumOf(newest)

(* The sender's clipboard has changed: a list without files, or one that    *)
(* cannot be read under the agreed format names, is passed on.              *)
FormatListPassed(l) ==
    /\ l[1] \in open /\ ListsSent < MaxLists
    /\ newest' = [newest EXCEPT ![l] = @ + 1]
    /\ unanswered' = [unanswered EXCEPT ![l] = @ + 1]
    /\ SetPhase(l, Idle)
    /\ SendList(l, "Receiver", newest[l] + 1)
    /\ UNCHANGED <<open, limit, cap, healthy, generation, data_owed, jobs, clean, asked, ranges>>

(* Files, which the proxy answers for: refused at once while the scanner    *)
(* has not proved itself, or fetched under a new generation.                *)
FormatListOfFiles(l) ==
    /\ l[1] \in open /\ ListsSent < MaxLists
    /\ newest' = [newest EXCEPT ![l] = @ + 1]
    /\ \/ /\ ~healthy
          /\ Refuse(l)
          /\ UNCHANGED <<generation, data_owed, asked>>
       \/ /\ healthy
          /\ generation' = [generation EXCEPT ![l[1]] = @ + 1]
          /\ SetPhase(l, [Idle EXCEPT !.step = "Descriptor", !.gen = generation'[l[1]],
                                      !.list = newest[l] + 1])
          /\ AskSender(l, "Proxy", "files")
          /\ UNCHANGED <<lists_owed, listed, shown>>
    /\ UNCHANGED <<open, limit, cap, healthy, jobs, clean, ranges, unanswered>>

(* The receiver answers the oldest list it has; only the sender's own is    *)
(* passed on.                                                               *)
FormatListResponse(l) ==
    /\ listed[l] # <<>>
    /\ listed' = [listed EXCEPT ![l] = Tail(@)]
    /\ lists_owed' = [lists_owed EXCEPT ![l] = IF @ = <<>> THEN @ ELSE Tail(@)]
    /\ unanswered' = [unanswered EXCEPT ![l] =
           IF lists_owed[l] # <<>> /\ Head(lists_owed[l]) = "Proxy" THEN @ ELSE @ - 1]
    /\ UNCHANGED <<open, limit, cap, healthy, held, generation, phase, data_owed, jobs, clean,
                   newest, asked, ranges, shown>>

------------------------------------------------------------------------------
(* Format data.                                                             *)

(* data_request: the proxy answers from its offer, or with an error while   *)
(* it fetches; every other request goes to the sender.                      *)
AnsweredHere(l, format) ==
    \/ phase[l].step = "Offered" /\ format = "files"
    \/ Fetching(phase[l])

DataRequest(l, format) ==
    /\ l[1] \in open
    /\ \A i \in DOMAIN asked[l] : asked[l][i].owner = "Proxy"
    /\ ~AnsweredHere(l, format)
    /\ AskSender(l, "Receiver", format)
    /\ UNCHANGED <<open, limit, cap, healthy, held, generation, phase, lists_owed, jobs, clean,
                   newest, ranges, unanswered, listed, shown>>

Sizes(files) == [i \in DOMAIN files |-> files[i].size]
Total(files) == SumOf(Sizes(files))

(* What a file list is refused for before anything is reserved.             *)
Refusable(files, max) ==
    \/ files = <<>>
    \/ \E i \in DOMAIN files :
          \/ files[i].folder \/ ~files[i].sized
          \/ max # NoLimit /\ files[i].size > max

(* Faulty: the budget is looked at before the bytes are added.              *)
HasRoomUnlessFull(bytes) == held <= MaxStaged

(* Staging::reserve.                                                        *)
HasRoom(bytes) == held + bytes <= MaxStaged

(* The first file, from index on, that still lacks bytes.                   *)
NextFile(p) ==
    LET lacking == {i \in p.index..Len(p.files) : Len(p.data[i]) < p.files[i].size}
    IN  IF lacking = {} THEN Len(p.files) + 1
        ELSE CHOOSE i \in lacking : \A k \in lacking : i <= k

Stream(p) == <<p.gen, p.index, Len(p.data[p.index])>>

(* fetch_next: the next range, or the scans once every byte is in.          *)
FetchNext(l, p, answered) ==
    LET next == [p EXCEPT !.index = NextFile(p)]
        scan == [p EXCEPT !.step = "Scanning", !.index = 0,
                          !.verdicts = [i \in DOMAIN p.files |-> "None"]]
    IN  \/ /\ next.index <= Len(p.files)
           /\ SetPhase(l, next)
           /\ ranges' = [ranges EXCEPT ![l] = (@ \ answered) \cup {Stream(next)}]
           /\ UNCHANGED jobs
        \/ /\ next.index > Len(p.files)
           /\ SetPhase(l, scan)
           /\ ranges' = [ranges EXCEPT ![l] = @ \ answered]
           /\ jobs' = jobs \cup [lane : {l}, gen : {p.gen}, index : DOMAIN p.files]

(* descriptor, for the answer to the proxy's own request.  An error, a list *)
(* that cannot be read and an empty list are refused alike.                 *)
DescriptorRefused(l, files) ==
    /\ Refusable(files, cap[l[1]]) \/ ~HasRoom(Total(files))
    /\ Refuse(l)
    /\ UNCHANGED <<ranges, jobs>>

DescriptorTaken(l, files) ==
    /\ ~Refusable(files, cap[l[1]])
    /\ HasRoom(Total(files))
    /\ FetchNext(l, [phase[l] EXCEPT !.step = "Contents", !.files = files, !.index = 1,
                         !.data = [i \in DOMAIN files |-> <<>>], !.reserved = Total(files)], {})
    /\ UNCHANGED <<lists_owed, listed, shown>>

ForProxy(l) == data_owed[l] # <<>> /\ Head(data_owed[l]) = "Proxy"

(* The sender answers the oldest request: to the receiver, whose answer is  *)
(* passed on; to a fetch that is past or gone, where it is dropped; or to   *)
(* the fetch that waits for it.                                             *)
DataResponse(l) ==
    /\ asked[l] # <<>>
    /\ asked' = [asked EXCEPT ![l] = Tail(@)]
    /\ data_owed' = [data_owed EXCEPT ![l] = IF @ = <<>> THEN @ ELSE Tail(@)]
    /\ \/ /\ ~(ForProxy(l) /\ phase[l].step = "Descriptor")
          /\ UNCHANGED <<held, phase, ranges, jobs, lists_owed, listed, shown>>
       \/ /\ ForProxy(l) /\ phase[l].step = "Descriptor"
          /\ \E files \in FileLists \cup {<<>>} :
                DescriptorRefused(l, files) \/ DescriptorTaken(l, files)
    /\ UNCHANGED <<open, limit, cap, healthy, generation, clean, newest, unanswered>>

------------------------------------------------------------------------------
(* File contents and verdicts.                                              *)

(* Faulty: an answer of any stream is taken.                                *)
ExpectedAnyStream(l, r) == phase[l].step = "Contents"

(* The answer is for the range the fetch waits for.                         *)
Expected(l, r) == phase[l].step = "Contents" /\ r = Stream(phase[l])

(* contents: n bytes for the range r.  None (an error, or an empty answer)  *)
(* or too many refuse the offer; an answer to another stream is dropped.    *)
Contents(l, r, n) ==
    LET p == phase[l]
        room == p.files[p.index].size - Len(p.data[p.index])
        got == [k \in 1..n |-> <<r[1], r[2], r[3] + k - 1>>]
    IN
    /\ r \in ranges[l]
    /\ \/ /\ ~Expected(l, r)
          /\ ranges' = [ranges EXCEPT ![l] = @ \ {r}]
          /\ UNCHANGED <<held, phase, jobs, lists_owed, listed, shown>>
       \/ /\ Expected(l, r)
          /\ n = 0 \/ n > room \/ n > RangeSize
          /\ Refuse(l)
          /\ ranges' = [ranges EXCEPT ![l] = @ \ {r}]
          /\ UNCHANGED jobs
       \/ /\ Expected(l, r)
          /\ n > 0 /\ n <= room /\ n <= RangeSize
          /\ FetchNext(l, [p EXCEPT !.data = [@ EXCEPT ![p.index] = p.data[p.index] \o got]], {r})
          /\ UNCHANGED <<lists_owed, listed, shown>>
    /\ UNCHANGED <<open, limit, cap, healthy, generation, data_owed, clean, newest, asked,
                   unanswered>>

(* Faulty: a verdict counts for whatever fetch is being scanned.            *)
ForThisFetchAnyGeneration(j) == phase[j.lane].step = "Scanning"

(* The verdict of job j is for the fetch that started it.                   *)
ForThisFetch(j) ==
    /\ phase[j.lane].step = "Scanning"
    /\ phase[j.lane].gen = j.gen

(* scanned: the last verdict decides the offer.                             *)
Scanned(j, v) ==
    LET l == j.lane
        p == [phase[l] EXCEPT !.verdicts = [@ EXCEPT ![j.index] = v]]
    IN
    /\ j \in jobs
    /\ jobs' = jobs \ {j}
    /\ clean' = IF v = "Clean" THEN clean \cup {j} ELSE clean
    /\ \/ /\ ~ForThisFetch(j)
          /\ UNCHANGED <<held, phase, lists_owed, listed, shown>>
       \/ /\ ForThisFetch(j)
          /\ \E i \in DOMAIN p.verdicts : p.verdicts[i] = "None"
          /\ SetPhase(l, p)
          /\ UNCHANGED <<lists_owed, listed, shown>>
       \/ /\ ForThisFetch(j)
          /\ \A i \in DOMAIN p.verdicts : p.verdicts[i] # "None"
          /\ \E i \in DOMAIN p.verdicts : p.verdicts[i] # "Clean"
          /\ Refuse(l)
       \/ /\ ForThisFetch(j)
          /\ \A i \in DOMAIN p.verdicts : p.verdicts[i] = "Clean"
          /\ SetPhase(l, [p EXCEPT !.step = "Offered", !.verdicts = <<>>])
          /\ SendList(l, "Proxy", p.list)
    /\ UNCHANGED <<open, limit, cap, healthy, generation, data_owed, newest, asked, ranges,
                   unanswered>>

(* Faulty: only the sender's answers have a deadline.                       *)
ExpireAnswers(l) ==
    /\ phase[l].step \in {"Descriptor", "Contents"}
    /\ Refuse(l)
    /\ UNCHANGED <<open, limit, cap, healthy, generation, data_owed, jobs, clean, newest,
                   asked, ranges, unanswered>>

(* expire_at: no answer and no verdict by the deadline.                     *)
Expire(l) ==
    /\ Fetching(phase[l])
    /\ Refuse(l)
    /\ UNCHANGED <<open, limit, cap, healthy, generation, data_owed, jobs, clean, newest,
                   asked, ranges, unanswered>>

(* contents_request: the bytes the receiver gets for n bytes of file i from *)
(* position at; an error unless files are on offer.                         *)
Served(l, i, at, n) ==
    IF phase[l].step # "Offered" \/ i \notin DOMAIN phase[l].data THEN "error"
    ELSE LET file == phase[l].data[i]
         IN  SubSeq(file, at + 1, IF at + n < Len(file) THEN at + n ELSE Len(file))

Next ==
    \/ Check \/ CheckGoesStale \/ SetLimit
    \/ \E s \in Session : StartRelay(s) \/ EndRelay(s)
    \/ \E l \in Lane :
          \/ FormatListPassed(l) \/ FormatListOfFiles(l) \/ FormatListResponse(l)
          \/ \E format \in Format : DataRequest(l, format)
          \/ DataResponse(l)
          \/ \E r \in ranges[l], n \in 0..(RangeSize + 1) : Contents(l, r, n)
          \/ Expire(l)
    \/ \E j \in jobs, v \in Verdict : Scanned(j, v)

(* The clip task sleeps until the earliest deadline, and only progress      *)
(* moves a deadline: one that is not met ends in expire.                    *)
Spec == Init /\ [][Next]_vars /\ \A l \in Lane : WF_vars(Expire(l))

------------------------------------------------------------------------------
(* Properties.                                                              *)

(* A file is on offer only when the scanner called every file of that very  *)
(* offer clean: no verdict of an earlier fetch, and none that is missing,   *)
(* counts (clip.rs scanned).                                                *)
OfferedIsClean ==
    \A l \in Lane : phase[l].step = "Offered" =>
        \A i \in DOMAIN phase[l].files : [lane |-> l, gen |-> phase[l].gen, index |-> i] \in clean

(* What the receiver is served of an offered file is the sender's answer to *)
(* the proxy's requests for that file of that offer, in order, without a    *)
(* gap and cut at the listed size, whatever late answers came in between    *)
(* (clip.rs contents, fetch_next, contents_request).                        *)
ServedIsTheSenders ==
    \A l \in Lane : phase[l].step = "Offered" =>
        \A i \in DOMAIN phase[l].files : \A at, n \in 0..2 :
            LET size == phase[l].files[i].size
                end == IF at + n < size THEN at + n ELSE size
            IN  Served(l, i, at, n) =
                    [k \in 1..(IF end < at THEN 0 ELSE end - at) |->
                        <<phase[l].gen, i, at + k - 1>>]

(* The shared budget counts what the offers in progress reserved, never     *)
(* goes past its maximum, and covers every byte they hold, whichever way an *)
(* offer ended (clip.rs Staging, Reservation).                              *)
StagingAccounts ==
    /\ held = ReservedBy(Lane)
    /\ held <= MaxStaged
    /\ \A l \in Lane :
          SumOf([i \in DOMAIN phase[l].data |-> Len(phase[l].data[i])]) <= phase[l].reserved

(* The receiver never keeps a clipboard the sender has replaced once the    *)
(* new one is decided: it then has the sender's newest list, or an empty    *)
(* one, and while files are offered it has the list that offers them        *)
(* (clip.rs clear_receiver, scanned, format_list).                          *)
ReceiverSeesNewest ==
    \A l \in Lane :
        /\ phase[l].step = "Idle" => shown[l] \in {0, newest[l]}
        /\ phase[l].step = "Offered" => shown[l] = newest[l] /\ phase[l].list = newest[l]

(* With endpoints that answer in order, every answer goes to who asked: the *)
(* queues of owed answers are those of the endpoints, and the sender waits  *)
(* for a response exactly for the lists the receiver has still to answer    *)
(* (clip.rs data_owed, lists_owed).                                         *)
AnswersGoHome ==
    \A l \in Lane :
        /\ data_owed[l] = [i \in DOMAIN asked[l] |-> asked[l][i].owner]
        /\ lists_owed[l] = listed[l]
        /\ unanswered[l] = Cardinality({i \in DOMAIN listed[l] : listed[l][i] = "Receiver"})

(* An offer is decided or given up, whatever the sender and the scanner do: *)
(* no fetch goes on for ever (clip.rs deadline, expire_at).                 *)
OfferDecided ==
    \A l \in Lane : \A g \in 1..MaxLists :
        (Fetching(phase[l]) /\ phase[l].gen = g) ~> ~(Fetching(phase[l]) /\ phase[l].gen = g)

=============================================================================
