-------------------------------- MODULE Framing --------------------------------
(****************************************************************************)
(* Cutting one direction of the relayed stream into whole units             *)
(* (scan/framing.rs), whatever pieces the stream arrives in.  The peer      *)
(* sends units in the order the protocol has them: CredSSP messages, the    *)
(* Early User Authorization Result where it applies, then TPKT and, after   *)
(* the first of them, fast-path.  Bytes are numbers; what is not a tag or a *)
(* length is 0.                                                             *)
(****************************************************************************)
EXTENDS Integers, Sequences, SequencesExt

CONSTANTS
    FromServer, HybridEx,   \* Framer.from_server and hybrid_ex
    MAX_UNIT,               \* the largest unit taken
    MaxUnits,               \* bound on the units sent
    MaxBytes                \* bound on the bytes sent

VARIABLES
    sent,        \* the units the peer sent
    arrived,     \* how many of their bytes have arrived
    buf,         \* Framer.buf
    mcs,         \* Framer.mcs
    euarSeen,    \* Framer.euar_seen
    cut,         \* the units the framer returned
    broken       \* whether it refused the stream

vars == <<sent, arrived, buf, mcs, euarSeen, cut, broken>>

Opaque(bytes) == [kind |-> "Opaque", bytes |-> bytes]
Tpkt(bytes) == [kind |-> "Tpkt", bytes |-> bytes]
FastPath(bytes) == [kind |-> "FastPath", bytes |-> bytes]

(* DER with a short and a long length; the result, granted or refused; TPKT *)
(* with and without a body; fast-path, one starting like DER and one with a *)
(* two-octet length.                                                        *)
Der == {<<48, 0>>, <<48, 1, 0>>, <<48, 129, 1, 3>>, <<48, 130, 0, 1, 48>>}
Euar == {<<0, 0, 0, 0>>, <<5, 0, 0, 0>>}
Slow == {<<3, 0, 0, 5, 0>>, <<3, 0, 0, 4>>}
Fast == {<<0, 3, 48>>, <<48, 2>>, <<4, 128, 4, 3>>}

Bytes(units) == FlattenSeq([i \in DOMAIN units |-> units[i].bytes])

Kinds(units) == {units[i].kind : i \in DOMAIN units}
HasEuar == \E i \in DOMAIN sent : sent[i].bytes \in Euar

Init ==
    /\ sent = <<>> /\ arrived = 0
    /\ buf = <<>> /\ mcs = FALSE /\ euarSeen = FALSE
    /\ cut = <<>> /\ broken = FALSE

Send(unit) ==
    /\ Len(sent) < MaxUnits /\ Len(Bytes(sent)) + Len(unit.bytes) <= MaxBytes
    /\ sent' = Append(sent, unit)
    /\ UNCHANGED <<arrived, buf, mcs, euarSeen, cut, broken>>

SendCredSsp ==
    /\ "Tpkt" \notin Kinds(sent) /\ ~HasEuar
    /\ \E b \in Der : Send(Opaque(b))

SendEuar ==
    /\ FromServer /\ HybridEx /\ "Tpkt" \notin Kinds(sent) /\ ~HasEuar
    /\ \E b \in Euar : Send(Opaque(b))

SendSlow ==
    /\ (FromServer /\ HybridEx) => HasEuar
    /\ \E b \in Slow : Send(Tpkt(b))

SendFast ==
    /\ "Tpkt" \in Kinds(sent)
    /\ \E b \in Fast : Send(FastPath(b))

------------------------------------------------------------------------------
(* What a look at the front of the buffer gives: not enough yet, a unit's   *)
(* length and kind, or a stream out of step.                                *)
More == [length |-> -1, kind |-> "more"]
OutOfStep == [length |-> 0, kind |-> "error"]
Found(n, kind) == [length |-> n, kind |-> kind]

(* Faulty: every length is taken to be one octet.                           *)
DerLengthShort(b) == IF Len(b) < 2 THEN More ELSE Found(2 + b[2], "Opaque")

(* der_length.                                                              *)
DerLength(b) ==
    IF Len(b) < 2 THEN More
    ELSE IF b[2] < 128 THEN Found(2 + b[2], "Opaque")
    ELSE LET n == b[2] - 128
         IN IF n = 0 \/ n > 4 THEN OutOfStep
            ELSE IF Len(b) < 2 + n THEN More
            ELSE Found(2 + n + FoldLeft(LAMBDA acc, x : acc * 256 + x, 0, SubSeq(b, 3, 2 + n)),
                       "Opaque")

(* find_size of the RDP library: TPKT by its version, fast-path otherwise.  *)
FindSize(b) ==
    IF b[1] = 3 THEN IF Len(b) < 4 THEN More ELSE Found(b[3] * 256 + b[4], "Tpkt")
    ELSE IF Len(b) < 2 THEN More
    ELSE IF b[2] < 128 THEN Found(b[2], "FastPath")
    ELSE IF Len(b) < 3 THEN More ELSE Found((b[2] - 128) * 256 + b[3], "FastPath")

(* next_unit's choice, and its checks.  s holds the framer's own state.     *)
ExpectsEuar(s) == ~s.mcs /\ FromServer /\ HybridEx /\ ~s.euarSeen

Look(s) ==
    LET first == s.buf[1]
        found == IF ~s.mcs /\ first = 48 THEN DerLength(s.buf)
                 ELSE IF ExpectsEuar(s) /\ first # 3 THEN Found(4, "Opaque")
                 ELSE FindSize(s.buf)
    IN IF found.kind = "FastPath" /\ ~s.mcs THEN OutOfStep
       ELSE IF found.kind # "more" /\ (found.length = 0 \/ found.length > MAX_UNIT) THEN OutOfStep
       ELSE IF found.length > Len(s.buf) THEN More
       ELSE found

(* One turn of push's loop: the unit leaves, and only then the state moves. *)
Turn(s) ==
    LET found == Look(s)
        unit == [kind |-> found.kind, bytes |-> SubSeq(s.buf, 1, found.length)]
    IN IF found.kind = "error" THEN [s EXCEPT !.broken = TRUE]
       ELSE [buf |-> SubSeq(s.buf, found.length + 1, Len(s.buf)),
             mcs |-> s.mcs \/ unit.kind = "Tpkt",
             euarSeen |-> s.euarSeen \/ (unit.kind = "Opaque" /\ ExpectsEuar(s) /\ unit.bytes[1] # 48),
             cut |-> Append(s.cut, unit),
             broken |-> FALSE]

Stuck(s) == s.broken \/ s.buf = <<>> \/ Look(s).kind = "more"

RECURSIVE Loop(_)
Loop(s) == IF Stuck(s) THEN s ELSE Loop(Turn(s))

(* push: a piece of any size arrives.                                       *)
Push ==
    \E n \in 1..(Len(Bytes(sent)) - arrived) :
        LET s == Loop([buf |-> buf \o SubSeq(Bytes(sent), arrived + 1, arrived + n),
                       mcs |-> mcs, euarSeen |-> euarSeen, cut |-> cut, broken |-> broken])
        IN /\ arrived' = arrived + n
           /\ buf' = s.buf /\ mcs' = s.mcs /\ euarSeen' = s.euarSeen
           /\ cut' = s.cut /\ broken' = s.broken
           /\ UNCHANGED sent

Next == SendCredSsp \/ SendEuar \/ SendSlow \/ SendFast \/ (~broken /\ Push)

Spec == Init /\ [][Next]_vars

------------------------------------------------------------------------------
(* The units are the peer's, in order, kind and bytes, and none that has    *)
(* arrived whole is held back, wherever the stream was cut on its way: in a *)
(* length, before an Early User Authorization Result, or several at once.   *)
UnitsAsSent ==
    /\ ~broken
    /\ cut = SubSeq(sent, 1, Len(cut))
    /\ Len(cut) < Len(sent) => arrived < Len(Bytes(SubSeq(sent, 1, Len(cut) + 1)))
==============================================================================
