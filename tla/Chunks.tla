--------------------------------- MODULE Chunks ---------------------------------
(****************************************************************************)
(* The clipboard channel within the stream (scan/route.rs): found in the    *)
(* connection sequence, lifted out of it, and its PDUs put together from    *)
(* their chunks.  A unit is what Route reads of it: the Connect Initial and *)
(* Connect Response, data of another channel, or a clipboard chunk with its *)
(* flags, the length its header says and the bytes it carries.              *)
(****************************************************************************)
EXTENDS Integers, Sequences, Lists

CONSTANTS
    MAX_PDU,      \* the largest clipboard PDU taken
    MaxChunk,     \* bound on the bytes of a chunk
    MaxRead       \* bound on the units read and not refused

VARIABLES
    names,       \* whether the Connect Initial was read (Route.names)
    cliprdr,     \* whether the channel's id is known (Route.cliprdr)
    units,       \* Dechunker.units: the chunks held
    length,      \* Dechunker.length
    read,        \* the units read and not refused
    passed,      \* what was forwarded at once
    wholes,      \* the PDUs put together, each with the units that carried it
    refused      \* whether the stream was refused

vars == <<names, cliprdr, units, length, read, passed, wholes, refused>>

Other(kind) == [kind |-> kind, first |-> FALSE, last |-> FALSE, length |-> 0, size |-> 0,
                compressed |-> FALSE]

Others == {Other("initial"), Other("response"), Other("other")}

Chunk == [kind : {"chunk"}, first : BOOLEAN, last : BOOLEAN, length : 0..(MAX_PDU + 1),
          size : 0..MaxChunk, compressed : BOOLEAN]

Init ==
    /\ names = FALSE /\ cliprdr = FALSE
    /\ units = <<>> /\ length = 0
    /\ read = <<>> /\ passed = <<>> /\ wholes = <<>> /\ refused = FALSE

Reads(u) == ~refused /\ Len(read) < MaxRead /\ read' = Append(read, u)

Size(chunks) == Over(chunks, 0, [p \in Nat \X Chunk |-> p[1] + p[2].size])

(* The connection sequence, in its order.                                   *)
ConnectInitial ==
    /\ ~names
    /\ Reads(Other("initial"))
    /\ names' = TRUE
    /\ passed' = Append(passed, Other("initial"))
    /\ UNCHANGED <<cliprdr, units, length, wholes, refused>>

ConnectResponse ==
    /\ names /\ ~cliprdr
    /\ Reads(Other("response"))
    /\ cliprdr' = TRUE
    /\ passed' = Append(passed, Other("response"))
    /\ UNCHANGED <<names, units, length, wholes, refused>>

OtherChannel ==
    /\ Reads(Other("other"))
    /\ passed' = Append(passed, Other("other"))
    /\ UNCHANGED <<names, cliprdr, units, length, wholes, refused>>

------------------------------------------------------------------------------
(* Faulty: a first chunk may follow an unfinished PDU.                      *)
OutOfStepUnlessFirst(c) ==
    \/ c.compressed \/ c.length > MAX_PDU
    \/ (~c.first /\ units = <<>>)
    \/ Size(units) + c.size > (IF c.first THEN c.length ELSE length)
    \/ c.last /\ Size(units) + c.size # (IF c.first THEN c.length ELSE length)

(* Dechunker.push.                                                          *)
OutOfStep(c) ==
    \/ c.compressed \/ c.length > MAX_PDU
    \/ (c.first /\ units # <<>>)
    \/ (~c.first /\ units = <<>>)
    \/ Size(units) + c.size > (IF c.first THEN c.length ELSE length)
    \/ c.last /\ Size(units) + c.size # (IF c.first THEN c.length ELSE length)

PushRefused(c) ==
    /\ cliprdr /\ ~refused /\ Len(read) < MaxRead
    /\ OutOfStep(c)
    /\ refused' = TRUE
    /\ UNCHANGED <<names, cliprdr, units, length, read, passed, wholes>>

PushHeld(c) ==
    /\ cliprdr /\ ~OutOfStep(c) /\ ~c.last
    /\ Reads(c)
    /\ length' = IF c.first THEN c.length ELSE length
    /\ units' = Append(units, c)
    /\ UNCHANGED <<names, cliprdr, passed, wholes, refused>>

PushWhole(c) ==
    /\ cliprdr /\ ~OutOfStep(c) /\ c.last
    /\ Reads(c)
    /\ length' = IF c.first THEN c.length ELSE length
    /\ wholes' = Append(wholes, Append(units, c))
    /\ units' = <<>>
    /\ UNCHANGED <<names, cliprdr, passed, refused>>

Next ==
    \/ ConnectInitial \/ ConnectResponse \/ OtherChannel
    \/ \E c \in Chunk : PushRefused(c) \/ PushHeld(c) \/ PushWhole(c)

Spec == Init /\ [][Next]_vars

------------------------------------------------------------------------------
Joined(pdus) == Over(pdus, <<>>, [p \in Seq(Chunk) \X Seq(Chunk) |-> p[1] \o p[2]])

(* What is handed on as one clipboard PDU is one: it starts with a first    *)
(* chunk, ends with the first last one after it, and its bytes are as many  *)
(* as its header said; and every unit read is forwarded, held or in exactly *)
(* one PDU, in its order (Dechunker.push).                                  *)
WholeIsOnePdu ==
    /\ \A i \in DOMAIN wholes :
          LET w == wholes[i]
          IN /\ \A j \in DOMAIN w : w[j].first = (j = 1) /\ w[j].last = (j = Len(w))
             /\ Size(w) = w[1].length
    /\ ~refused => Joined(wholes) \o units = Only(read, Chunk)
    /\ passed = Only(read, Others)
==============================================================================
