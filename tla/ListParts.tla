------------------------------- MODULE ListParts -------------------------------
(****************************************************************************)
(* The parts of the gateway that work through lists, each an instance of    *)
(* its module: the notices a page polls for, the throttle of password       *)
(* attempts, the clipboard's chunks and the signatures of a SAML response.  *)
(* They share no state.                                                     *)
(****************************************************************************)
EXTENDS Integers, Sequences, FiniteSets

CONSTANTS
    PageUser, NOTICES_KEPT, MaxNotices,                          \* Notices
    Local, Address, Limit, WINDOW, BindTime, Permits, MaxTime,   \* Throttle
    MAX_PDU, MaxChunk, MaxRead,                                  \* Chunks
    Pinned, OtherCert, MaxChildren, MaxSigs                      \* Signatures

VARIABLES
    newest, queue, page, shown, pushed, dropped,
    time, failures, taken, attempt, hashing, wrong, guesses,
    names, cliprdr, units, length, read, passed, wholes, refused,
    document, verdict

(* At least one attempt is allowed in a window, and the rest are numbers.   *)
ASSUME ThrottleAssumption == Limit \in Nat \ {0} /\ WINDOW \in Nat /\ Permits \in Nat

ASSUME ChunksAssumption == MAX_PDU \in Nat /\ MaxChunk \in Nat

(* Metadata without a signing certificate is refused when it is read.       *)
ASSUME PinnedAssumption == Pinned \in Seq({Pinned[i] : i \in DOMAIN Pinned}) /\ Pinned # <<>>

(* Bounds on the document.                                                  *)
ASSUME DocumentAssumption == MaxChildren \in Nat /\ MaxSigs \in Nat

NO == INSTANCE Notices WITH User <- PageUser
TH == INSTANCE Throttle
CH == INSTANCE Chunks
SG == INSTANCE Signatures

------------------------------------------------------------------------------
(* scan/mod.rs Notices.since: a page shows each notice once.                *)
NoticesShownOnce == NO!NoticesShownOnce

(* auth.rs Throttle under hash_permits: concurrent attempts do not overrun  *)
(* the limit by more than the hashes that run at once.                      *)
LocalGuessesBounded == TH!LocalGuessesBounded

(* scan/route.rs Dechunker.push: what is handed on as one PDU is one.       *)
WholeIsOnePdu == CH!WholeIsOnePdu

(* saml.rs check_signatures: accepted exactly when the assertion and every  *)
(* other signed element is covered by a pinned, well-formed signature.      *)
AcceptedIsCovered == SG!AcceptedIsCovered
==============================================================================
