------------------------------ MODULE Signatures ------------------------------
(****************************************************************************)
(* The signature checks on a SAML response (saml.rs check_signature_shape   *)
(* and check_signatures), as the loops and counters the code runs, against  *)
(* a definition of what they are to accept.  An element is its kind, a list *)
(* of children the kinds in their order; the XML parser and the signature   *)
(* arithmetic are the libraries'.                                           *)
(****************************************************************************)
EXTENDS Integers, Sequences, Lists

CONSTANTS
    Pinned,       \* the identity provider's certificates, in metadata order
    OtherCert,    \* any other certificate
    MaxChildren,  \* bound on the children of an element
    MaxSigs       \* bound on the signatures in a response

VARIABLES
    document,     \* the signatures of the response being read
    verdict       \* what the checks said of it

vars == <<document, verdict>>

------------------------------------------------------------------------------
(* The elements a signature may hold where the code looks.                  *)
Kinds == [children   |-> {"SignedInfo", "SignatureValue", "KeyInfo", "else"},
          info       |-> {"c14n", "method", "Reference", "else"},
          reference  |-> {"Transforms", "DigestMethod", "DigestValue", "else"},
          transforms |-> {"enveloped", "exclusive", "else"}]

WellFormed == [children   |-> <<"SignedInfo", "SignatureValue", "KeyInfo">>,
               info       |-> <<"c14n", "method", "Reference">>,
               reference  |-> <<"Transforms", "DigestMethod", "DigestValue">>,
               transforms |-> <<"enveloped", "exclusive">>]

(* A signature: its elements, the element it is a child of, the certificate *)
(* that verifies it, and whether its Reference resolves to that element.    *)
Signature(shape, parent, signer, covers) ==
    [shape |-> shape, parent |-> parent, signer |-> signer, covers |-> covers]

Init == document = <<>> /\ verdict = "unread"

Count(s, kind) == Len(Only(s, {kind}))

(* Faulty: the transforms are not looked at.                                *)
CheckSignatureShapeAnyTransforms(s) ==
    /\ "else" \notin Members(s.children) /\ Count(s.children, "SignedInfo") = 1
    /\ "else" \notin Members(s.info)
    /\ \A k \in {"c14n", "method", "Reference"} : Count(s.info, k) = 1
    /\ "else" \notin Members(s.reference)
    /\ \A k \in {"Transforms", "DigestMethod", "DigestValue"} : Count(s.reference, k) = 1
    /\ "enveloped" \in Members(s.transforms)

(* check_signature_shape: each list is walked, and anything but the kinds   *)
(* it may hold is refused; what may appear once is counted.                 *)
CheckSignatureShape(s) ==
    /\ "else" \notin Members(s.children) /\ Count(s.children, "SignedInfo") = 1
    /\ "else" \notin Members(s.info)
    /\ \A k \in {"c14n", "method", "Reference"} : Count(s.info, k) = 1
    /\ "else" \notin Members(s.reference)
    /\ \A k \in {"Transforms", "DigestMethod", "DigestValue"} : Count(s.reference, k) = 1
    /\ Len(s.transforms) = 2
    /\ s.transforms[1] = "enveloped" /\ s.transforms[2] = "exclusive"

(* check_signatures: one pass over the document for each pinned certificate *)
(* gathers which signatures verified and whether one covers the assertion.  *)
Verified(sigs, cert) == {i \in DOMAIN sigs : sigs[i].signer = cert /\ sigs[i].covers}

Passes(sigs) == [valid : SUBSET DOMAIN sigs, covers : BOOLEAN]

Pass(sigs, sofar, cert) ==
    LET found == Verified(sigs, cert)
    IN [valid  |-> sofar.valid \cup found,
        covers |-> sofar.covers \/ \E i \in found : sigs[i].parent = "Assertion"]

CheckSignatures(sigs) ==
    /\ sigs # <<>>
    /\ \A i \in DOMAIN sigs :
          CheckSignatureShape(sigs[i].shape) /\ sigs[i].parent \in {"Response", "Assertion"}
    /\ LET all == Over(Pinned, [valid |-> {}, covers |-> FALSE],
                       [p \in Passes(sigs) \X Members(Pinned) |-> Pass(sigs, p[1], p[2])])
       IN all.valid = DOMAIN sigs /\ all.covers

Read(sigs) ==
    /\ verdict = "unread"
    /\ document' = sigs
    /\ verdict' = IF CheckSignatures(sigs) THEN "accepted" ELSE "refused"

ListsOf(S) == UNION {[1..n -> S] : n \in 0..MaxChildren}

(* One signature on the assertion with one of its lists another one.        *)
ReadShape ==
    \E part \in DOMAIN Kinds : \E list \in ListsOf(Kinds[part]) :
        Read(<<Signature([WellFormed EXCEPT ![part] = list], "Assertion", Pinned[1], TRUE)>>)

(* Well-formed signatures, anywhere and by anyone.                          *)
ReadPlaces ==
    \E n \in 0..MaxSigs :
    \E parent \in [1..n -> {"Response", "Assertion", "elsewhere"}],
       signer \in [1..n -> Members(Pinned) \cup {OtherCert}],
       covers \in [1..n -> BOOLEAN] :
        Read([i \in 1..n |-> Signature(WellFormed, parent[i], signer[i], covers[i])])

Next == ReadShape \/ ReadPlaces

Spec == Init /\ [][Next]_vars

------------------------------------------------------------------------------
Permuted(s, t) == Len(s) = Len(t) /\ \A k \in Members(s) \cup Members(t) : Count(s, k) = Count(t, k)

(* A signature that has one of each part it must have, the transforms in    *)
(* their order.                                                             *)
Proper(s) ==
    /\ Permuted(s.info, WellFormed.info) /\ Permuted(s.reference, WellFormed.reference)
    /\ s.transforms = WellFormed.transforms
    /\ \E j \in DOMAIN s.children :
          /\ s.children[j] = "SignedInfo"
          /\ \A k \in DOMAIN s.children \ {j} : s.children[k] \in {"SignatureValue", "KeyInfo"}

Covered(sigs) ==
    /\ \E i \in DOMAIN sigs : sigs[i].parent = "Assertion"
    /\ \A i \in DOMAIN sigs :
          /\ sigs[i].signer \in Members(Pinned) /\ sigs[i].covers
          /\ sigs[i].parent # "elsewhere" /\ Proper(sigs[i].shape)

(* A response is accepted exactly when its assertion carries a signature    *)
(* that covers it, and every signature there is covers the element it is    *)
(* in, was made with a pinned certificate, and has one of each part it      *)
(* must have, the transforms in their order: whatever pass of the loop over *)
(* the certificates verified which signature.                               *)
AcceptedIsCovered == verdict # "unread" => (verdict = "accepted") = Covered(document)
==============================================================================
