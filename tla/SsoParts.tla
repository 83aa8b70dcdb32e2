------------------------------- MODULE SsoParts -------------------------------
(****************************************************************************)
(* Single sign-on and the calendar of its timestamps, each an instance of   *)
(* its module.  They share no state.                                        *)
(****************************************************************************)
EXTENDS Integers, Sequences, FiniteSets

CONSTANTS
    NoPost,                                                  \* no post in flight
    FLOW_SECS, Skew, MAX_SPENT, Validity, Delay, Post,       \* Saml
        MaxClock, MaxRequests, MaxAnswers, MaxStarts,
    FirstYears, Years                                        \* Instant

VARIABLES
    clock, flowKey, flows, answers, posts, spent, accepted,
    day, date

(* The times are whole seconds, and a post does not take longer on its way  *)
(* to the table than the skew allows for.                                   *)
ASSUME SamlAssumption ==
    /\ FLOW_SECS \in Nat /\ Skew \in Nat /\ Delay \in Nat /\ Delay <= Skew
    /\ Validity \subseteq Int

ASSUME InstantAssumption == FirstYears \subseteq Int

SA == INSTANCE Saml WITH Nothing <- NoPost
IT == INSTANCE Instant

------------------------------------------------------------------------------
(* saml.rs accept: no request or assertion is accepted twice, across the    *)
(* end of an entry's life and a restart, and only what was accepted takes   *)
(* room in the table.                                                       *)
AcceptedOnce == SA!AcceptedOnce /\ SA!OnlyAcceptedIsSpent

(* saml.rs parse_instant, migrate.rs civil_from_days: both conversions are  *)
(* the calendar's on every day of the range.                                *)
CalendarAgrees == IT!CalendarAgrees
==============================================================================
