-------------------------- MODULE TransportPolicy --------------------------
(***************************************************************************)
(* Which path an envelope takes: rankDeliveryPaths and choosePrimaryPath   *)
(* (src/policy.js).  A context is a record of what is available and how    *)
(* severe censorship is; internet is "yes", "no" (false) or "unknown" (not *)
(* given), which the code tells apart.                                     *)
(***************************************************************************)
EXTENDS Integers, SequencesExt

MAX_SMS_CONTROL_BYTES == 96

\* In the order in which rankDeliveryPaths considers them.
Transports == <<"internet-direct", "relay-primary", "relay-secondary",
                "nearby-mesh", "sms-control">>
Transport == Range(Transports)
Relays == {"relay-primary", "relay-secondary"}
Position(t) == CHOOSE n \in DOMAIN Transports : Transports[n] = t

BaseScore(t) ==
    CASE t = "internet-direct" -> 100
      [] t = "relay-primary" -> 85
      [] t = "relay-secondary" -> 70
      [] t = "nearby-mesh" -> 60
      [] t = "sms-control" -> 20

If(condition, points) == IF condition THEN points ELSE 0

scoreTransport(t, envelope, context) ==
    LET severe == context.censorshipProfile = "severe"
        offline == context.internet = "no"
        urgent == envelope.priority = "urgent"
    IN IF offline /\ t = "internet-direct" THEN -1
       ELSE BaseScore(t)
            - If(severe /\ t = "internet-direct", 30)
            + If(severe /\ t \in Relays, 10)
            - If(offline /\ t \in Relays, 20)
            + If(context.nearbyPeers /\ t = "nearby-mesh", 20)
            + If(urgent /\ t = "sms-control", 30)
            + If(urgent /\ t = "nearby-mesh", 10)

canUseSmsControl(envelope, context) ==
    /\ context.smsControl
    /\ envelope.payloadType \in {"emergency_control", "ack", "key_update"}
    /\ envelope.contentBytes <= MAX_SMS_CONTROL_BYTES

Candidates(envelope, context) ==
    {t \in Transport :
        \/ t = "internet-direct" /\ context.internet = "yes"
        \/ t = "relay-primary" /\ context.primaryRelay
        \/ t = "relay-secondary" /\ context.secondaryRelay
        \/ t = "nearby-mesh" /\ context.nearbyPeers
        \/ t = "sms-control" /\ canUseSmsControl(envelope, context)}

\* Mutant: the lowest score first.
LowestPreferred(s, t, envelope, context) ==
    LET score(p) == scoreTransport(p, envelope, context) IN
    \/ score(s) < score(t)
    \/ score(s) = score(t) /\ Position(s) < Position(t)

\* Best first; the sort keeps the order of equals.
Preferred(s, t, envelope, context) ==
    LET score(p) == scoreTransport(p, envelope, context) IN
    \/ score(s) > score(t)
    \/ score(s) = score(t) /\ Position(s) < Position(t)

Place(t, paths, envelope, context) ==
    Cardinality({s \in paths : Preferred(s, t, envelope, context)}) + 1

BestFirst(paths, envelope, context) ==
    [n \in 1 .. Cardinality(paths) |->
        CHOOSE t \in paths : Place(t, paths, envelope, context) = n]

rankDeliveryPaths(envelope, context) ==
    BestFirst({t \in Candidates(envelope, context) : scoreTransport(t, envelope, context) >= 0},
              envelope, context)

NoPath == "none"
choosePrimaryPath(envelope, context) ==
    LET ranked == rankDeliveryPaths(envelope, context) IN
    IF ranked = << >> THEN NoPath ELSE Head(ranked)

----------------------------------------------------------------------------
(* What a caller may count on *)

\* docs/protocol-v1.md:143 names an order: the direct path or a relay, the second
\* relay, nearby peers, SMS.  s overtakes t in it in two cases and no other:
\* severe censorship puts the direct path behind all but SMS; and nearby peers,
\* whose points for being there are never missing, overtake the second relay
\* unless severe censorship favours it, and the first for lack of internet or
\* for an urgent envelope.
Overtakes(s, t, envelope, context) ==
    LET severe == context.censorshipProfile = "severe"
        offline == context.internet = "no"
        urgent == envelope.priority = "urgent"
    IN \/ t = "internet-direct" /\ severe /\ s # "sms-control"
       \/ s = "nearby-mesh" /\ t = "relay-secondary" /\ (offline \/ urgent \/ ~severe)
       \/ s = "nearby-mesh" /\ t = "relay-primary" /\ (offline \/ (urgent /\ ~severe))

\* The ranking is the documented order but for those cases.  Losing the
\* internet, censorship and urgency change the order and never the paths: none
\* that can be used is given up for its score.
RanksAsDocumented(envelope, context) ==
    LET ranked == rankDeliveryPaths(envelope, context) IN
    /\ Range(ranked) = Candidates(envelope, context)
    /\ \A m, n \in DOMAIN ranked :
          Position(ranked[n]) < Position(ranked[m]) =>
              (m < n <=> Overtakes(ranked[m], ranked[n], envelope, context))
=============================================================================
