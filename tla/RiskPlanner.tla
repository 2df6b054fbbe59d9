--------------------------- MODULE RiskPlanner ----------------------------
(***************************************************************************)
(* XauUsdRiskPlanner (src/engine/risk): from a candidate of the signal     *)
(* engine and the structure zones known at its time to an entry zone, a    *)
(* stop and targets, or to the refusal of the candidate.                   *)
(*                                                                         *)
(* plan_long and plan_short, their stops and their targets are separate    *)
(* copies in the source; so they are here.  Prices are whole and even, so  *)
(* that the middle of a zone is a whole number; ratios are compared by     *)
(* their products, as exactly as the source's unrounded decimals.          *)
(***************************************************************************)
EXTENDS Integers, FiniteSets

CONSTANTS
    Setups,      \* what a candidate may rest on, members of SetupSet; times count from the candidate
    Policy,      \* [buffer, atrMult, maxStop, minRR, tp2Mult], the same for both sides
    Absent       \* no value

\* SideRiskPolicy.is_configured: every figure is positive; the second target's may be left out.
RiskPolicyAssumption ==
    /\ Policy.buffer \in Nat \ {0} /\ Policy.atrMult \in Nat \ {0}
    /\ Policy.maxStop \in Nat \ {0} /\ Policy.minRR \in Nat \ {0}
    /\ Policy.tp2Mult \in (Nat \ {0}) \cup {Absent}
ASSUME RiskPolicyAssumption

\* ZoneSet with one fingerprint are one; a structure lists a few.
ZoneSet == [type: {"SUPPORT", "RESISTANCE"}, low: Int, high: Int, born: Int, active: BOOLEAN]
StructureSet == {k \in [at: Int, zones: SUBSET ZoneSet] : IsFiniteSet(k.zones)}

SetupSet ==
    [at: Int, candidate: STRING, advice: STRING, configured: BOOLEAN, atr: Int,
     fifteen: StructureSet \cup {Absent}, four: StructureSet \cup {Absent}]
ASSUME SetupAssumption ==
    /\ Setups \subseteq SetupSet
    /\ Absent \notin Int /\ Absent \notin ZoneSet /\ Absent \notin StructureSet

-----------------------------------------------------------------------------
(* What is known at the setup's time.                                      *)

\* A structure of a later bar counts for nothing, nor does a zone born or ended since.
KnownZones(structure, at) ==
    IF structure = Absent THEN {}
    ELSE {z \in structure.zones : z.active /\ z.born <= at /\ structure.at <= at}

Earlier(a, b) ==
    \E i \in DOMAIN a : a[i] < b[i] /\ \A j \in DOMAIN a : j < i => a[j] = b[j]

FirstBy(Key(_), zones) == CHOOSE z \in zones : \A y \in zones : ~Earlier(Key(y), Key(z))

-----------------------------------------------------------------------------
(* The zone a trade is entered in.                                         *)

LongEntryZone(s) ==
    LET supports == {z \in KnownZones(s.fifteen, s.at) : z.type = "SUPPORT"}
    IN  IF supports = {} THEN Absent
        ELSE FirstBy(LAMBDA z : <<0 - z.high, z.born, z.low>>, supports)

ShortEntryZone(s) ==
    LET resistances == {z \in KnownZones(s.fifteen, s.at) : z.type = "RESISTANCE"}
    IN  IF resistances = {} THEN Absent
        ELSE FirstBy(LAMBDA z : <<z.low, z.born, 0 - z.high>>, resistances)

Middle(zone) == (zone.low + zone.high) \div 2

-----------------------------------------------------------------------------
(* Stops: beyond the zone and beyond the noise, but not too far.           *)

LongStop(zone, atr) ==
    LET structure == zone.low - Policy.buffer
        noise == Middle(zone) - Policy.atrMult * atr
    IN  IF structure < noise THEN structure ELSE noise

ShortStop(zone, atr) ==
    LET structure == zone.high + Policy.buffer
        noise == Middle(zone) + Policy.atrMult * atr
    IN  IF structure > noise THEN structure ELSE noise

\* Planned risk, from the far edge of the zone.
LongRisk(zone, stop) == zone.high - stop
ShortRisk(zone, stop) == stop - zone.low

LongStopOK(zone, atr) ==
    LET stop == LongStop(zone, atr)
    IN  /\ atr > 0
        /\ LongRisk(zone, stop) > 0
        /\ stop < zone.low
        /\ LongRisk(zone, stop) <= Policy.maxStop * atr

ShortStopOK(zone, atr) ==
    LET stop == ShortStop(zone, atr)
    IN  /\ atr > 0
        /\ ShortRisk(zone, stop) > 0
        /\ stop > zone.high
        /\ ShortRisk(zone, stop) <= Policy.maxStop * atr

-----------------------------------------------------------------------------
(* Targets: the nearest opposite zones of either time frame.               *)

PitZones(s) == KnownZones(s.fifteen, s.at) \cup KnownZones(s.four, s.at)

LongTargetZones(s, zone) ==
    {z \in PitZones(s) : z.type = "RESISTANCE" /\ z.low > zone.high}
ShortTargetZones(s, zone) ==
    {z \in PitZones(s) : z.type = "SUPPORT" /\ z.high < zone.low}

LongTp1(s, zone) ==
    LET zones == LongTargetZones(s, zone)
    IN  IF zones = {} THEN Absent
        ELSE FirstBy(LAMBDA z : <<z.low, z.born, z.high>>, zones).low

\* The short side sorted like the long one: the lowest support, not the nearest.
ShortTp1Copied(s, zone) ==
    LET zones == ShortTargetZones(s, zone)
    IN  IF zones = {} THEN Absent
        ELSE FirstBy(LAMBDA z : <<z.low, z.born, z.high>>, zones).high

ShortTp1(s, zone) ==
    LET zones == ShortTargetZones(s, zone)
    IN  IF zones = {} THEN Absent
        ELSE FirstBy(LAMBDA z : <<0 - z.high, z.born, 0 - z.low>>, zones).high

\* The second target is strictly beyond the first: a zone, else a multiple of the ATR.
LongTp2(s, zone, tp1) ==
    LET beyond == {z \in LongTargetZones(s, zone) : z.low > tp1}
        synthetic == Middle(zone) + Policy.tp2Mult * s.atr
    IN  CASE beyond # {} -> FirstBy(LAMBDA z : <<z.low, z.born, z.high>>, beyond).low
          [] beyond = {} /\ Policy.tp2Mult # Absent /\ synthetic > tp1 -> synthetic
          [] OTHER -> Absent

ShortTp2(s, zone, tp1) ==
    LET beyond == {z \in ShortTargetZones(s, zone) : z.high < tp1}
        synthetic == Middle(zone) - Policy.tp2Mult * s.atr
    IN  CASE beyond # {} -> FirstBy(LAMBDA z : <<0 - z.high, z.born, 0 - z.low>>, beyond).high
          [] beyond = {} /\ Policy.tp2Mult # Absent /\ synthetic < tp1 -> synthetic
          [] OTHER -> Absent

-----------------------------------------------------------------------------
(* The plan of a side: the gates in their order, and what each leaves      *)
(* known of a refused candidate.                                           *)

Refused(side) ==
    [side |-> side, valid |-> FALSE, zone |-> Absent, stop |-> Absent, tp1 |-> Absent,
     tp2 |-> Absent, action |-> "WAIT"]

PlanLong(s) ==
    LET zone == LongEntryZone(s)
        stop == LongStop(zone, s.atr)
        tp1  == LongTp1(s, zone)
        stopped == [Refused("LONG") EXCEPT !.zone = zone, !.stop = stop]
    IN  IF s.candidate # "BUY_WINDOW" \/ s.advice # "BUY" \/ ~s.configured \/ zone = Absent
        THEN Refused("LONG")
        ELSE IF ~LongStopOK(zone, s.atr) \/ tp1 = Absent THEN stopped
        ELSE LET planned == [stopped EXCEPT !.tp1 = tp1, !.tp2 = LongTp2(s, zone, tp1)]
             IN  IF tp1 - zone.high < Policy.minRR * LongRisk(zone, stop) THEN planned
                 ELSE [planned EXCEPT !.valid = TRUE, !.action = "BUY"]

PlanShort(s) ==
    LET zone == ShortEntryZone(s)
        stop == ShortStop(zone, s.atr)
        tp1  == ShortTp1(s, zone)
        stopped == [Refused("SHORT") EXCEPT !.zone = zone, !.stop = stop]
    IN  IF s.candidate # "SELL_WINDOW" \/ s.advice # "SELL" \/ ~s.configured \/ zone = Absent
        THEN Refused("SHORT")
        ELSE IF ~ShortStopOK(zone, s.atr) \/ tp1 = Absent THEN stopped
        ELSE LET planned == [stopped EXCEPT !.tp1 = tp1, !.tp2 = ShortTp2(s, zone, tp1)]
             IN  IF zone.low - tp1 < Policy.minRR * ShortRisk(zone, stop) THEN planned
                 ELSE [planned EXCEPT !.valid = TRUE, !.action = "SELL"]

PlanOf(side, s) == IF side = "LONG" THEN PlanLong(s) ELSE PlanShort(s)
=============================================================================
