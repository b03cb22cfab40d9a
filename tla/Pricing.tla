------------------------------- MODULE Pricing -------------------------------
(***************************************************************************)
(* What one line of an order costs: the pricing engine, without state.     *)
(* Money is whole tetri; a multiplier is in tenths and a share in       *)
(* hundredths, so every product is an integer over a power of ten until    *)
(* `Money` rounds it, where the code's Decimal would round it too.         *)
(***************************************************************************)
EXTENDS Integers, FiniteSetsExt

(* n / d in whole tetri, halves away from zero; n is never negative here. *)
Money(n, d) == (2 * n + d) \div (2 * d)

(* Georgian notary tariffs: tetri per page by page count, <<up to, rate>>. *)
NotaryFlatFee == 500
NotaryTiers == <<<<1, 600>>, <<10, 400>>, <<50, 300>>, <<10000, 200>>>>
CertificationTiers == <<<<1, 400>>, <<10, 200>>, <<50, 100>>, <<10000, 50>>>>
WithVat(n) == (n * 118) \div 100   \* exact: every tariff is a multiple of 50 tetri

TierRate(pages, tiers) ==
    tiers[Min({i \in DOMAIN tiers : pages <= tiers[i][1]})][2]

(***************************************************************************)
(* A line as the engine sees it: kind "written" or "oral", units (pages or *)
(* minutes), characters (0: not counted), the type multiplier, notarised,  *)
(* certified.  The setting s carries the rates, the characters of a        *)
(* standard page, the multiplier of each urgency and the share of the      *)
(* translator.                                                             *)
(***************************************************************************)
LineShape ==
    [kind : {"written", "oral"}, units : 1..10000, characters : Nat, multiplier : Nat,
     notarised : BOOLEAN, certified : BOOLEAN]

SettingShape ==
    [perPage : Nat, perMinute : Nat, perStandardPage : Nat \ {0}, share : Nat,
     multiplier : [{"standard", "express"} -> Nat]]

FallbackPerPage == 1500
FallbackPerMinute == 200

Rate(line, s) ==
    CASE line.kind = "written" -> IF s.perPage > 0 THEN s.perPage ELSE FallbackPerPage
      [] line.kind = "oral"    -> IF s.perMinute > 0 THEN s.perMinute ELSE FallbackPerMinute

NotaryCost(line) ==
    LET pages == Max({1, line.units})
    IN  IF ~line.notarised THEN 0
        ELSE WithVat(TierRate(pages, NotaryTiers) * pages) + NotaryFlatFee
             + (IF line.certified THEN WithVat(TierRate(pages, CertificationTiers) * pages) ELSE 0)

PriceOral(line, s, urgency) ==
    LET cost == Money(Rate(line, s) * Max({1, line.units}) * s.multiplier[urgency], 10)
    IN  [price |-> cost, cost |-> Money(cost * s.share, 100), fee |-> 0]

(* By standard pages when characters were counted, never less than one. *)
PriceWritten(line, s, urgency) ==
    LET counted == line.characters > 0
        pages   == IF counted THEN Max({line.characters, s.perStandardPage}) ELSE Max({1, line.units})
        over    == IF counted THEN s.perStandardPage ELSE 1
        raw     == Rate(line, s) * pages * line.multiplier * s.multiplier[urgency]
        scale   == over * 100
    IN  [price |-> Money(raw, scale) + NotaryCost(line),
         cost  |-> Money(raw * s.share, scale * 100),
         fee   |-> NotaryCost(line)]

PriceDocument(line, s, urgency) ==
    IF line.kind = "oral" THEN PriceOral(line, s, urgency) ELSE PriceWritten(line, s, urgency)

(* No silent fallback on a stored order: a rate, or a price typed in. *)
RequireRate(line, s, typed) ==
    \/ typed
    \/ line.kind = "written" /\ s.perPage > 0
    \/ line.kind = "oral" /\ s.perMinute > 0
=============================================================================
