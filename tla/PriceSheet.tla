------------------------------ MODULE PriceSheet ------------------------------
(***************************************************************************)
(* The price sheet inside a property form, recomputed on every save        *)
(* (services/inventory/landPricingCompute.js, called from                  *)
(* validateDynamicDataMiddleware of both property routes).  The browser    *)
(* computes the same figures while the admin types; the server overwrites  *)
(* whatever it sends, except in a draft.  Money is in paise, so that the   *)
(* two decimals of formatCurrency are integers; rates times areas are      *)
(* whole paise here.                                                       *)
(***************************************************************************)
EXTENDS Integers, FiniteSets, Functions

CONSTANTS Blank,      \* '', null, '-' or no number at all
          PropertyTypes, Units, \* units a rate can be typed in
          Areas, Rates, Amounts, Percents,  \* what an admin may type
          ManualLines, \* paperNotice, documentTypingCharges, amountOfStampPaper, undertableFees
          MaxSaves     \* bound: saves of the form

ASSUME PriceAssumption ==
  /\ Areas \cup Rates \cup Amounts \cup Percents \subseteq Nat \cup {Blank}
  /\ Blank \notin Nat /\ "" \notin Units /\ MaxSaves \in Nat /\ IsFiniteSet(ManualLines)

VARIABLES sheet,      \* the stored dynamicData, or NoSheet
          computed,   \* the last save was not a draft's
          saves       \* saves so far, for the bound

priceVars == <<sheet, computed, saves>>

NoSheet == [type |-> ""]

\* The figures the server derives, all written as one
Derived == {"actual", "government", "gstPercentage", "stampDuty", "registration",
            "lbt", "gstAmount", "costToCustomer"}

-----------------------------------------------------------------------------
\* detectFamily, for the types it tells apart
detectFamily(type) ==
  CASE type \in {"land-sale", "land-purchase"} -> "land"
    [] type \in {"sez-land-sale", "sez-land-purchase"} -> "sez-land"
    [] type \in {"flat-resale", "bunglow-new-sale"} -> "built-up"
    [] OTHER -> ""

Times(a, b) == IF Blank \in {a, b} THEN Blank ELSE a * b
maxNumberOrNull(a, b) == IF a = Blank THEN b ELSE IF b = Blank \/ a > b THEN a ELSE b
OrZero(a) == IF a = Blank THEN 0 ELSE a

\* formatCurrency of a percentage: two decimals, half up
MutPercent(n, p) == IF Blank \in {n, p} THEN Blank ELSE (n * p) \div 100   \* a mutant
Percent(n, p) == IF Blank \in {n, p} THEN Blank ELSE (n * p + 50) \div 100

\* An area times a rate.  Built-up property has one pair; land takes the pair
\* of the unit that was typed last, and nothing without that stamp.  SEZ land
\* has rate keys of its own, here one more set of rates.
Priced(s, rates, unit) ==
  IF detectFamily(s.type) = "built-up" THEN Times(s.builtUpArea, rates["built-up"])
  ELSE IF unit \in Units THEN Times(s.area[unit], rates[unit]) ELSE Blank

BaseValue(s, government) == maxNumberOrNull(s.considerationValue, government)

Untouched(s, base) == base = Blank /\ \A l \in ManualLines : s.lines[l] = Blank

LinesOf(s) == SumFunction([l \in ManualLines |-> OrZero(s.lines[l])])

computeLandPricing(s) ==
  IF detectFamily(s.type) = "" THEN s
  ELSE LET government == Priced(s, s.govRate, s.lastEditedGovRateUnit)
           base == BaseValue(s, government)
           stampDuty == Percent(base, 5)
           registration == Percent(base, 1)
           lbt == Percent(base, 1)
           gstAmount == Percent(base, s.gst)
           cost == OrZero(base) + OrZero(stampDuty) + OrZero(registration) + OrZero(lbt)
                   + OrZero(gstAmount) + LinesOf(s)
       IN [s EXCEPT !.derived =
             [actual |-> Priced(s, s.rate, s.lastEditedRateUnit), government |-> government,
              gstPercentage |-> s.gst, stampDuty |-> stampDuty, registration |-> registration,
              lbt |-> lbt, gstAmount |-> gstAmount,
              costToCustomer |-> IF Untouched(s, base) THEN Blank ELSE cost]]

-----------------------------------------------------------------------------
RateKeys == Units \cup {"built-up"}
Stamps == Units \cup {""}

\* What the browser sends: any inputs, and derived figures it may have got
\* wrong (an old tab, a script, a hand-made request)
FirstSheet(t, area, rate, amount, percent) ==
  [type |-> t, builtUpArea |-> area, area |-> [u \in Units |-> area],
   rate |-> [k \in RateKeys |-> rate], govRate |-> [k \in RateKeys |-> rate],
   lastEditedRateUnit |-> "", lastEditedGovRateUnit |-> "",
   considerationValue |-> amount, gst |-> percent,
   lines |-> [l \in ManualLines |-> amount], derived |-> [d \in Derived |-> amount]]

PriceInit == sheet = NoSheet /\ computed = FALSE /\ saves = 0

\* validateDynamicDataMiddleware: a draft goes through as it is
SaveSheet(s, isDraft) ==
  /\ saves < MaxSaves /\ saves' = saves + 1
  /\ sheet' = IF isDraft THEN s ELSE computeLandPricing(s)
  /\ computed' = ~isDraft

OpenForm == /\ sheet = NoSheet
            /\ \E t \in PropertyTypes, d \in BOOLEAN, area \in Areas, rate \in Rates,
                  amount \in Amounts, percent \in Percents :
                 SaveSheet(FirstSheet(t, area, rate, amount, percent), d)

\* One field is edited and the whole form is sent again
Edit(s) ==
  \E d \in BOOLEAN :
    \/ \E t \in PropertyTypes : SaveSheet([s EXCEPT !.type = t], d)
    \/ \E a \in Areas : SaveSheet([s EXCEPT !.builtUpArea = a], d)
    \/ \E u \in Units, a \in Areas : SaveSheet([s EXCEPT !.area[u] = a], d)
    \/ \E k \in RateKeys, r \in Rates :
         SaveSheet([s EXCEPT !.rate[k] = r, !.lastEditedRateUnit = IF k \in Units THEN k ELSE @], d)
    \/ \E k \in RateKeys, r \in Rates :
         SaveSheet([s EXCEPT !.govRate[k] = r, !.lastEditedGovRateUnit = IF k \in Units THEN k ELSE @], d)
    \/ \E a \in Amounts : SaveSheet([s EXCEPT !.considerationValue = a], d)
    \/ \E g \in Percents : SaveSheet([s EXCEPT !.gst = g], d)
    \/ \E l \in ManualLines, a \in Amounts : SaveSheet([s EXCEPT !.lines[l] = a], d)
    \/ \E f \in Derived, a \in Amounts : SaveSheet([s EXCEPT !.derived[f] = a], d)

EditForm == sheet # NoSheet /\ Edit(sheet)

NewForm == sheet' = NoSheet /\ computed' = FALSE /\ saves' = 0   \* another property

PriceNext == OpenForm \/ EditForm \/ NewForm

-----------------------------------------------------------------------------
Figures == sheet.derived

(***************************************************************************)
(* The sheet of a saved property that is not a draft: its total is the sum *)
(* of the lines it shows, paise for paise; no charge is lower than the     *)
(* government's value demands; saving it again changes nothing.            *)
(***************************************************************************)
PricesSound ==
  computed /\ detectFamily(sheet.type) # "" =>
    /\ Figures["costToCustomer"] # Blank =>
         Figures["costToCustomer"] =
           OrZero(maxNumberOrNull(sheet.considerationValue, Figures["government"]))
           + OrZero(Figures["stampDuty"]) + OrZero(Figures["registration"])
           + OrZero(Figures["lbt"]) + OrZero(Figures["gstAmount"])
           + LinesOf(sheet)
    /\ Figures["government"] # Blank =>
         100 * Figures["stampDuty"] + 50 >= 5 * Figures["government"]
    /\ computeLandPricing(sheet) = sheet
=============================================================================
