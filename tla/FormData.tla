------------------------------- MODULE FormData -------------------------------
(***************************************************************************)
(* The details.dynamicData blob of a property form on its way into the     *)
(* row: validateDynamicDataMiddleware of the inventory and the enquiry     *)
(* routes, the shared schema of services/inventory/                        *)
(* dynamicDataValidation.js and landFrontageCompute.js.  The schema never  *)
(* rejects: it trims, reshapes and strips, and its errors are thrown away. *)
(* Kept here: the fields whose presence depends on another field, the      *)
(* derived distance, the multi-select of the enquiry form, and what a      *)
(* submission must have that a draft need not.  The rest of the schema     *)
(* checks one field at a time.                                             *)
(***************************************************************************)
EXTENDS Integers, Sequences, FiniteSets, SequencesExt

CONSTANTS Absent,      \* the key is missing, '' or null
          Feet,        \* frontages an admin may type, in feet
          MasterCodes, \* master codes of the nature and facing fields
          MaxSubmits   \* bound: submissions of one form

Pairs == [specific : MasterCodes \cup {Absent}, any : {Absent}]
Measures == [value : Nat \cup {Absent}, unit : {"Meters", "Kms"}]

\* What is absent is no number, and neither it nor a code is a list or a pair.
ASSUME FormAssumption ==
  /\ Feet \subseteq Nat /\ MaxSubmits \in Nat
  /\ Absent \notin MasterCodes \cup Nat \cup Measures
  /\ \A c \in MasterCodes \cup {Absent} : c \notin Seq(MasterCodes) \cup Pairs

VARIABLES form,        \* the stored form of one property, or NoForm
          route,       \* which of the two routes it is saved by
          submits      \* submissions so far, for the bound

formVars == <<form, route, submits>>

NoForm == [isDraft |-> TRUE, address |-> FALSE]

-----------------------------------------------------------------------------

Affirmative == {"Available", "Essential", "Required"}

\* Joi.when(...).strip() of parkingType, emiCount, emiAmount, maintenanceMonthly
StripParking(f) ==
  IF f.parkingFacility \in Affirmative THEN f ELSE [f EXCEPT !.parkingType = Absent]

StripEmi(f) ==
  IF f.emiOption = "Available" THEN f ELSE [f EXCEPT !.emiCount = Absent, !.emiAmount = Absent]

StripMaintenance(f) ==
  IF f.stage = "Under Construction" THEN [f EXCEPT !.maintenanceMonthly = Absent] ELSE f

\* dualModeOrScalar: a scalar becomes the specific side of a pair
DualMode(v) == IF v = Absent THEN [specific |-> Absent, any |-> Absent]
               ELSE IF v \in MasterCodes THEN [specific |-> v, any |-> Absent] ELSE v

validateDynamicData(f) ==
  [StripMaintenance(StripEmi(StripParking(f))) EXCEPT !.facing = DualMode(f.facing)]

\* feetToDistance in millionths of the unit: 0.3048 m or 0.0003048 km to a foot
feetToDistance(feet, unit) ==
  CASE feet = Absent -> Absent
    [] feet # Absent /\ unit = "Meters" -> 304800 * feet
    [] feet # Absent /\ unit = "Kms" -> (3048 * feet + 5) \div 10
    [] OTHER -> Absent

\* computeLandFrontage: nothing to do when both keys are missing
computeLandFrontage(f) ==
  IF f.frontageFoot = Absent /\ f.frontageDistance = Absent THEN f
  ELSE LET unit == IF f.frontageDistance = Absent THEN "Meters" ELSE f.frontageDistance.unit
       IN [f EXCEPT !.frontageDistance =
             [value |-> feetToDistance(f.frontageFoot, unit), unit |-> unit]]

\* each code where it first appears
Unique(list) ==
  LET kept[n \in 0..Len(list)] ==
        IF n = 0 THEN << >>
        ELSE IF Contains(kept[n - 1], list[n]) THEN kept[n - 1] ELSE Append(kept[n - 1], list[n])
  IN kept[Len(list)]

normalizeEnquiryNature(f) ==
  IF f.nature = Absent THEN f
  ELSE [f EXCEPT !.nature = Unique(IF f.nature \in MasterCodes THEN <<f.nature>> ELSE f.nature)]

\* The enquiry route normalizes before the draft check, the inventory not at all
Incoming(f) == IF route = "enquiry" THEN normalizeEnquiryNature(f) ELSE f

Processed(f) == IF f.isDraft THEN Incoming(f)
                ELSE Incoming(computeLandFrontage(validateDynamicData(Incoming(f))))

\* requiredWhenNotDraft and the address check of the middleware
Complete(f) == f.isDraft \/ f.address

-----------------------------------------------------------------------------
Natures == {Absent} \cup MasterCodes \cup BoundedSeq(MasterCodes, 2)
Facings == {Absent} \cup MasterCodes \cup Pairs
Distances == {Absent} \cup [value : {Absent, 1}, unit : {"Meters", "Kms"}]

BlankForm(d) ==
  [isDraft |-> d, address |-> ~d, parkingFacility |-> Absent, parkingType |-> Absent,
   emiOption |-> Absent, emiCount |-> Absent, emiAmount |-> Absent,
   stage |-> Absent, maintenanceMonthly |-> Absent, facing |-> Absent, nature |-> Absent,
   frontageFoot |-> Absent, frontageDistance |-> Absent]

FormInit == form = NoForm /\ route \in {"inventory", "enquiry"} /\ submits = 0

Submit(f) ==
  /\ Complete(f)
  /\ submits < MaxSubmits /\ submits' = submits + 1
  /\ form' = Processed(f)
  /\ UNCHANGED route

CreateForm == form = NoForm /\ \E d \in BOOLEAN : Submit(BlankForm(d))

\* One part of the form is edited and all of it is sent again
UpdateForm ==
  /\ form # NoForm
  /\ \E f \in [{"isDraft", "address"} -> BOOLEAN] :
       LET sent == [form EXCEPT !.isDraft = f["isDraft"], !.address = f["address"]] IN
       \/ Submit(sent)
       \/ \E v \in {Absent, "Available", "Not Available"}, t \in {Absent, "Common"} :
            Submit([sent EXCEPT !.parkingFacility = v, !.parkingType = t])
       \/ \E v \in {Absent, "Available"}, n \in {Absent, 12}, a \in {Absent, 5} :
            Submit([sent EXCEPT !.emiOption = v, !.emiCount = n, !.emiAmount = a])
       \/ \E v \in {Absent, "Under Construction"}, a \in {Absent, 2} :
            Submit([sent EXCEPT !.stage = v, !.maintenanceMonthly = a])
       \/ \E v \in Facings : Submit([sent EXCEPT !.facing = v])
       \/ \E v \in Natures : Submit([sent EXCEPT !.nature = v])
       \/ \E v \in Feet \cup {Absent}, d \in Distances :
            Submit([sent EXCEPT !.frontageFoot = v, !.frontageDistance = d])

CloseForm == form' = NoForm /\ submits' = 0 /\ UNCHANGED route   \* on to another property

FormNext == CreateForm \/ UpdateForm \/ CloseForm

-----------------------------------------------------------------------------
(***************************************************************************)
(* A stored form that is not a draft holds no answer to a question its     *)
(* other answers close, its distance is the one its feet give, its nature  *)
(* lists no code twice, and saving it again changes nothing.               *)
(***************************************************************************)
FormSound ==
  ~form.isDraft =>
    /\ form.address
    /\ form.parkingType # Absent => form.parkingFacility \in {"Available", "Essential", "Required"}
    /\ {form.emiCount, form.emiAmount} # {Absent} => form.emiOption = "Available"
    /\ form.maintenanceMonthly # Absent => form.stage # "Under Construction"
    /\ form.frontageDistance # Absent =>
         (form.frontageDistance.value = Absent <=> form.frontageFoot = Absent)
    /\ route = "enquiry" /\ form.nature # Absent => IsInjective(form.nature)
    /\ Processed(form) = form
=============================================================================
