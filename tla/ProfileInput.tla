----------------------------- MODULE ProfileInput -----------------------------
(***************************************************************************)
(* A user's profile, from its JSON to the rules the session works with and *)
(* the values the patcher writes: three components with their own checks   *)
(* of the same numbers. A Decimal is a sign, a coefficient and a power of  *)
(* ten; an exact integer, where there is one, is the member of a set.      *)
(***************************************************************************)
EXTENDS Integers, FiniteSets, SequencesExt

CONSTANTS
    MaxDigits,      \* significant digits of an accepted number
    MaxExponent,    \* and the magnitude of its exponent
    MaxHalfPoints,  \* the largest w:sz
    MaxLineTwips,   \* the largest w:line
    NoValue         \* a field that is not there

Decimal(negative, coefficient, exponent) ==
    [negative |-> negative, coefficient |-> coefficient, exponent |-> exponent]

PowerOfTen[n \in Nat] == IF n = 0 THEN 1 ELSE 10 * PowerOfTen[n - 1]

Digits[coefficient \in Nat] ==
    IF coefficient < 10 THEN 1 ELSE 1 + Digits[coefficient \div 10]

(***************************************************************************)
(* A font size with an exponent above three is larger than the largest one *)
(* (_exact_half_points), whatever its digits.                              *)
(***************************************************************************)
ASSUME LimitsAssumption ==
    /\ MaxHalfPoints \in Nat /\ MaxHalfPoints < 2 * PowerOfTen[4]
    /\ MaxDigits \in Nat /\ MaxExponent \in Nat /\ MaxLineTwips \in Nat

(***************************************************************************)
(* canonical_decimal: trailing zeros move into the exponent.               *)
(***************************************************************************)
CanonicalDecimal(d) ==
    LET zeros == Max({n \in 0 .. Digits[d.coefficient] : d.coefficient % PowerOfTen[n] = 0})
    IN  IF d.coefficient = 0 THEN Decimal(FALSE, 0, 0)
        ELSE Decimal(d.negative, d.coefficient \div PowerOfTen[zeros], d.exponent + zeros)

(***************************************************************************)
(* The integer a Decimal is in units of 1 / unit, when it is one.          *)
(***************************************************************************)
Exactly(d, unit) ==
    IF d.exponent >= 0 THEN {d.coefficient * unit * PowerOfTen[d.exponent]}
    ELSE {n \in {(d.coefficient * unit) \div PowerOfTen[-d.exponent]} :
             n * PowerOfTen[-d.exponent] = d.coefficient * unit}

Positive(d) == ~d.negative /\ d.coefficient > 0

Exponents == (-MaxExponent) .. MaxExponent

WithinCapability(d) == Digits[d.coefficient] <= MaxDigits /\ d.exponent \in Exponents

-------------------------------------------------------------------------------
(***************************************************************************)
(* The rules of the JSON: their order is that of class and property, which *)
(* is the order their faults are looked for in.                            *)
(***************************************************************************)
PropertiesOf(schema) ==
    {"bold", "font_size"}
        \cup (IF schema \in {"0.2", "0.3"} THEN {"alignment"} ELSE {})
        \cup (IF schema = "0.3" THEN {"line_spacing"} ELSE {})

Schemas == {"0.1", "0.2", "0.3"}

IsNumeric(property) == property \in {"font_size", "line_spacing"}

LargestOf(property) == IF property = "font_size" THEN MaxHalfPoints ELSE MaxLineTwips

UnitOf(property) == IF property = "font_size" THEN 2 ELSE 240

NumberFault(property, d) ==
    IF ~Positive(d) THEN "contract"
    ELSE IF ~WithinCapability(d) THEN "unsupported"
    ELSE IF \E n \in Exactly(d, UnitOf(property)) : n <= LargestOf(property) THEN "none"
    ELSE "unsupported"

ValueFault(property, value) ==
    CASE property = "bold"      -> IF value \in {"true", "false"} THEN "none" ELSE "contract"
      [] property = "alignment" ->
             IF value \in {"left", "center", "right", "justify"} THEN "none" ELSE "unsupported"
      [] OTHER                  -> NumberFault(property, CanonicalDecimal(value))

CanonicalValue(property, value) == IF IsNumeric(property) THEN CanonicalDecimal(value) ELSE value

(***************************************************************************)
(* What the parser makes of the fields of a rule, which its JSON names by  *)
(* class and property: no name twice, tuples, and numbers as Decimals.     *)
(***************************************************************************)
ValuesOf(rule) == ({rule.value, rule.preferred} \cup ToSet(rule.allowed)) \ {NoValue}

IsDecimal(d) == d.coefficient \in Nat /\ d.exponent \in Int

IsParsed(rule) ==
    /\ rule.allowed \in Seq(ToSet(rule.allowed))
    /\ IsNumeric(rule.property) => \A value \in ValuesOf(rule) : IsDecimal(value)

AreNamed(rules) ==
    \A i, j \in DOMAIN rules :
        rules[i].class = rules[j].class /\ rules[i].property = rules[j].property => i = j

(***************************************************************************)
(* ProfileInputRule: what an exact, a set and a preserve rule may carry.   *)
(***************************************************************************)
ExactFault(rule) ==
    IF rule.value = NoValue \/ rule.allowed # <<>> \/ rule.preferred # NoValue THEN "contract"
    ELSE ValueFault(rule.property, rule.value)

PreserveFault(rule) ==
    IF rule.value # NoValue \/ rule.allowed # <<>> \/ rule.preferred # NoValue
    THEN "contract" ELSE "none"

FirstFault(faults) ==
    LET i == SelectInSeq(faults, LAMBDA fault : fault # "none")
    IN  IF i = 0 THEN "none" ELSE faults[i]

AllowedFault(rule) ==
    LET canonical == [i \in DOMAIN rule.allowed |->
                         CanonicalValue(rule.property, rule.allowed[i])]
        preferred == CanonicalValue(rule.property, rule.preferred)
    IN  IF ~IsInjective(canonical) THEN "contract"
        ELSE IF rule.preferred = NoValue
             THEN IF Len(canonical) = 1 THEN "contract" ELSE "none"
        ELSE IF ValueFault(rule.property, rule.preferred) # "none"
             THEN ValueFault(rule.property, rule.preferred)
        ELSE IF preferred \in ToSet(canonical) THEN "none" ELSE "contract"

SetFault(rule) ==
    IF rule.value # NoValue \/ rule.allowed = <<>> THEN "contract"
    ELSE FirstFault([i \in DOMAIN rule.allowed |-> ValueFault(rule.property, rule.allowed[i])]
                        \o <<AllowedFault(rule)>>)

RuleFault(schema, rule) ==
    IF rule.class \notin {"body", "heading"} \/ rule.property \notin PropertiesOf(schema)
    THEN "unsupported"
    ELSE CASE rule.mode = "missing"  -> "contract"
           [] rule.mode = "exact"    -> ExactFault(rule)
           [] rule.mode = "set"      -> SetFault(rule)
           [] rule.mode = "preserve" -> PreserveFault(rule)
           [] OTHER                  -> "unsupported"

(***************************************************************************)
(* parse_profile_input_json: the version is looked at before the fields,   *)
(* so that a later schema is unsupported rather than malformed. A number   *)
(* whose exponent is out of Decimal's own bounds is no fault the parser    *)
(* reports: reading it raises, and nothing translates that.                *)
(***************************************************************************)
RaisesWhenRead(profile) == profile.json = "overflow"

ProfileFault(profile) ==
    IF profile.json # "readable" THEN "contract"
    ELSE IF profile.schema \notin Schemas THEN "unsupported"
    ELSE IF profile.unknownFields \/ profile.rules = <<>> THEN "contract"
    ELSE FirstFault([i \in DOMAIN profile.rules |-> RuleFault(profile.schema, profile.rules[i])])

-------------------------------------------------------------------------------
(***************************************************************************)
(* build_processing_profile, and what ProcessingProfile accepts of it.     *)
(***************************************************************************)
TargetTypeOf(property) == IF property \in {"bold", "font_size"} THEN "run" ELSE "paragraph"

AdaptedValue(property, value) ==
    IF property = "alignment" /\ value = "justify" THEN "both"
    ELSE CanonicalValue(property, value)

RuleValuesOf(rule) == {AdaptedValue(rule.property, value) : value \in ValuesOf(rule)}

SessionAccepts(property, value) ==
    CASE property = "bold"      -> value \in {"true", "false"}
      [] property = "alignment" -> value \in {"left", "center", "right", "both"}
      [] OTHER -> /\ Positive(value)
                  /\ WithinCapability(value)
                  /\ \E n \in Exactly(value, UnitOf(property)) :
                        property = "line_spacing" => n <= MaxLineTwips

SessionAcceptsProfile(profile) ==
    \A i \in DOMAIN profile.rules :
        \A value \in RuleValuesOf(profile.rules[i]) :
            SessionAccepts(profile.rules[i].property, value)

-------------------------------------------------------------------------------
(***************************************************************************)
(* What the patcher writes: _exact_half_points gives up on large exponents *)
(* and on long fractions before it computes. Faulty: one digit too early.  *)
(***************************************************************************)
GivesUpEarly(d) == d.exponent > 3 \/ -d.exponent >= Digits[d.coefficient]

GivesUp(d) == d.exponent > 3 \/ -d.exponent > Digits[d.coefficient] + 1

WrittenHalfPoints(d) ==
    IF ~Positive(d) \/ GivesUp(d) THEN {} ELSE {n \in Exactly(d, 2) : n <= MaxHalfPoints}

WrittenLine(d) == IF Positive(d) THEN {n \in Exactly(d, 240) : n <= MaxLineTwips} ELSE {}

Written(property, d) ==
    IF property = "font_size" THEN WrittenHalfPoints(d) ELSE WrittenLine(d)

(***************************************************************************)
(* Reading back: the observed value is the integer over the unit, and is   *)
(* compared as a number.                                                   *)
(***************************************************************************)
ReadsBackAs(property, n, d) == n \in Exactly(d, UnitOf(property))
===============================================================================
