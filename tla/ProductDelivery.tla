---------------------------- MODULE ProductDelivery ----------------------------
(***************************************************************************)
(* What a delivery is named: its five files take the name of the uploaded  *)
(* document, made safe. A name is a sequence of characters, told apart by  *)
(* how they are treated.                                                   *)
(***************************************************************************)
EXTENDS Selection, SequencesExt

CONSTANTS
    MaxRawName,  \* the length of an accepted base name
    MaxName      \* the length it is cut to

ASSUME NamesAssumption == MaxRawName \in Nat /\ MaxName \in Nat

Space == " "
Dot == "."
Underscore == "_"
Forbidden == {"/", "control"}  \* not allowed in a file name, or not printable
Reserved == "CON"              \* a device name, taken as one character
Nul == "NUL"

Edge == {Space, Dot}

(***************************************************************************)
(* What is left of a name without the characters of a set at its end; the  *)
(* spaces at its start.                                                    *)
(***************************************************************************)
StripEnd(name, chars) ==
    LET last == SelectLastInSeq(name, LAMBDA c : c \notin chars)
    IN  SubSeq(name, 1, last)

StripStart(name) ==
    LET first == SelectInSeq(name, LAMBDA c : c # Space)
    IN  IF first = 0 THEN <<>> ELSE SubSeq(name, first, Len(name))

Replaced(name) == [i \in DOMAIN name |-> IF name[i] \in Forbidden THEN Underscore ELSE name[i]]

IsRepeated(name, i) == i > 1 /\ name[i] = name[i - 1] /\ name[i] \in {Space, Underscore}

Collapsed(name) == Selected(name, {i \in DOMAIN name : ~IsRepeated(name, i)})

IsCanonicalBase(name) ==
    /\ name # <<>>
    /\ name[1] # Dot
    /\ Last(name) \notin Edge
    /\ ~(name[1] = Reserved /\ (Len(name) = 1 \/ name[2] = Dot))

Cut(name) == IF Len(name) > MaxName THEN StripEnd(SubSeq(name, 1, MaxName), Edge) ELSE name

(***************************************************************************)
(* canonicalize_delivery_base_name; a name that is refused is in no set. A *)
(* name is validated again once it is cut. Faulty: it is not.              *)
(***************************************************************************)
Cleaned(raw) == StripEnd(Collapsed(Replaced(StripEnd(StripStart(raw), {Space}))), Edge)

IsAccepted(raw) ==
    /\ Len(raw) \in 1 .. MaxRawName
    /\ Nul \notin ToSet(raw)
    /\ IsCanonicalBase(Cleaned(raw))

ValidatedBeforeTheCut(raw) == {Cut(name) : name \in {n \in {Cleaned(raw)} : IsAccepted(raw)}}

CanonicalBaseName(raw) ==
    {base \in {Cut(Cleaned(raw))} : IsAccepted(raw) /\ IsCanonicalBase(base)}

-------------------------------------------------------------------------------
(***************************************************************************)
(* DeliveryFile and ProductDelivery validate what they are built from.     *)
(***************************************************************************)
NameIsSafe(base) ==
    /\ base # <<>> /\ base[1] # Dot /\ Last(base) \notin Edge
    /\ \A i \in DOMAIN base : base[i] # "/"
    /\ Len(base) <= MaxName

Delivery(base, contents) == [base |-> base, files |-> contents]

NoDelivery == [base |-> <<>>, files |-> <<>>]
================================================================================
