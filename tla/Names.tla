------------------------------- MODULE Names -------------------------------
(***************************************************************************)
(* The domain names of netimps (_fqdn/_name.py): the constructor, the       *)
(* operations that derive a name from another, and the relations between    *)
(* two names.  A label is its folded text, an integer as labels are         *)
(* ordered, and its spelling; the label 0 is the empty one.  Every label    *)
(* takes one octet, so MaxName octets hold (MaxName + 1) \div 2 labels.     *)
(***************************************************************************)
EXTENDS Naturals, Sequences, SequencesExt, FiniteSetsExt

CONSTANTS
    Digits,     \* the folded labels that are numbers
    Quad,       \* how many numbers in a row read as an address (four)
    MaxName     \* the longest name, in printed octets (253)

ASSUME NamesAssumption == Quad \in Nat \ {0} /\ MaxName \in Nat \ {0}

None == [none |-> TRUE]
Bad == [error |-> TRUE]

Label == [key : Nat, upper : BOOLEAN]

Octets(labels) == 2 * Len(labels) - 1

\* Mutant: no length is looked at.
FromLabels_AnyLength(labels, absolute) ==
    IF labels = <<>> THEN Bad ELSE [labels |-> labels, absolute |-> absolute]

\* What the algebra builds from labels of names that were already accepted:
\* only their total length is looked at again.
FromLabels(labels, absolute) ==
    IF labels = <<>> \/ Octets(labels) > MaxName THEN Bad
    ELSE [labels |-> labels, absolute |-> absolute]

ReadsAsAddress(labels) ==
    Len(labels) = Quad /\ \A i \in DOMAIN labels : labels[i].key \in Digits

\* A part is a name, or a text: its labels and whether a dot ends it, the
\* root alone having no labels and its dot.
FQDN(parts) ==
    LET labels == FlattenSeq([i \in DOMAIN parts |-> parts[i].labels])
        last == Len(parts)
        misplaced == \E i \in 1..(last - 1) : parts[i].text /\ parts[i].absolute
        blank == \E i \in DOMAIN parts :
                    parts[i].labels = <<>> /\ ~parts[i].absolute
        empty == \E i \in DOMAIN labels : labels[i].key = 0
    IN  IF \/ labels = <<>> \/ misplaced \/ blank \/ empty
           \/ ReadsAsAddress(labels) \/ Octets(labels) > MaxName
        THEN Bad
        ELSE [labels |-> labels, absolute |-> parts[last].absolute]

\* str(name) given back to the constructor.
Text(name) == [labels |-> name.labels, absolute |-> name.absolute, text |-> TRUE]

Key(name) == [i \in DOMAIN name.labels |-> name.labels[i].key]

Ending(s, n) == SubSeq(s, Len(s) - n + 1, Len(s))

Same(a, b) == Key(a) = Key(b) /\ a.absolute = b.absolute

Domain(name) ==
    IF Len(name.labels) <= 1 THEN None
    ELSE FromLabels(Tail(name.labels), name.absolute)

Domains(name) ==
    [i \in 1..(Len(name.labels) - 1) |->
        FromLabels(Ending(name.labels, Len(name.labels) - i), name.absolute)]

Qualified(name, absolute) == FromLabels(name.labels, absolute)

\* name / other: the labels of other come first, the root is name's.
Under(name, other) == FromLabels(other.labels \o name.labels, name.absolute)

WithHostname(name, hostname) ==
    IF Len(hostname.labels) # 1 THEN Bad
    ELSE FromLabels(hostname.labels \o Tail(name.labels), name.absolute)

IsSubdomainOf(name, other) ==
    /\ Len(name.labels) > Len(other.labels)
    /\ Ending(Key(name), Len(other.labels)) = Key(other)

\* other in name: at or under it.
AtOrUnder(name, other) ==
    /\ Len(other.labels) >= Len(name.labels)
    /\ Ending(Key(other), Len(name.labels)) = Key(name)

RelativeTo(name, other) ==
    IF ~IsSubdomainOf(name, other) THEN Bad
    ELSE FromLabels(SubSeq(name.labels, 1, Len(name.labels) - Len(other.labels)),
                    FALSE)

Reversed(name) == FromLabels(Reverse(name.labels), name.absolute)

\* The labels the two share, counted from the right up to the first that differs.
Shared(a, b) ==
    Max({n \in 0..Min({Len(a.labels), Len(b.labels)}) :
            Ending(Key(a), n) = Ending(Key(b), n)})

CommonAncestor(name, other) ==
    IF Shared(name, other) = 0 THEN None
    ELSE FromLabels(Ending(name.labels, Shared(name, other)), name.absolute)

\* The order of tuples: the first difference decides, then the length.
Before(s, t) ==
    \/ \E i \in DOMAIN s \cap DOMAIN t :
          s[i] < t[i] /\ \A j \in 1..(i - 1) : s[j] = t[j]
    \/ Len(s) < Len(t) /\ \A j \in DOMAIN s : s[j] = t[j]

\* By reversed folded labels, and of two equal ones the relative name first.
Less(a, b) ==
    LET left == Reverse(Key(a))
        right == Reverse(Key(b))
    IN  Before(left, right) \/ (left = right /\ ~a.absolute /\ b.absolute)
=============================================================================
