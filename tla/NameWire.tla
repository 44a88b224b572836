------------------------------ MODULE NameWire ------------------------------
(***************************************************************************)
(* Names in DNS messages (_fqdn/_wire.py, FQDN.encode and FQDN.decode_at).   *)
(* A message is a sequence of octets, and a label's text is one octet, even  *)
(* for lower case and odd for upper.  A reading is one loop of read_labels:  *)
(* the position, the labels taken so far, where the record goes on, the      *)
(* pointers followed.                                                        *)
(***************************************************************************)
EXTENDS Names

CONSTANTS
    Letter,         \* the octet of the label 0, even, below those of a label
    LastLetter,     \* the last octet a label may hold (0x7E)
    MaxLabel,       \* the longest label, in octets (63)
    MaxPointers     \* the most compression pointers of one name (32)

Pointer == 192

ASSUME WireAssumption ==
    /\ Letter \in Nat /\ Letter % 2 = 0 /\ LastLetter \in Nat
    /\ MaxLabel \in 1..(Pointer - 1) /\ MaxPointers \in Nat \ {0, 1}

LabelOctet(label) == Letter + 2 * label.key + IF label.upper THEN 1 ELSE 0

\* The labels a name can hold, besides the empty one: printable ones.
Writable == {label \in Label : LabelOctet(label) <= LastLetter}

\* The labels of a name, each behind its length.
LabelOctets(labels) ==
    FlattenSeq([i \in DOMAIN labels |-> <<1, LabelOctet(labels[i])>>])

Encode(name) == LabelOctets(name.labels) \o <<0>>

Reading(data, offset) ==
    [data |-> data, pos |-> offset, labels |-> <<>>, end |-> -1,
     visited |-> {}, pointers |-> 0, size |-> 1]

\* data[pos] of the code, counted from zero.
Octet(r, at) == r.data[at + 1]

Within(r) == r.pos < Len(r.data)

AtPointer(r) == Within(r) /\ Octet(r, r.pos) >= Pointer

Target(r) == 256 * (Octet(r, r.pos) - Pointer) + Octet(r, r.pos + 1)

CanFollow(r) ==
    /\ AtPointer(r)
    /\ r.pos + 1 < Len(r.data)
    /\ Target(r) \notin r.visited
    /\ r.pointers < MaxPointers

\* Mutant: the pointers followed are not kept.
Followed_Forgets(r) ==
    [r EXCEPT !.end = IF r.end = -1 THEN r.pos + 2 ELSE r.end, !.pos = Target(r)]

Followed(r) ==
    [r EXCEPT !.end = IF r.end = -1 THEN r.pos + 2 ELSE r.end,
              !.pos = Target(r),
              !.visited = r.visited \union {Target(r)},
              !.pointers = r.pointers + 1]

AtRoot(r) == Within(r) /\ Octet(r, r.pos) = 0

CanTake(r) ==
    /\ Within(r)
    /\ Octet(r, r.pos) \in 1..MaxLabel
    /\ r.pos + 1 + Octet(r, r.pos) <= Len(r.data)
    /\ r.size + 1 + Octet(r, r.pos) <= MaxName + 2

Taken(r) ==
    LET length == Octet(r, r.pos)
    IN  [r EXCEPT !.labels = Append(@, SubSeq(r.data, r.pos + 2, r.pos + 1 + length)),
                  !.size = @ + 1 + length,
                  !.pos = @ + 1 + length]

\* Mutant: the record goes on where the root was read.
EndOf_AtRoot(r) == r.pos + 1

\* The offset in the record after the name, once the root is reached.
EndOf(r) == IF r.end = -1 THEN r.pos + 1 ELSE r.end

IsLabel(octets) == \A i \in DOMAIN octets : octets[i] \in (Letter + 2)..LastLetter

\* decode_at, once the labels are read: never the root alone, always absolute.
Decoded(r) ==
    IF r.labels = <<>> \/ \E i \in DOMAIN r.labels : ~IsLabel(r.labels[i]) THEN Bad
    ELSE FromLabels([i \in DOMAIN r.labels |->
                        [key |-> (r.labels[i][1] - Letter) \div 2,
                         upper |-> r.labels[i][1] % 2 = 1]], TRUE)
=============================================================================
