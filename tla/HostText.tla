------------------------------ MODULE HostText ------------------------------
(***************************************************************************)
(* A host and a port as one text (_ip/_hosttext.py).  A text is a sequence   *)
(* of tokens: "[", "]", ":", a name, "v6" for the text of an IPv6 address,   *)
(* which holds several colons, "port" for digits that are one and "big" for  *)
(* digits above 65535.                                                       *)
(***************************************************************************)
EXTENDS Naturals, Sequences, SequencesExt

Port == [port |-> 80]
NoPort == [port |-> 0]
Malformed == [error |-> TRUE]

\* Digits after an unbracketed IPv6 address are one more group of it.
IsIPv6Literal(text) == text \in {<<"v6">>, <<"v6", ":", "port">>}

Colons(text) ==
    Cardinality({i \in DOMAIN text : text[i] = ":"})
        + 2 * Cardinality({i \in DOMAIN text : text[i] = "v6"})

ParsePort(text) == IF text = <<"port">> THEN Port ELSE Malformed

\* The text up to the first mark, and what comes after it.
Place(text, mark) == Min({i \in DOMAIN text : text[i] = mark})
Upto(text, mark) == SubSeq(text, 1, Place(text, mark) - 1)
After(text, mark) == SubSeq(text, Place(text, mark) + 1, Len(text))

Pair(host, port) ==
    IF host = <<>> \/ port = Malformed THEN Malformed
    ELSE [host |-> host, port |-> port]

SplitHost(text, default) ==
    CASE text = <<>> -> Malformed
      [] text # <<>> /\ Head(text) = "[" ->
            LET rest == After(text, "]")
            IN  IF ~Contains(text, "]") \/ ~IsIPv6Literal(Tail(Upto(text, "]")))
                THEN Malformed
                ELSE IF rest = <<>> THEN Pair(Tail(Upto(text, "]")), default)
                ELSE IF Head(rest) # ":" THEN Malformed
                ELSE Pair(Tail(Upto(text, "]")), ParsePort(Tail(rest)))
      [] text # <<>> /\ Head(text) # "[" /\ Colons(text) > 1 ->
            IF IsIPv6Literal(text) THEN Pair(text, default) ELSE Malformed
      [] text # <<>> /\ Head(text) # "[" /\ Colons(text) = 1 ->
            Pair(Upto(text, ":"), ParsePort(After(text, ":")))
      [] OTHER -> Pair(text, default)

\* A (host, port) pair: a port in the host and one beside it must agree.
SplitPair(text, port, default) ==
    LET split == SplitHost(text, NoPort)
    IN  IF split = Malformed THEN Malformed
        ELSE IF port = NoPort
        THEN Pair(split.host, IF split.port = NoPort THEN default ELSE split.port)
        ELSE IF split.port \notin {NoPort, port} THEN Malformed
        ELSE Pair(split.host, port)

\* Mutant: an IPv6 address gets no brackets.
JoinHost_Bare(text, port) ==
    IF text = <<>> THEN Malformed
    ELSE [text |-> IF port = NoPort THEN text ELSE text \o <<":", "port">>]

JoinHost(text, port) ==
    LET open == text # <<>> /\ Head(text) = "["
        closed == text # <<>> /\ Last(text) = "]"
        bare == IF open /\ closed THEN SubSeq(text, 2, Len(text) - 1) ELSE text
    IN  CASE text = <<>> \/ open # closed -> Malformed
          [] text # <<>> /\ open /\ closed /\ ~IsIPv6Literal(bare) -> Malformed
          [] OTHER ->
                IF port = NoPort THEN [text |-> bare]
                ELSE [text |-> (IF IsIPv6Literal(bare) THEN <<"[">> \o bare \o <<"]">>
                                ELSE bare) \o <<":", "port">>]
=============================================================================
