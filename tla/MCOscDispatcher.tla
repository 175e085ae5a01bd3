-------------------------- MODULE MCOscDispatcher --------------------------
\* The letters s, i, h and b of the type tags also write addresses: /s stands
\* for /loopercontrol, /s/i for an address below it.
EXTENDS OscDispatcher

Chars == <<"/", ",", "#", "*", "s", "i", "h", "b", "T", "F", "N", "[", "]", "?", "{", "}", "!">>
MCCode == [c \in Range(Chars) |-> CHOOSE k \in DOMAIN Chars : Chars[k] = c]
Spelled(chars) == [k \in DOMAIN chars |-> MCCode[chars[k]]]

Prefix == Spelled(<<"/", "s">>)
Below == Spelled(<<"/", "s", "/", "i">>)
Other == Spelled(<<"/", "h">>)
MCAddress == {Prefix \o Spelled(<<"/", "*">>), Other}

Message(address, args) ==
    [dgram |-> BuildMessage(address, args),
     says |-> <<[at |-> 1, due |-> 0, msg |-> [address |-> address, args |-> args]]>>]

\* What an element says in a bundle for time t, where it stands behind n bytes.
Within(p, t, n) == [k \in DOMAIN p.says |->
    [p.says[k] EXCEPT !.at = @ + n, !.due = IF @ = 0 THEN t ELSE @]]
Bundle(t, ps) ==
    LET built == [k \in DOMAIN ps |-> ps[k].dgram]
        before(k) == Len(BuildBundle(t, SubSeq(built, 1, k - 1))) + 4
    IN [dgram |-> BuildBundle(t, built),
        says |-> FlattenSeq([k \in DOMAIN ps |-> Within(ps[k], t, before(k))])]

Letters(n) == S([k \in 1..n |-> Code["b"]])
Command == Message(Below, <<Letters(4)>>)

MCPackets == {
    Command,                                          \* its string fills a word
    Message(Prefix, <<Letters(2)>>),                  \* the plugin's: outside the mapping
    Message(Below, <<Letters(64)>>),                  \* cut inside the string
    Message(Other, <<L(<<I(7), S(<< >>)>>), Flag(TRUE)>>),
    Message(Spelled(<<"/", "[", "!", "s", "]">>), <<I(-80000), Nil>>),
    Message(Spelled(<<"/", "{", "h", ",", "s", "}", "/", "?">>), <<B(<<1, 0>>)>>),
    Bundle(3, <<Bundle(2, <<Command>>), Message(Other, <<I(80000)>>)>>),
    Bundle(2, <<Message(Other, << >>), Bundle(1, <<Command>>)>>),
    \* Cut: inside the second message's string, right after its size, and
    \* right after its address.
    Bundle(1, <<Message(Other, << >>), Message(Below, <<Letters(64)>>)>>),
    Bundle(1, <<Message(Other, <<Letters(40)>>), Command>>),
    Bundle(2, <<Message(Other, <<Letters(16)>>), Bundle(1, <<Command>>)>>)}
=============================================================================
