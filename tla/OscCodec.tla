------------------------------ MODULE OscCodec ------------------------------
(***************************************************************************)
(* OSC datagrams as the vendored python_osc builds and parses them:        *)
(* osc_types, OscMessageBuilder, OscMessage, OscBundleBuilder, OscBundle   *)
(* and OscPacket.                                                          *)
(*                                                                         *)
(* A datagram is a sequence of bytes below Base; a string is a sequence of *)
(* non-zero bytes; positions count from 1.  The types on the way of this   *)
(* program's messages are kept (strings), with the integers and blobs that *)
(* bundles and other clients need and the types without data; f, d, r, m   *)
(* and t are further fixed-width fields and left out.  An array nests one  *)
(* deep.  The prefix "#bundle" is shortened to one character.  A parsing   *)
(* function returns a value and the next position, or Bad for the          *)
(* ParseError of the code; a bundle can also be parsed without end.  Where *)
(* a bundle's elements are, the sizes in it say, so these positions are    *)
(* Python's indices, which may be negative; a blob's size is not.          *)
(***************************************************************************)
EXTENDS Integers, SequencesExt, FiniteSetsExt

CONSTANTS
    Base,       \* a byte is 0..Base-1
    Code,       \* the byte of each character that the format names
    Epoch       \* seconds from the NTP epoch to the system's

ASSUME BaseAssumption == Base \in Nat /\ Base > 4 /\ Base % 2 = 0
ASSUME CodeAssumption ==
    /\ {"/", ",", "#", "s", "i", "h", "b", "T", "F", "N", "[", "]"} \subseteq DOMAIN Code
    /\ \A c \in DOMAIN Code : Code[c] \in 1..Base - 1
    /\ IsInjective(Code)
ASSUME EpochAssumption == Epoch \in Nat \ {0, 1}

Byte == 0..Base - 1
Datagram == Seq(Byte)
Text == Seq(Byte \ {0})

Bad == [ok |-> FALSE]
Endless == [ok |-> FALSE, ends |-> FALSE]
Got(v, next) == [ok |-> TRUE, val |-> v, next |-> next]

From(d, i) == SubSeq(d, i, Len(d))

\* Python's dgram[a:b]: from 0, negative indices from the end.
Slice(d, a, b) ==
    LET at(i) == IF i >= 0 THEN Min({i, Len(d)}) ELSE Max({Len(d) + i, 0})
    IN SubSeq(d, at(a) + 1, at(b))
Nul(n) == [i \in 1..n |-> 0]
Padding(n) == (4 - (n % 4)) % 4

----------------------------------------------------------------------------
(* osc_types *)

\* Fault: a string whose length is a multiple of four gets no terminator.
WriteStringUnterminated(s) == s \o Nul(Padding(Len(s)))

\* One to four zero bytes follow.
WriteString(s) == s \o Nul(4 - (Len(s) % 4))

Ends(d, i) == {j \in i..Len(d) : d[j] = 0}

\* Fault: the end of the datagram ends a string.
GetStringToTheEnd(d, i) ==
    LET n == (IF Ends(d, i) = {} THEN Len(d) + 1 ELSE Min(Ends(d, i))) - i
    IN IF n <= 0 THEN Bad ELSE Got(SubSeq(d, i, i + n - 1), i + 4 * (n \div 4 + 1))

\* Up to the first zero byte; the padding must be there too.
GetString(d, i) ==
    LET n == Min(Ends(d, i)) - i
        total == 4 * (n \div 4 + 1)
    IN IF Ends(d, i) = {} \/ i + total - 1 > Len(d) THEN Bad
       ELSE Got(SubSeq(d, i, i + n - 1), i + total)

\* Big-endian two's complement in n bytes; struct.pack refuses the rest.
Digits(v, n) == [k \in 1..n |-> (v \div Base^(n - k)) % Base]
Fits(v, n) == v \div Base^(n - 1) \in -(Base \div 2)..(Base \div 2) - 1

GetNumber(d, i, n, leading) ==
    IF i + n - 1 > Len(d) THEN Bad
    ELSE Got(FoldLeft(LAMBDA acc, b : acc * Base + b, leading, SubSeq(d, i + 1, i + n - 1)), i + n)
Signed(b) == IF b < Base \div 2 THEN b ELSE b - Base

GetInt(d, i) == GetNumber(d, i, 4, Signed(d[i]))
GetInt64(d, i) == GetNumber(d, i, 8, Signed(d[i]))
GetUint64(d, i) == GetNumber(d, i, 8, d[i])

WriteBlob(b) == Digits(Len(b), 4) \o b \o Nul(Padding(Len(b)))

\* Only the bytes themselves must be there, the padding need not.
GetBlob(d, i) ==
    LET size == GetInt(d, i)
        first == i + 4
    IN IF ~size.ok \/ first + size.val - 1 > Len(d) THEN Bad
       ELSE Got(SubSeq(d, first, first + size.val - 1),
                first + size.val + Padding(size.val))

\* A time tag counts from 1900; the tag 1 means "immediately", time 0.
Immediately == 0
WriteDate(t) == Digits(IF t = Immediately THEN 1 ELSE t + Epoch, 8)

GetDate(d, i) ==
    LET tag == GetUint64(d, i)
    IN IF ~tag.ok THEN Bad
       ELSE Got(IF tag.val = 1 THEN Immediately ELSE tag.val - Epoch, tag.next)

----------------------------------------------------------------------------
(* OscMessageBuilder, OscMessage.  A value is a record whose field names    *)
(* its Python type.                                                         *)

S(text) == [str |-> text]
I(n) == [int |-> n]
B(bytes) == [blob |-> bytes]
Flag(b) == [bool |-> b]
Nil == [nil |-> {}]
L(values) == [list |-> values]

Is(v, type) == type \in DOMAIN v

\* _get_arg_type; an int is 64 bits wide when its magnitude needs 32.
TypeTag(v) ==
    Code[CASE Is(v, "str") -> "s" [] Is(v, "blob") -> "b"
           [] Is(v, "int") -> (IF Fits(v.int, 4) /\ Fits(-v.int, 4) THEN "i" ELSE "h")
           [] Is(v, "bool") -> (IF v.bool THEN "T" ELSE "F")
           [] Is(v, "nil") -> "N" [] Is(v, "open") -> "[" [] Is(v, "close") -> "]"]

\* add_arg: a list becomes its elements between brackets.
Flat(v) ==
    IF Is(v, "list") THEN <<[open |-> {}]>> \o v.list \o <<[close |-> {}]>> ELSE <<v>>
Args(values) == FlattenSeq([k \in DOMAIN values |-> Flat(values[k])])

Data(v) ==
    CASE TypeTag(v) = Code["s"] -> WriteString(v.str)
      [] TypeTag(v) = Code["i"] -> Digits(v.int, 4)
      [] TypeTag(v) = Code["h"] -> Digits(v.int, 8)
      [] TypeTag(v) = Code["b"] -> WriteBlob(v.blob)
      [] OTHER -> << >>

\* build, for an address and values it accepts: it raises BuildError where
\* the address or a blob is empty or an integer needs more than 64 bits.
BuildMessage(address, values) ==
    LET args == Args(values)
        tags == [k \in DOMAIN args |-> TypeTag(args[k])]
    IN WriteString(address) \o WriteString(<<Code[","]>> \o tags)
       \o FlattenSeq([k \in DOMAIN args |-> Data(args[k])])

\* What the parser has when it has read some type tags: the position and the
\* lists still open, innermost last.
Put(st, v) == [st EXCEPT !.open = Append(Front(@), Append(Last(@), v))]
Reads(st, got, v(_)) ==
    IF got.ok THEN Put([st EXCEPT !.next = got.next], v(got.val)) ELSE Bad

ReadParam(d, st, tag) ==
    CASE ~st.ok -> Bad
      [] tag = Code["s"] -> Reads(st, GetString(d, st.next), S)
      [] tag = Code["i"] -> Reads(st, GetInt(d, st.next), I)
      [] tag = Code["h"] -> Reads(st, GetInt64(d, st.next), I)
      [] tag = Code["b"] -> Reads(st, GetBlob(d, st.next), B)
      [] tag = Code["T"] -> Put(st, Flag(TRUE))
      [] tag = Code["F"] -> Put(st, Flag(FALSE))
      [] tag = Code["N"] -> Put(st, Nil)
      [] tag = Code["["] -> [st EXCEPT !.open = Append(@, << >>)]
      [] tag = Code["]"] -> IF Len(st.open) < 2 THEN Bad
                            ELSE Put([st EXCEPT !.open = Front(@)], L(Last(st.open)))
      [] OTHER -> st

\* OscMessage._parse_datagram: a message may end after its address.
ParseMessage(d) ==
    LET address == GetString(d, 1)
        tags == GetString(d, address.next)
        first == [ok |-> TRUE, next |-> tags.next, open |-> << << >> >>]
        end == FoldLeft(LAMBDA st, tag : ReadParam(d, st, tag), first, Tail(tags.val))
    IN IF ~address.ok THEN Bad
       ELSE IF address.next > Len(d) THEN Got([address |-> address.val, args |-> << >>], 0)
       ELSE IF ~tags.ok \/ tags.val = << >> THEN Bad
       ELSE IF Head(tags.val) # Code[","] THEN Bad
       ELSE IF ~end.ok THEN Bad
       ELSE IF Len(end.open) # 1 THEN Bad
       ELSE Got([address |-> address.val, args |-> Head(end.open)], 0)

IsMessage(d) == d # << >> /\ Head(d) = Code["/"]

----------------------------------------------------------------------------
(* OscBundleBuilder, OscBundle, OscPacket *)

BundlePrefix == WriteString(<<Code["#"]>>)
IsBundle(d) == IsPrefix(BundlePrefix, d)

BuildBundle(time, contents) ==
    BundlePrefix \o WriteDate(time)
    \o FlattenSeq([k \in DOMAIN contents |-> Digits(Len(contents[k]), 4) \o contents[k]])

Timed(msgs) == [ok |-> TRUE, msgs |-> msgs]

\* Fault: the elements before one that does not parse are kept.
WithRestSalvaged(here, rest) ==
    IF ~here.ok THEN Timed(<< >>) ELSE IF ~rest.ok THEN here ELSE Timed(here.msgs \o rest.msgs)

\* One element that is bad, or has no end, spoils the whole bundle.
WithRest(here, rest) ==
    IF ~here.ok THEN here ELSE IF ~rest.ok THEN rest ELSE Timed(here.msgs \o rest.msgs)

\* _parse_contents: the messages of the elements from index i on, nested ones
\* included; an element that looks like neither message nor bundle is
\* skipped.  A negative size moves the index back: whoever comes to an index
\* it was at before goes round for ever.
Elements[d \in Datagram, i \in Int, due \in Int, seen \in SUBSET Int] ==
    LET size == GetInt(Slice(d, i, i + 4), 1)
        next == i + 4 + size.val
        content == Slice(d, i + 4, next)
        date == GetDate(content, Len(BundlePrefix) + 1)
        message == ParseMessage(content)
        here == IF IsBundle(content)
                THEN IF date.ok THEN Elements[content, date.next - 1, date.val, {}] ELSE Bad
                ELSE IF ~IsMessage(content) THEN Timed(<< >>)
                ELSE IF message.ok THEN Timed(<<[due |-> due, msg |-> message.val]>>) ELSE Bad
    IN IF Slice(d, i, Len(d)) = << >> THEN Timed(<< >>)
       ELSE IF i \in seen THEN Endless
       ELSE IF ~size.ok THEN Bad
       ELSE WithRest(here, Elements[d, next, due, seen \cup {i}])

\* Past and immediate messages are due now.
DueAt(m, now) == [m EXCEPT !.due = IF @ = Immediately \/ @ < now THEN now ELSE @]

\* Fault: the messages of a bundle stay in the order they were written.
InOrderWritten(ms) == ms

\* sorted(key = time), which is stable: the k-th message has k - 1 before it.
Before(ms, i) ==
    {j \in DOMAIN ms : ms[j].due < ms[i].due \/ (ms[j].due = ms[i].due /\ j < i)}
InOrder(ms) ==
    [k \in DOMAIN ms |-> ms[CHOOSE i \in DOMAIN ms : Cardinality(Before(ms, i)) = k - 1]]

\* The messages of a packet with the time tag of the innermost bundle.
ReadPacket(d) ==
    LET date == GetDate(d, Len(BundlePrefix) + 1)
        message == ParseMessage(d)
    IN IF IsBundle(d)
       THEN IF date.ok THEN Elements[d, date.next - 1, date.val, {}] ELSE Bad
       ELSE IF ~IsMessage(d) \/ ~message.ok THEN Bad
       ELSE Timed(<<[due |-> Immediately, msg |-> message.val]>>)

\* OscPacket's messages: when each is due, soonest first.
Messages(content, now) ==
    InOrder([k \in DOMAIN content.msgs |-> DueAt(content.msgs[k], now)])
=============================================================================
