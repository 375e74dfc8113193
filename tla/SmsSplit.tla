------------------------------ MODULE SmsSplit ------------------------------
(***************************************************************************)
(* One message becomes parts: send1sms chooses how many and how they are   *)
(* numbered, make_pdu packs each part behind its header, and a receiver,   *)
(* with the code smsd reads messages with (pdu.c), unpacks the parts.      *)
(*                                                                         *)
(* A text is its length, a part the range of positions it holds, a header  *)
(* the sequence of its elements; of the packing of septets the position of *)
(* the first bit is kept.  The receiver gets the parts in their order, and *)
(* all of them: losing and repeating them is the matter of SmsSpool and    *)
(* SmsReceive.                                                             *)
(***************************************************************************)
EXTENDS Integers, Sequences, SequencesExt

CONSTANTS
    Messages,   \* alphabet, length, split, own: octets of the sender's header elements
    First,      \* where the references begin, getrand(255)
    None

maxsms_pdu    == 160    \* septets
maxsms_ucs2   == 140    \* octets
maxsms_binary == 140

(* "utf8": a text in UTF-8 that turns out to need GSM characters only.     *)
Alphabet == {"gsm", "utf8", "ucs2", "binary"}

VARIABLES
    msg,        \* the message, None before
    plan,       \* how it is split: parts, each, reserved, split
    part,       \* the part that is next, from 0
    concatenated_id,
    pdu,        \* the last one sent
    read        \* the receiver: how far it has the text, and the last numbers
vars == <<msg, plan, part, concatenated_id, pdu, read>>

TypeOK ==
    /\ msg \in Messages \cup {None}
    /\ plan = None \/ plan \in [parts : Nat, each : Nat, reserved : Nat, split : 0 .. 3]
    /\ part \in Nat
    /\ concatenated_id \in 0 .. 255
    /\ pdu = None \/ DOMAIN pdu = {"header", "fill", "from", "to"}
    /\ read.to \in Nat

Init ==
    /\ msg = None /\ plan = None /\ part = 0
    /\ concatenated_id \in First
    /\ pdu = None
    /\ read = [to |-> 0, number |-> None]

-----------------------------------------------------------------------------
(* send1sms: how the text is split.                                        *)
PartsFor(length, each) == (length + each - 1) \div each

Plan(length, max, reserved, split) ==
    [parts |-> PartsFor(length, max - reserved), each |-> max - reserved,
     reserved |-> reserved, split |-> split]

Uncut(max, split) == [parts |-> 1, each |-> max, reserved |-> 0, split |-> split]
Failed            == [parts |-> 0, each |-> 1, reserved |-> 0, split |-> 0]

(* Mutant: the room is reserved for the number of parts of the first guess.*)
NumberedTextOnce(length, max, width) ==
    LET P(n) == Plan(length, max, n * width, 2)
    IN  IF P(4).parts <= 99 THEN P(4) ELSE IF P(8).parts <= 255 THEN P(8) ELSE Failed

(* "1/9 ", "11/99 " or "111/255 " in front of the text: more parts need    *)
(* longer numbers, which leave less room.                                  *)
NumberedText(length, max, width) ==
    LET P(n) == Plan(length, max, n * width, 2)
    IN  CASE P(4).parts <= 9 -> P(4)
          [] P(4).parts > 9 /\ P(6).parts <= 99 -> P(6)
          [] P(4).parts > 9 /\ P(6).parts > 99 /\ P(8).parts <= 255 -> P(8)
          [] OTHER -> Failed

(* The size of a part is chosen before the alphabet of a text in UTF-8 is. *)
SplitText(m) ==
    LET max   == IF m.alphabet = "gsm" THEN maxsms_pdu ELSE maxsms_ucs2
        wide  == m.alphabet = "ucs2"
        split == IF m.own > 0 THEN 0 ELSE m.split
    IN  IF split = 0 \/ m.length <= max THEN Uncut(max, split)
        ELSE CASE split = 1 -> Plan(m.length, max, 0, 1)
               [] split = 2 -> NumberedText(m.length, max, IF wide THEN 2 ELSE 1)
               [] split = 3 -> Plan(m.length, max, IF wide THEN 6 ELSE 7, 3)

(* The sender's header is the beginning of binary data.                    *)
SplitBinary(m) ==
    IF m.length <= maxsms_binary THEN Uncut(maxsms_binary, m.split)
    ELSE IF m.split = 0 THEN Failed
    ELSE Plan(m.length, maxsms_binary, 6, 3)

Split(m) == IF m.alphabet = "binary" THEN SplitBinary(m) ELSE SplitText(m)

Numbered(p) == p.split = 3 /\ p.parts > 1

(* Mutant: the reference wraps one too late.                               *)
NextIdLate == IF concatenated_id + 1 > 256 THEN 0 ELSE concatenated_id + 1

NextId == IF concatenated_id + 1 > 255 THEN 0 ELSE concatenated_id + 1

send1sms(m) ==
    /\ msg = None
    /\ msg' = m
    /\ plan' = Split(m)
    /\ concatenated_id' = IF Numbered(plan') THEN NextId ELSE concatenated_id
    /\ UNCHANGED <<part, pdu, read>>

-----------------------------------------------------------------------------
(* The header of a part: elements with an identifier and a length; 5 stands*)
(* for what a sender puts there, 0 is the concatenation.                   *)
Own    == <<[id |-> 5, length |-> msg.own - 3]>>
Number == <<[id |-> 0, length |-> 3, data |-> <<concatenated_id, plan.parts, part + 1>>]>>

HasOwn == msg.own > 0 /\ part = 0

Header == (IF HasOwn THEN Own ELSE <<>>) \o (IF Numbered(plan) THEN Number ELSE <<>>)

Octets(header) ==
    LET size[n \in 0 .. Len(header)] == IF n = 0 THEN 0 ELSE size[n - 1] + 2 + header[n].length
    IN  IF header = <<>> THEN 0 ELSE 1 + size[Len(header)]

(* Where the data of the part begin and end in the message; its own header *)
(* is not among the data.                                                  *)
From == IF msg.alphabet = "binary" /\ HasOwn THEN msg.own ELSE part * plan.each
To   == LET end == (part + 1) * plan.each IN IF end < msg.length THEN end ELSE msg.length

Septets(octets)  == (octets * 8 + 6) \div 7
fillbits(octets) == IF octets % 7 = 0 THEN 0 ELSE 7 - (octets % 7)

Least(a, b) == IF a < b THEN a ELSE b

(* make_pdu with text2pdu: septets behind bits that fill the last septet of*)
(* the header; the text is cut at what fits.                               *)
text2pdu ==
    LET octets == Octets(Header)
        number == IF plan.split = 2 /\ plan.parts > 1 THEN plan.reserved ELSE 0
    IN  [header |-> Header, fill |-> fillbits(octets), from |-> From,
         to |-> Least(To, From + maxsms_pdu - Septets(octets) - number)]

(* make_pdu with binary2pdu: the octets, whatever the header is.           *)
binary2pdu == [header |-> Header, fill |-> 0, from |-> From, to |-> To]

make_pdu == IF msg.alphabet \in {"gsm", "utf8"} THEN text2pdu ELSE binary2pdu

(* How large the user data of a part are, in bits.                         *)
Size(p) ==
    LET number == IF plan.split = 2 /\ plan.parts > 1 THEN plan.reserved ELSE 0
        width  == IF msg.alphabet \in {"gsm", "utf8"} THEN 7 ELSE 8
    IN  8 * Octets(p.header) + p.fill + width * (number + p.to - p.from)

-----------------------------------------------------------------------------
(* The receiver.  pdu2text skips the septets the header takes, pdu2binary  *)
(* its octets; get_remove_concatenation looks for the element with the     *)
(* numbers.  A number above 255 is not written in two digits, and all that *)
(* follows is out of place.                                                *)
get_concatenation(header) ==
    LET found == SelectInSeq(header, LAMBDA e : e.id \in {0, 8})
    IN  IF found = 0 THEN None ELSE header[found].data

Readable(p) ==
    /\ \A i \in DOMAIN p.header :
          p.header[i].id = 0 => \A j \in 1 .. 3 : p.header[i].data[j] \in 0 .. 255
    /\ msg.alphabet \in {"gsm", "utf8"} =>
          8 * Octets(p.header) + p.fill = 7 * Septets(Octets(p.header))

(* Text that does not follow what was read before leaves a hole.           *)
Unpack(p) ==
    IF Readable(p) /\ p.from = (IF read.to = 0 THEN p.from ELSE read.to)
    THEN [to |-> p.to, number |-> get_concatenation(p.header)]
    ELSE read

SendPart ==
    /\ msg # None /\ part < plan.parts
    /\ pdu' = make_pdu
    /\ read' = Unpack(pdu')
    /\ part' = part + 1
    /\ UNCHANGED <<msg, plan, concatenated_id>>

Next == SendPart \/ \E m \in Messages : send1sms(m)

Spec == Init /\ [][Next]_vars

-----------------------------------------------------------------------------
(* Digits of a number.                                                     *)
Digits(n) == IF n > 99 THEN 3 ELSE IF n > 9 THEN 2 ELSE 1

(* Two ways out of the limits the code does not look at: more than 255     *)
(* parts, with the numbers in the header and not a plain GSM text; and a   *)
(* header of the sender in front of 140 octets of UCS2.                    *)
TooMany  == plan.parts > 255 /\ plan.split = 3 /\ msg.alphabet # "gsm"
TooLarge == msg.alphabet = "ucs2" /\ msg.own > 0 /\ msg.length > maxsms_ucs2 - msg.own

(* However long a message is and however it is numbered, each part fits    *)
(* into the 140 octets of a short message, a number in front of the text   *)
(* into the room left for it, and the receiver reads each part where it    *)
(* was written, with the numbers it was given, up to the end of the text:  *)
(* all of it, but for a message that is not to be split.                   *)
ReadAsSent ==
    msg # None /\ part > 0 /\ ~ TooMany /\ ~ TooLarge =>
       /\ Size(pdu) <= 8 * 140
       /\ read.to = pdu.to
       /\ Numbered(plan) => read.number = <<concatenated_id, plan.parts, part>>
       /\ plan.split = 2 /\ plan.parts > 1 =>
             Digits(part) + Digits(plan.parts) + 2
                <= plan.reserved \div (IF msg.alphabet = "ucs2" THEN 2 ELSE 1)
       /\ part = plan.parts /\ plan.split > 0 => read.to = msg.length
=============================================================================
