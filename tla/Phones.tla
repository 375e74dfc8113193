------------------------------- MODULE Phones -------------------------------
(* The programs of the telephone lines and of the modems, side by side: the *)
(* driver of the telephone ports, and the SMS server.  The driver shares    *)
(* nothing with the SMS server, whose parts are taken one by one: the files *)
(* of messages to send, those of messages received, one modem process      *)
(* talking to its modem, the loop of a modem process, and the splitting of  *)
(* a message.  A step is a step of one of them.  SmsSpool, the largest, is  *)
(* extended; the others are instances.                                      *)
EXTENDS SmsSpool

CONSTANTS
    PORTS, Chan, Digit, Extension, EVENTS_MAX,   \* of ChanLantiq
    Incoming, InParts, Reference, Earlier, MEMORY,  \* of SmsReceive
    TRIES, REOPEN, WAIT, Pins, NetworkChecks,    \* of SmsModem
    Call, LIMIT, ERRORS, Devices,                \* of SmsDevice
    Texts, First                                 \* of SmsSplit

(* initmodem: a port is opened again before the last try.                   *)
ASSUME ModemAssumption ==
    /\ TRIES \in Nat \ {0} /\ REOPEN \in 1 .. TRIES
    /\ WAIT \in Nat \ {0}
    /\ NetworkChecks \subseteq 0 .. 2

(* smsd_cfg.c: message_limit, where there is one, and phonecalls_error_max  *)
(* are positive numbers.                                                    *)
ASSUME DeviceAssumption == LIMIT \in Nat \ {0} /\ ERRORS \in Nat \ {0}

(* chan_lantiq.c: the keys are not events of the hook, and no channel is the *)
(* name of no channel.                                                      *)
ASSUME LineAssumption ==
    /\ PORTS \in Nat
    /\ None \notin Chan
    /\ Digit \cap {"onhook", "offhook", "#"} = {}

VARIABLES
    pvt, line, timer, chan, iflock, monlock, monitor, mon, unload, keyed, spoiled,
    pending, sim, store, saved, dev, confused,
    mport, mdev, mprog, answer, quick, config, mterm, doubt, wrong,
    DEVICE, dport, string, dproc, queue, count, request, suspend, break_suspend, dterm,
    list, reported, moved,
    msg, plan, next, concatenated_id, pdu, read

L == INSTANCE ChanLantiq

R == INSTANCE SmsReceive WITH Message <- Incoming, Parts <- InParts, Empty <- None,
        excused <- confused

M == INSTANCE SmsModem WITH Settings <- Pins, Checks <- NetworkChecks,
        port <- mport, dev <- mdev, prog <- mprog, terminate <- mterm

D == INSTANCE SmsDevice WITH Settings <- Devices, port <- dport, proc <- dproc,
        terminate <- dterm, spoiled <- moved

P == INSTANCE SmsSplit WITH Messages <- Texts, part <- next

(* smsd.c, received2file: a modem has room for a message; parts are        *)
(* numbered from one; and a sender, who has 256 references, uses the one of *)
(* a message again only when that message is over.                          *)
ASSUME ReceiveAssumption ==
    /\ MEMORY \in Nat \ {0}
    /\ InParts \in [Incoming -> Nat \ {0}]
    /\ Earlier \in [Incoming -> SUBSET Incoming]
    /\ None \notin R!Part
    /\ \A m, n \in Incoming :
          m # n /\ Reference[m] = Reference[n] /\ InParts[m] > 1 /\ InParts[n] > 1
            => m \in Earlier[n] \/ n \in Earlier[m]

(* smsd.c: a text has less than MAXTEXT octets, the header a sender gives    *)
(* fits a short message, and the first reference is an octet.               *)
ASSUME TextsAssumption ==
    /\ First \subseteq 0 .. 255
    /\ None \notin Texts
    /\ \A m \in Texts :
          /\ m.alphabet \in P!Alphabet
          /\ m.length \in Nat /\ m.length <= 39015
          /\ m.split \in 0 .. 3 /\ m.own \in {0} \cup (3 .. 140)

driver  == <<pvt, line, timer, chan, iflock, monlock, monitor, mon, unload, keyed, spoiled>>
receive == <<pending, sim, store, saved, dev, confused>>
modem1  == <<mport, mdev, mprog, answer, quick, config, mterm, doubt, wrong>>
device  == <<DEVICE, dport, string, dproc, queue, count, request, suspend, break_suspend,
             dterm, list, reported, moved>>
split   == <<msg, plan, next, concatenated_id, pdu, read>>
phones  == <<driver, vars, receive, modem1, device, split>>

Driver(A)   == A /\ UNCHANGED <<vars, receive, modem1, device, split>>
Spool(A)    == A /\ UNCHANGED <<driver, receive, modem1, device, split>>
Receive(A)  == A /\ UNCHANGED <<driver, vars, modem1, device, split>>
Dialogue(A) == A /\ UNCHANGED <<driver, vars, receive, device, split>>
Device(A)   == A /\ UNCHANGED <<driver, vars, receive, modem1, split>>
Splits(A)   == A /\ UNCHANGED <<driver, vars, receive, modem1, device>>

PhonesInit == L!Init /\ Init /\ R!Init /\ M!Init /\ D!Init /\ P!Init

PhonesNext ==
    \/ Driver(L!Next) \/ Spool(Next) \/ Receive(R!Next)
    \/ Dialogue(M!Next) \/ Device(D!Next) \/ Splits(P!Next)

PhonesSpec == PhonesInit /\ [][PhonesNext]_phones

-----------------------------------------------------------------------------
(* The variables of each part have their types.                            *)
PhonesTypeOK ==
    L!TypeOK /\ TypeOK /\ R!TypeOK /\ M!TypeOK /\ D!TypeOK /\ P!TypeOK

(* chan_lantiq.c: the owner of a port is a channel that exists and belongs  *)
(* to the port, and, unless a channel was displaced, every channel of the   *)
(* port is its owner.                                                       *)
OwnerMatches == L!OwnerMatches

(* chan_lantiq.c: what will be dialled is what was keyed since the handset  *)
(* was lifted, and no digits are left when nobody dials.                    *)
DialsWhatWasKeyed == L!DialsWhatWasKeyed

(* chan_lantiq.c: when the handset is put down the call it was in ends.     *)
CallEnds == L!CallEnds

(* smsd.c, received2file: a part is deleted from the SIM only when it has   *)
(* been stored, and a message is combined from parts of one message.        *)
NothingLost == R!NothingLost /\ R!OneMessage

(* smsd.c, receivesms: a message whose parts have all come is delivered.    *)
Combined == R!Combined

(* modeminit.c, initmodem: a wrong PIN is entered once.                     *)
WrongPinOnce == M!WrongPinOnce

(* smsd.c, send_part: a part goes to a modem that is ready for it.          *)
SendsWhenReady == M!SendsWhenReady

(* smsd.c, readphonecalls: each missed call is reported once, before it is  *)
(* removed from the modem.                                                  *)
CallsOnce == D!CallsOnce

(* smsd.c, send1sms, and pdu.c: every part fits and is read as it was sent. *)
ReadAsSent == P!ReadAsSent
=============================================================================
