------------------------------- MODULE Mailbox -------------------------------
(* What the commands of the sketch and of the TCP clients do to the        *)
(* mailbox of the bridge (mailbox.py): a queue of messages for the sketch, *)
(* a key/value store, and the requests written to the TCP clients.         *)
(* Messages and values are texts.                                          *)
EXTENDS Integers, Sequences

CONSTANTS
    Message,    \* raw messages, in either direction, not empty
    Length,     \* their lengths
    Key,
    Value,      \* texts in the data store, not empty
    Empty,      \* the empty text
    Done,       \* the answer of a command that has nothing to tell
    Malformed   \* the answer of DATASTORE_PUT to data without one separator

ASSUME LengthAssumption == Length \in [Message -> Nat]
ASSUME EmptyAssumption == Empty \notin Message

Text == Value \cup {Empty}

Box == [incoming   : Seq(Message),
        data_store : [Key -> Text],
        outgoing   : Seq(Message)]

(* Mailbox.__init__.  A missing key and an empty text are answered alike   *)
(* (mailbox.py:75, 145) and are one here.                                  *)
NewBox == [incoming   |-> <<>>,
           data_store |-> [k \in Key |-> Empty],
           outgoing   |-> <<>>]

(* Commands of the sketch, through the serial line; SEND is SEND_JSON too. *)
Command ==      [op : {"RECV", "AVAILABLE", "DATASTORE_PUT_malformed"}]
           \cup [op : {"SEND"}, msg : Message]
           \cup [op : {"DATASTORE_GET"}, key : Key]
           \cup [op : {"DATASTORE_PUT"}, key : Key, value : Text]

(* AVAILABLE answers with the two low octets of the length.                *)
OCTETS == 65536

Result == Message \cup Text \cup {Done, Malformed} \cup (0 .. OCTETS - 1)

Answer(cmd, box) ==
    CASE cmd.op = "RECV" ->
            IF box.incoming = <<>> THEN Empty ELSE Head(box.incoming)
      [] cmd.op = "AVAILABLE" ->
            IF box.incoming = <<>> THEN 0
            ELSE Length[Head(box.incoming)] % OCTETS
      [] cmd.op = "DATASTORE_GET" -> box.data_store[cmd.key]
      [] cmd.op = "DATASTORE_PUT_malformed" -> Malformed
      [] cmd.op = "DATASTORE_PUT" -> Done
      [] cmd.op = "SEND" -> Empty

(* The mailbox after it.                                                   *)
After(cmd, box) ==
    CASE cmd.op = "RECV" /\ box.incoming # <<>> ->
            [box EXCEPT !.incoming = Tail(@)]
      [] cmd.op = "SEND" -> [box EXCEPT !.outgoing = Append(@, cmd.msg)]
      [] cmd.op = "DATASTORE_PUT" ->
            [box EXCEPT !.data_store[cmd.key] = cmd.value]
      [] OTHER -> box

(* Commands of a TCP client that change the mailbox ("get" does not).      *)
ExtCommand ==      [op : {"raw"}, data : Message]
              \cup [op : {"put"}, key : Key, value : Text]
              \cup [op : {"delete"}, key : Key]

ext_command(cmd, box) ==
    CASE cmd.op = "raw" -> [box EXCEPT !.incoming = Append(@, cmd.data)]
      [] cmd.op = "put" -> [box EXCEPT !.data_store[cmd.key] = cmd.value]
      [] cmd.op = "delete" -> [box EXCEPT !.data_store[cmd.key] = Empty]
=============================================================================
