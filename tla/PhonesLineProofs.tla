-------------------------- MODULE PhonesLineProofs --------------------------
(* Proofs about the driver of the telephone ports: a port and its channel   *)
(* name each other, and what is dialled is what was keyed.  At the end, with*)
(* the invariants of the other parts, the types of all of Phones.           *)
EXTENDS PhonesProofs, SmsSpoolProofs

-----------------------------------------------------------------------------
(* The record of the state that the functions of the driver work on.        *)
PvtRec == [state : L!State, owner : Chan \cup {None}, dial_timer : BOOLEAN,
           dtmfbuf : Seq(Digit)]
LineRec == [hook : {"on", "off"}, bell : BOOLEAN, events : Seq(L!Event)]
TimerRec == [own : BOOLEAN, orphans : Nat, callback : {"no", "begun", "dial"}]
ChanRec == [st : L!ChanState, port : L!Port \cup {None}, frames : SUBSET {"ANSWER", "HANGUP"}]

PhoneState == [pvt : [L!Port -> PvtRec], line : [L!Port -> LineRec],
               timer : [L!Port -> TimerRec], chan : [Chan -> ChanRec],
               keyed : [L!Port -> Seq(Digit)], spoiled : [L!Port -> SUBSET L!Reason]]

(* What no function of the driver changes: the handset, its events and what *)
(* was keyed; and what has gone wrong stays so.                             *)
Keeps(s, t) ==
    /\ t \in PhoneState
    /\ t.keyed = s.keyed
    /\ \A q \in L!Port :
          /\ t.line[q].hook = s.line[q].hook /\ t.line[q].events = s.line[q].events
          /\ s.spoiled[q] \subseteq t.spoiled[q]

(* One port or one channel changes.                                         *)
WithPvt(s, p, x)   == [s EXCEPT !.pvt = [s.pvt EXCEPT ![p] = x]]
WithLine(s, p, x)  == [s EXCEPT !.line = [s.line EXCEPT ![p] = x]]
WithTimer(s, p, x) == [s EXCEPT !.timer = [s.timer EXCEPT ![p] = x]]
WithChan(s, c, x)  == [s EXCEPT !.chan = [s.chan EXCEPT ![c] = x]]

LEMMA PutPvt ==
  ASSUME NEW s \in PhoneState, NEW p \in L!Port, NEW x \in PvtRec
  PROVE  LET t == WithPvt(s, p, x)
         IN  /\ Keeps(s, t) /\ t.chan = s.chan /\ t.spoiled = s.spoiled
             /\ t.line = s.line /\ t.timer = s.timer
             /\ \A q \in L!Port : t.pvt[q] = IF q = p THEN x ELSE s.pvt[q]
  BY DEF PhoneState, Keeps, WithPvt

LEMMA PutLine ==
  ASSUME NEW s \in PhoneState, NEW p \in L!Port, NEW x \in LineRec
  PROVE  LET t == WithLine(s, p, x)
         IN  /\ t \in PhoneState
             /\ t.chan = s.chan /\ t.spoiled = s.spoiled /\ t.keyed = s.keyed
             /\ t.pvt = s.pvt /\ t.timer = s.timer
             /\ \A q \in L!Port : t.line[q] = IF q = p THEN x ELSE s.line[q]
  BY DEF PhoneState, WithLine

LEMMA PutTimer ==
  ASSUME NEW s \in PhoneState, NEW p \in L!Port, NEW x \in TimerRec
  PROVE  LET t == WithTimer(s, p, x)
         IN  /\ Keeps(s, t) /\ t.chan = s.chan /\ t.spoiled = s.spoiled
             /\ t.line = s.line /\ t.pvt = s.pvt
             /\ \A q \in L!Port : t.timer[q] = IF q = p THEN x ELSE s.timer[q]
  BY DEF PhoneState, Keeps, WithTimer

LEMMA PutChan ==
  ASSUME NEW s \in PhoneState, NEW c \in Chan, NEW x \in ChanRec
  PROVE  LET t == WithChan(s, c, x)
         IN  /\ Keeps(s, t) /\ t.spoiled = s.spoiled
             /\ t.line = s.line /\ t.pvt = s.pvt /\ t.timer = s.timer
             /\ \A b \in Chan : t.chan[b] = IF b = c THEN x ELSE s.chan[b]
  BY DEF PhoneState, Keeps, WithChan

LEMMA SetStateOK ==
  ASSUME NEW s \in PhoneState, NEW p \in L!Port, NEW st \in L!State
  PROVE  LET t == L!SetState(s, p, st)
         IN  /\ Keeps(s, t) /\ t.chan = s.chan /\ t.spoiled = s.spoiled
             /\ \A q \in L!Port :
                   /\ t.pvt[q].owner = s.pvt[q].owner /\ t.pvt[q].dtmfbuf = s.pvt[q].dtmfbuf
                   /\ t.pvt[q].state = IF q = p THEN st ELSE s.pvt[q].state
  BY DEF PhoneState, Keeps, PvtRec, L!SetState

LEMMA RingOK ==
  ASSUME NEW s \in PhoneState, NEW p \in L!Port, NEW on \in BOOLEAN
  PROVE  LET t == L!lantiq_ring(s, p, on)
         IN  /\ Keeps(s, t) /\ t.chan = s.chan /\ t.spoiled = s.spoiled /\ t.pvt = s.pvt
  <1>1. PICK b \in BOOLEAN : b = (on /\ s.line[p].hook = "on")  OBVIOUS
  <1>2. PICK x : x = [s.line[p] EXCEPT !.bell = b]  OBVIOUS
  <1>3. s.line[p] \in LineRec  BY DEF PhoneState
  <1>4. x \in LineRec /\ x.hook = s.line[p].hook /\ x.events = s.line[p].events
    BY <1>2, <1>3, Zenon DEF LineRec
  <1>5. L!lantiq_ring(s, p, on) = WithLine(s, p, x)
    BY <1>1, <1>2 DEF L!lantiq_ring, WithLine
  <1> QED  BY <1>4, <1>5, PutLine DEF Keeps

LEMMA SpoilOK ==
  ASSUME NEW s \in PhoneState, NEW p \in L!Port, NEW why \in L!Reason
  PROVE  LET t == L!Spoil(s, p, why)
         IN  /\ Keeps(s, t) /\ t.chan = s.chan /\ t.pvt = s.pvt
             /\ why \in t.spoiled[p] /\ t.spoiled[p] \subseteq s.spoiled[p] \cup {why}
             /\ \A q \in L!Port \ {p} : t.spoiled[q] = s.spoiled[q]
  BY DEF PhoneState, Keeps, L!Spoil

(* The timer of a port is set or reset, with the number of its entry.       *)
Timed(s, p, b) == [s EXCEPT !.pvt[p].dial_timer = b, !.timer[p].own = b]

LEMMA TimedOK ==
  ASSUME NEW s \in PhoneState, NEW p \in L!Port, NEW b \in BOOLEAN
  PROVE  /\ Keeps(s, Timed(s, p, b))
         /\ Timed(s, p, b).chan = s.chan /\ Timed(s, p, b).spoiled = s.spoiled
         /\ \A q \in L!Port :
               /\ Timed(s, p, b).pvt[q].owner = s.pvt[q].owner
               /\ Timed(s, p, b).pvt[q].dtmfbuf = s.pvt[q].dtmfbuf
               /\ Timed(s, p, b).pvt[q].state = s.pvt[q].state
  <1>1. PICK x : x = [s.pvt[p] EXCEPT !.dial_timer = b]  OBVIOUS
  <1>2. PICK y : y = [s.timer[p] EXCEPT !.own = b]  OBVIOUS
  <1>3. s.pvt[p] \in PvtRec /\ s.timer[p] \in TimerRec  BY DEF PhoneState
  <1>4. /\ x \in PvtRec /\ x.owner = s.pvt[p].owner /\ x.dtmfbuf = s.pvt[p].dtmfbuf
        /\ x.state = s.pvt[p].state
    BY <1>1, <1>3, Zenon DEF PvtRec
  <1>5. y \in TimerRec  BY <1>2, <1>3, Zenon DEF TimerRec
  <1>6. PICK u : u = WithPvt(s, p, x)  OBVIOUS
  <1>7. /\ Keeps(s, u) /\ u.chan = s.chan /\ u.spoiled = s.spoiled
        /\ u.line = s.line /\ u.timer = s.timer
        /\ \A q \in L!Port : u.pvt[q] = IF q = p THEN x ELSE s.pvt[q]
    BY <1>4, <1>6, PutPvt
  <1>8. Timed(s, p, b) = WithTimer(u, p, y)
    BY <1>1, <1>2, <1>6 DEF PhoneState, WithPvt, WithTimer, Timed
  <1>9. u \in PhoneState  BY <1>7 DEF Keeps
  <1>10. /\ Keeps(u, WithTimer(u, p, y)) /\ WithTimer(u, p, y).chan = u.chan
         /\ WithTimer(u, p, y).spoiled = u.spoiled /\ WithTimer(u, p, y).pvt = u.pvt
    BY <1>5, <1>9, PutTimer
  <1>11. Keeps(s, Timed(s, p, b))  BY <1>7, <1>8, <1>10 DEF Keeps
  <1> QED  BY <1>4, <1>7, <1>8, <1>10, <1>11

LEMMA DeleteTimerOK ==
  ASSUME NEW s \in PhoneState, NEW p \in L!Port
  PROVE  LET t == L!DeleteTimer(s, p)
         IN  /\ Keeps(s, t) /\ t.chan = s.chan /\ t.spoiled = s.spoiled
             /\ \A q \in L!Port :
                   /\ t.pvt[q].owner = s.pvt[q].owner /\ t.pvt[q].dtmfbuf = s.pvt[q].dtmfbuf
                   /\ t.pvt[q].state = s.pvt[q].state
  <1>1. CASE s.pvt[p].dial_timer
    <2>1. PICK b \in BOOLEAN : b = FALSE  OBVIOUS
    <2>2. L!DeleteTimer(s, p) = Timed(s, p, b)
      BY <1>1, <2>1 DEF L!DeleteTimer, L!When, Timed
    <2> QED  BY <2>2, TimedOK
  <1>2. CASE ~ s.pvt[p].dial_timer
    <2>1. L!DeleteTimer(s, p) = s  BY <1>2 DEF L!DeleteTimer, L!When
    <2> QED  BY <2>1 DEF Keeps
  <1> QED  BY <1>1, <1>2

LEMMA ResetOK ==
  ASSUME NEW s \in PhoneState, NEW p \in L!Port
  PROVE  LET t == L!lantiq_reset_dtmfbuf(s, p)
         IN  /\ Keeps(s, t) /\ t.chan = s.chan /\ t.spoiled = s.spoiled
             /\ \A q \in L!Port :
                   /\ t.pvt[q].owner = s.pvt[q].owner /\ t.pvt[q].state = s.pvt[q].state
                   /\ t.pvt[q].dtmfbuf = IF q = p THEN <<>> ELSE s.pvt[q].dtmfbuf
  <1>1. PICK x : x = [s.pvt[p] EXCEPT !.dtmfbuf = <<>>]  OBVIOUS
  <1>2. s.pvt[p] \in PvtRec  BY DEF PhoneState
  <1>3. <<>> \in Seq(Digit)  OBVIOUS
  <1>4. /\ x \in PvtRec /\ x.owner = s.pvt[p].owner /\ x.state = s.pvt[p].state
        /\ x.dtmfbuf = <<>>
    BY <1>1, <1>2, <1>3, Zenon DEF PvtRec
  <1>5. L!lantiq_reset_dtmfbuf(s, p) = WithPvt(s, p, x)
    BY <1>1 DEF L!lantiq_reset_dtmfbuf, WithPvt
  <1> QED  BY <1>4, <1>5, PutPvt

LEMMA FrameOK ==
  ASSUME NEW s \in PhoneState, NEW c \in Chan, NEW f \in {"ANSWER", "HANGUP"}
  PROVE  LET t == L!QueueFrame(s, c, f)
         IN  /\ Keeps(s, t) /\ t.spoiled = s.spoiled /\ t.pvt = s.pvt
             /\ \A b \in Chan : t.chan[b].st = s.chan[b].st /\ t.chan[b].port = s.chan[b].port
  <1>1. PICK fs : fs = IF s.chan[c].st \in {"FREE", "GONE"} THEN s.chan[c].frames
                       ELSE s.chan[c].frames \cup {f}
    OBVIOUS
  <1>2. PICK x : x = [s.chan[c] EXCEPT !.frames = fs]  OBVIOUS
  <1>3. s.chan[c] \in ChanRec  BY DEF PhoneState
  <1>4. fs \in SUBSET {"ANSWER", "HANGUP"}  BY <1>1, <1>3 DEF ChanRec
  <1>5. x \in ChanRec /\ x.st = s.chan[c].st /\ x.port = s.chan[c].port
    BY <1>2, <1>3, <1>4, Zenon DEF ChanRec
  <1>6. L!QueueFrame(s, c, f) = WithChan(s, c, x)
    BY <1>1, <1>2 DEF L!QueueFrame, WithChan
  <1> QED  BY <1>5, <1>6, PutChan

-----------------------------------------------------------------------------
(* OwnerMatches of a state: a port and its channel name each other.         *)
IsAlive(s, c) == s.chan[c].st \notin {"FREE", "GONE"}

Names(s) ==
    /\ \A c \in Chan : IsAlive(s, c) => s.chan[c].port \in L!Port
    /\ \A p \in L!Port, c \in Chan :
          /\ s.pvt[p].owner = c => IsAlive(s, c) /\ s.chan[c].port = p
          /\ IsAlive(s, c) /\ s.chan[c].port = p /\ "owner" \notin s.spoiled[p]
                => s.pvt[p].owner = c

(* t leaves the owners and the channels of s alone.                         *)
KeepsNames(s, t) ==
    /\ \A p \in L!Port : t.pvt[p].owner = s.pvt[p].owner
    /\ \A c \in Chan : t.chan[c].st = s.chan[c].st /\ t.chan[c].port = s.chan[c].port

LEMMA NamesKept ==
  ASSUME NEW s, NEW t, Names(s), KeepsNames(s, t), Keeps(s, t)
  PROVE  Names(t)
  BY DEF Names, KeepsNames, Keeps, IsAlive

LEMMA KeepsTrans ==
  ASSUME NEW s, NEW t, NEW u, Keeps(s, t), Keeps(t, u)
  PROVE  Keeps(s, u)
  BY DEF Keeps

(* The states in which the user is about to dial.                           *)
AtDial(s, p) == s.pvt[p].state \in {"OFFHOOK", "DIALING"}

LEMMA ChannelOK ==
  ASSUME NEW s \in PhoneState, NEW p \in L!Port, NEW c \in Chan, NEW st \in {"DOWN", "RING"}
  PROVE  LET t == L!lantiq_channel(s, p, c, st)
         IN  /\ Keeps(s, t)
             /\ \A q \in L!Port :
                   /\ t.pvt[q].state = s.pvt[q].state /\ t.pvt[q].dtmfbuf = s.pvt[q].dtmfbuf
                   /\ t.pvt[q].owner = IF q = p THEN c ELSE s.pvt[q].owner
                   /\ q # p => t.spoiled[q] = s.spoiled[q]
             /\ s.pvt[p].owner # None => "owner" \in t.spoiled[p]
             /\ t.chan[c].st = st /\ t.chan[c].port = p
             /\ \A d \in Chan \ {c} : t.chan[d] = s.chan[d]
  <1>1. PICK r : r = L!When(s.pvt[p].owner # None, L!Spoil(s, p, "owner"), s)  OBVIOUS
  <1>2. /\ Keeps(s, r) /\ r.chan = s.chan /\ r.pvt = s.pvt
        /\ s.pvt[p].owner # None => "owner" \in r.spoiled[p]
        /\ \A q \in L!Port : q # p => r.spoiled[q] = s.spoiled[q]
    <2>1. CASE s.pvt[p].owner # None
      <3>1. PICK why \in L!Reason : why = "owner"  BY DEF L!Reason
      <3>2. r = L!Spoil(s, p, why)  BY <1>1, <2>1, <3>1 DEF L!When
      <3> QED  BY <2>1, <3>1, <3>2, SpoilOK
    <2>2. CASE s.pvt[p].owner = None
      <3>1. r = s  BY <1>1, <2>2 DEF L!When
      <3> QED  BY <2>2, <3>1 DEF Keeps
    <2> QED  BY <2>1, <2>2
  <1>3. r \in PhoneState  BY <1>2 DEF Keeps
  <1>4. PICK x : x = [st |-> st, port |-> p, frames |-> {}]  OBVIOUS
  <1>5. x \in ChanRec /\ x.st = st /\ x.port = p  BY <1>4 DEF ChanRec, L!ChanState
  <1>6. PICK y : y = [r.pvt[p] EXCEPT !.owner = c]  OBVIOUS
  <1>7. r.pvt[p] \in PvtRec  BY <1>3 DEF PhoneState
  <1>8. /\ y \in PvtRec /\ y.state = r.pvt[p].state /\ y.dtmfbuf = r.pvt[p].dtmfbuf
        /\ y.owner = c
    BY <1>6, <1>7, Zenon DEF PvtRec
  <1>9. PICK u : u = WithChan(r, c, x)  OBVIOUS
  <1>10. /\ Keeps(r, u) /\ u.spoiled = r.spoiled /\ u.pvt = r.pvt
         /\ \A b \in Chan : u.chan[b] = IF b = c THEN x ELSE r.chan[b]
    BY <1>3, <1>5, <1>9, PutChan
  <1>11. u \in PhoneState  BY <1>10 DEF Keeps
  <1>12. PICK t : t = WithPvt(u, p, y)  OBVIOUS
  <1>13. /\ Keeps(u, t) /\ t.spoiled = u.spoiled /\ t.chan = u.chan
         /\ \A q \in L!Port : t.pvt[q] = IF q = p THEN y ELSE u.pvt[q]
    BY <1>8, <1>11, <1>12, PutPvt
  <1>14. L!lantiq_channel(s, p, c, st) = t
    <2>1. L!lantiq_channel(s, p, c, st)
            = [r EXCEPT !.chan[c] = [st |-> st, port |-> p, frames |-> {}], !.pvt[p].owner = c]
      BY <1>1 DEF L!lantiq_channel
    <2> QED  BY <1>3, <1>4, <1>6, <1>9, <1>12, <2>1 DEF PhoneState, WithPvt, WithChan
  <1>15. Keeps(s, t)  BY <1>2, <1>10, <1>13, KeepsTrans
  <1> QED  BY <1>2, <1>5, <1>8, <1>10, <1>13, <1>14, <1>15

(* A new channel: the names still match, also when it displaces an owner.   *)
LEMMA ChannelNames ==
  ASSUME NEW s \in PhoneState, NEW p \in L!Port, NEW c \in Chan, NEW st \in {"DOWN", "RING"},
         Names(s), s.chan[c].st = "FREE"
  PROVE  Names(L!lantiq_channel(s, p, c, st))
  <1>1. PICK t : t = L!lantiq_channel(s, p, c, st)  OBVIOUS
  <1>2. /\ Keeps(s, t)
        /\ \A q \in L!Port :
              /\ t.pvt[q].owner = IF q = p THEN c ELSE s.pvt[q].owner
              /\ q # p => t.spoiled[q] = s.spoiled[q]
        /\ s.pvt[p].owner # None => "owner" \in t.spoiled[p]
        /\ t.chan[c].st = st /\ t.chan[c].port = p
        /\ \A d \in Chan \ {c} : t.chan[d] = s.chan[d]
    BY <1>1, ChannelOK
  <1>3. None \notin Chan  BY LineAssumption
  <1>4. \A q \in L!Port : s.spoiled[q] \subseteq t.spoiled[q]  BY <1>2 DEF Keeps
  <1>5. \A d \in Chan : IsAlive(t, d) => t.chan[d].port \in L!Port
    BY <1>2 DEF Names, IsAlive
  <1>6. ASSUME NEW q \in L!Port, NEW d \in Chan, t.pvt[q].owner = d
        PROVE  IsAlive(t, d) /\ t.chan[d].port = q
    BY <1>2, <1>6 DEF Names, IsAlive
  <1>7. ASSUME NEW q \in L!Port, NEW d \in Chan, IsAlive(t, d), t.chan[d].port = q,
               "owner" \notin t.spoiled[q]
        PROVE  t.pvt[q].owner = d
    BY <1>2, <1>3, <1>4, <1>7 DEF Names, IsAlive
  <1> QED  BY <1>1, <1>5, <1>6, <1>7 DEF Names

(* A channel is hung up: its port is left without an owner, and a user who  *)
(* was about to dial is put out.                                            *)
LEMMA HangupOK ==
  ASSUME NEW s \in PhoneState, NEW c \in Chan, NEW after \in {"FREE", "GONE"},
         s.chan[c].port \in L!Port
  PROVE  LET t == L!ast_lantiq_hangup(s, c, after)
             p == s.chan[c].port
         IN  /\ Keeps(s, t)
             /\ \A q \in L!Port :
                   /\ t.pvt[q].dtmfbuf = s.pvt[q].dtmfbuf
                   /\ t.pvt[q].owner = IF q = p THEN None ELSE s.pvt[q].owner
                   /\ q # p => t.pvt[q].state = s.pvt[q].state
             /\ t.pvt[p].state \in {"ONHOOK", "CALL_ENDED"}
             /\ AtDial(s, p) => "refused" \in t.spoiled[p]
             /\ t.chan[c].st = after
             /\ \A d \in Chan \ {c} : t.chan[d] = s.chan[d]
  <1>1. PICK p \in L!Port : p = s.chan[c].port  OBVIOUS
  <1>2. PICK r : r = L!When(AtDial(s, p), L!Spoil(s, p, "refused"), s)  OBVIOUS
  <1>3. /\ Keeps(s, r) /\ r.chan = s.chan /\ r.pvt = s.pvt
        /\ AtDial(s, p) => "refused" \in r.spoiled[p]
    <2>1. CASE AtDial(s, p)
      <3>1. PICK why \in L!Reason : why = "refused"  BY DEF L!Reason
      <3>2. r = L!Spoil(s, p, why)  BY <1>2, <2>1, <3>1 DEF L!When
      <3> QED  BY <3>1, <3>2, SpoilOK
    <2>2. CASE ~ AtDial(s, p)
      <3>1. r = s  BY <1>2, <2>2 DEF L!When
      <3> QED  BY <2>2, <3>1 DEF Keeps
    <2> QED  BY <2>1, <2>2
  <1>4. r \in PhoneState  BY <1>3 DEF Keeps
  <1>5. PICK u : u = IF r.pvt[p].state \in {"RINGING", "ONHOOK"}
                     THEN L!SetState(L!lantiq_ring(r, p, FALSE), p, "ONHOOK")
                     ELSE L!SetState(r, p, "CALL_ENDED")
    OBVIOUS
  <1>6. /\ Keeps(r, u) /\ u.chan = r.chan /\ u.spoiled = r.spoiled
        /\ \A q \in L!Port :
              /\ u.pvt[q].owner = r.pvt[q].owner /\ u.pvt[q].dtmfbuf = r.pvt[q].dtmfbuf
              /\ q # p => u.pvt[q].state = r.pvt[q].state
        /\ u.pvt[p].state \in {"ONHOOK", "CALL_ENDED"}
    <2>1. CASE r.pvt[p].state \in {"RINGING", "ONHOOK"}
      <3>1. PICK b \in BOOLEAN : b = FALSE  OBVIOUS
      <3>2. PICK st \in L!State : st = "ONHOOK"  BY DEF L!State
      <3>3. PICK v : v = L!lantiq_ring(r, p, b)  OBVIOUS
      <3>4. u = L!SetState(v, p, st)  BY <1>5, <2>1, <3>1, <3>2, <3>3
      <3>5. Keeps(r, v) /\ v.chan = r.chan /\ v.spoiled = r.spoiled /\ v.pvt = r.pvt
        BY <1>4, <3>3, RingOK
      <3>6. v \in PhoneState  BY <3>5 DEF Keeps
      <3>7. /\ Keeps(v, u) /\ u.chan = v.chan /\ u.spoiled = v.spoiled
            /\ \A q \in L!Port :
                  /\ u.pvt[q].owner = v.pvt[q].owner /\ u.pvt[q].dtmfbuf = v.pvt[q].dtmfbuf
                  /\ u.pvt[q].state = IF q = p THEN st ELSE v.pvt[q].state
        BY <3>4, <3>6, SetStateOK
      <3>8. Keeps(r, u)  BY <3>5, <3>7, KeepsTrans
      <3> QED  BY <3>2, <3>5, <3>7, <3>8
    <2>2. CASE r.pvt[p].state \notin {"RINGING", "ONHOOK"}
      <3>1. PICK st \in L!State : st = "CALL_ENDED"  BY DEF L!State
      <3>2. u = L!SetState(r, p, st)  BY <1>5, <2>2, <3>1
      <3> QED  BY <1>4, <3>1, <3>2, SetStateOK
    <2> QED  BY <2>1, <2>2
  <1>7. u \in PhoneState  BY <1>6 DEF Keeps
  <1>8. PICK y : y = [u.pvt[p] EXCEPT !.owner = None]  OBVIOUS
  <1>9. u.pvt[p] \in PvtRec  BY <1>7 DEF PhoneState
  <1>10. /\ y \in PvtRec /\ y.state = u.pvt[p].state /\ y.dtmfbuf = u.pvt[p].dtmfbuf
         /\ y.owner = None
    BY <1>8, <1>9, Zenon DEF PvtRec
  <1>11. PICK v : v = WithPvt(u, p, y)  OBVIOUS
  <1>12. /\ Keeps(u, v) /\ v.spoiled = u.spoiled /\ v.chan = u.chan
         /\ \A q \in L!Port : v.pvt[q] = IF q = p THEN y ELSE u.pvt[q]
    BY <1>7, <1>10, <1>11, PutPvt
  <1>13. PICK x : x = [st |-> after, port |-> None, frames |-> {}]  OBVIOUS
  <1>14. x \in ChanRec /\ x.st = after  BY <1>13 DEF ChanRec, L!ChanState
  <1>15. v \in PhoneState  BY <1>12 DEF Keeps
  <1>16. PICK t : t = WithChan(v, c, x)  OBVIOUS
  <1>17. /\ Keeps(v, t) /\ t.spoiled = v.spoiled /\ t.pvt = v.pvt
         /\ \A b \in Chan : t.chan[b] = IF b = c THEN x ELSE v.chan[b]
    BY <1>14, <1>15, <1>16, PutChan
  <1>18. L!ast_lantiq_hangup(s, c, after) = t
    <2>1. L!ast_lantiq_hangup(s, c, after)
            = [u EXCEPT !.pvt[p].owner = None, !.chan[c] = [L!Free EXCEPT !.st = after]]
      BY <1>1, <1>2, <1>5 DEF L!ast_lantiq_hangup, AtDial
    <2>2. x = [L!Free EXCEPT !.st = after]  BY <1>13 DEF L!Free
    <2> QED  BY <1>7, <1>8, <1>11, <1>16, <2>1, <2>2 DEF PhoneState, WithPvt, WithChan
  <1>19. Keeps(s, t)  BY <1>3, <1>6, <1>12, <1>17, KeepsTrans
  <1>20. \A q \in L!Port :
            /\ t.pvt[q].dtmfbuf = s.pvt[q].dtmfbuf
            /\ t.pvt[q].owner = IF q = p THEN None ELSE s.pvt[q].owner
            /\ q # p => t.pvt[q].state = s.pvt[q].state
    BY <1>3, <1>6, <1>10, <1>12, <1>17
  <1>21. t.pvt[p].state \in {"ONHOOK", "CALL_ENDED"}  BY <1>6, <1>10, <1>12, <1>17
  <1>22. AtDial(s, p) => "refused" \in t.spoiled[p]  BY <1>3, <1>6, <1>12, <1>17
  <1>23. t.chan[c].st = after /\ \A d \in Chan \ {c} : t.chan[d] = s.chan[d]
    BY <1>3, <1>6, <1>12, <1>14, <1>17
  <1> QED  BY <1>1, <1>18, <1>19, <1>20, <1>21, <1>22, <1>23

LEMMA HangupNames ==
  ASSUME NEW s \in PhoneState, NEW c \in Chan, NEW after \in {"FREE", "GONE"},
         Names(s), IsAlive(s, c)
  PROVE  Names(L!ast_lantiq_hangup(s, c, after))
  <1>1. PICK t : t = L!ast_lantiq_hangup(s, c, after)  OBVIOUS
  <1>2. PICK p \in L!Port : p = s.chan[c].port  BY DEF Names
  <1>3. /\ Keeps(s, t)
        /\ \A q \in L!Port : t.pvt[q].owner = IF q = p THEN None ELSE s.pvt[q].owner
        /\ t.chan[c].st = after
        /\ \A d \in Chan \ {c} : t.chan[d] = s.chan[d]
    BY <1>1, <1>2, HangupOK
  <1>4. None \notin Chan  BY LineAssumption
  <1>5. \A q \in L!Port : s.spoiled[q] \subseteq t.spoiled[q]  BY <1>3 DEF Keeps
  <1>6. \A d \in Chan : IsAlive(t, d) => d # c /\ IsAlive(s, d) /\ t.chan[d] = s.chan[d]
    BY <1>3 DEF IsAlive
  <1>7. \A d \in Chan : IsAlive(t, d) => t.chan[d].port \in L!Port  BY <1>6 DEF Names
  <1>8. ASSUME NEW q \in L!Port, NEW d \in Chan, t.pvt[q].owner = d
        PROVE  IsAlive(t, d) /\ t.chan[d].port = q
    <2>1. q # p /\ s.pvt[q].owner = d  BY <1>3, <1>4, <1>8
    <2>2. IsAlive(s, d) /\ s.chan[d].port = q  BY <2>1 DEF Names
    <2>3. d # c  BY <1>2, <2>1, <2>2
    <2> QED  BY <1>3, <2>2, <2>3 DEF IsAlive
  <1>9. ASSUME NEW q \in L!Port, NEW d \in Chan, IsAlive(t, d), t.chan[d].port = q,
               "owner" \notin t.spoiled[q]
        PROVE  t.pvt[q].owner = d
    <2>1. s.pvt[q].owner = d /\ d # c /\ s.chan[d].port = q
      BY <1>5, <1>6, <1>9 DEF Names
    <2>2. q # p
      BY <1>2, <1>5, <1>9, <2>1 DEF Names
    <2> QED  BY <1>3, <2>1, <2>2
  <1> QED  BY <1>1, <1>7, <1>8, <1>9 DEF Names

-----------------------------------------------------------------------------
(* DialsWhatWasKeyed of a port in a state; and a handset just lifted has    *)
(* keyed nothing, so that the first digit starts the number.                *)
PortGood(s, q) ==
    /\ s.spoiled[q] \cap {"digits", "timer", "owner", "refused"} = {}
         => s.pvt[q].dtmfbuf = IF s.pvt[q].state = "DIALING" THEN s.keyed[q] ELSE <<>>
    /\ s.pvt[q].state = "OFFHOOK" => s.keyed[q] = <<>>

LEMMA GoodKept ==
  ASSUME NEW s, NEW t, NEW q \in L!Port, Keeps(s, t), PortGood(s, q),
         t.pvt[q].dtmfbuf = s.pvt[q].dtmfbuf, t.pvt[q].state = s.pvt[q].state
  PROVE  PortGood(t, q)
  <1>1. s.spoiled[q] \subseteq t.spoiled[q] /\ t.keyed = s.keyed  BY DEF Keeps
  <1> QED  BY <1>1 DEF PortGood

(* What is dialled is forgotten, and the port is not dialling any more.     *)
LEMMA DialOK ==
  ASSUME NEW s \in PhoneState, NEW p \in L!Port, NEW c \in Chan, NEW started \in BOOLEAN,
         Names(s), s.pvt[p].dtmfbuf \in Extension => s.chan[c].st = "FREE"
  PROVE  LET t == L!lantiq_dial(s, p, c, started)
         IN  /\ Keeps(s, t) /\ Names(t)
             /\ t.pvt[p].dtmfbuf = <<>> /\ ~ AtDial(t, p)
             /\ \A q \in L!Port \ {p} :
                   /\ t.pvt[q].state = s.pvt[q].state
                   /\ t.pvt[q].dtmfbuf = s.pvt[q].dtmfbuf
  <1> DEFINE Fits(u) ==
               /\ Keeps(s, u) /\ Names(u) /\ ~ AtDial(u, p)
               /\ \A q \in L!Port \ {p} :
                     /\ u.pvt[q].state = s.pvt[q].state
                     /\ u.pvt[q].dtmfbuf = s.pvt[q].dtmfbuf
  <1>1. PICK v : v = L!lantiq_channel(s, p, c, "RING")  OBVIOUS
  <1>2. PICK call : call = L!SetState(v, p, "INCALL")  OBVIOUS
  <1>3. s.pvt[p].dtmfbuf \in Extension
          => Fits(call) /\ call.chan[c].port = p /\ IsAlive(call, c)
    <2>1. SUFFICES ASSUME s.pvt[p].dtmfbuf \in Extension
                   PROVE  Fits(call) /\ call.chan[c].port = p /\ IsAlive(call, c)
      OBVIOUS
    <2>2. PICK st \in {"DOWN", "RING"} : st = "RING"  OBVIOUS
    <2>3. v = L!lantiq_channel(s, p, c, st)  BY <1>1, <2>2
    <2>4. /\ Keeps(s, v) /\ v.chan[c].st = st /\ v.chan[c].port = p
          /\ \A q \in L!Port :
                v.pvt[q].state = s.pvt[q].state /\ v.pvt[q].dtmfbuf = s.pvt[q].dtmfbuf
      BY <2>3, ChannelOK
    <2>5. Names(v)  BY <2>1, <2>3, ChannelNames
    <2>6. PICK n \in L!State : n = "INCALL"  BY DEF L!State
    <2>7. call = L!SetState(v, p, n)  BY <1>2, <2>6
    <2>8. v \in PhoneState  BY <2>4 DEF Keeps
    <2>9. /\ Keeps(v, call) /\ call.chan = v.chan
          /\ \A q \in L!Port :
                /\ call.pvt[q].owner = v.pvt[q].owner
                /\ call.pvt[q].dtmfbuf = v.pvt[q].dtmfbuf
                /\ call.pvt[q].state = IF q = p THEN n ELSE v.pvt[q].state
      BY <2>7, <2>8, SetStateOK
    <2>10. Names(call)  BY <2>5, <2>9, NamesKept DEF KeepsNames
    <2>11. Keeps(s, call)  BY <2>4, <2>9, KeepsTrans
    <2> QED  BY <2>2, <2>4, <2>6, <2>9, <2>10, <2>11 DEF AtDial, IsAlive
  <1>4. PICK u : u = CASE s.pvt[p].dtmfbuf \notin Extension -> L!SetState(s, p, "CALL_ENDED")
                       [] s.pvt[p].dtmfbuf \in Extension /\ started -> call
                       [] OTHER -> L!ast_lantiq_hangup(call, c, "FREE")
    OBVIOUS
  <1>5. Fits(u)
    <2>1. CASE s.pvt[p].dtmfbuf \notin Extension
      <3>1. PICK n \in L!State : n = "CALL_ENDED"  BY DEF L!State
      <3>2. u = L!SetState(s, p, n)  BY <1>4, <2>1, <3>1
      <3>3. /\ Keeps(s, u) /\ u.chan = s.chan
            /\ \A q \in L!Port :
                  /\ u.pvt[q].owner = s.pvt[q].owner /\ u.pvt[q].dtmfbuf = s.pvt[q].dtmfbuf
                  /\ u.pvt[q].state = IF q = p THEN n ELSE s.pvt[q].state
        BY <3>2, SetStateOK
      <3>4. Names(u)  BY <3>3, NamesKept DEF KeepsNames
      <3> QED  BY <3>1, <3>3, <3>4 DEF AtDial
    <2>2. CASE s.pvt[p].dtmfbuf \in Extension /\ started
      <3>1. u = call  BY <1>4, <2>2
      <3> QED  BY <1>3, <2>2, <3>1
    <2>3. CASE s.pvt[p].dtmfbuf \in Extension /\ ~ started
      <3>1. PICK after \in {"FREE", "GONE"} : after = "FREE"  OBVIOUS
      <3>2. u = L!ast_lantiq_hangup(call, c, after)  BY <1>4, <2>3, <3>1
      <3>3. Fits(call) /\ call.chan[c].port = p /\ IsAlive(call, c)  BY <1>3, <2>3
      <3>4. call \in PhoneState  BY <3>3 DEF Keeps
      <3>5. /\ Keeps(call, u)
            /\ \A q \in L!Port :
                  /\ u.pvt[q].dtmfbuf = call.pvt[q].dtmfbuf
                  /\ q # p => u.pvt[q].state = call.pvt[q].state
            /\ u.pvt[p].state \in {"ONHOOK", "CALL_ENDED"}
        BY <3>2, <3>3, <3>4, HangupOK
      <3>6. Names(u)  BY <3>2, <3>3, <3>4, HangupNames
      <3>7. Keeps(s, u)  BY <3>3, <3>5, KeepsTrans
      <3> QED  BY <3>3, <3>5, <3>6, <3>7 DEF AtDial
    <2> QED  BY <2>1, <2>2, <2>3
  <1>6. L!lantiq_dial(s, p, c, started) = L!lantiq_reset_dtmfbuf(u, p)
    BY <1>1, <1>2, <1>4 DEF L!lantiq_dial
  <1>7. u \in PhoneState  BY <1>5 DEF Keeps
  <1>8. PICK t : t = L!lantiq_reset_dtmfbuf(u, p)  OBVIOUS
  <1>9. /\ Keeps(u, t) /\ t.chan = u.chan
        /\ \A q \in L!Port :
              /\ t.pvt[q].owner = u.pvt[q].owner /\ t.pvt[q].state = u.pvt[q].state
              /\ t.pvt[q].dtmfbuf = IF q = p THEN <<>> ELSE u.pvt[q].dtmfbuf
    BY <1>7, <1>8, ResetOK
  <1>10. Names(t)  BY <1>5, <1>9, NamesKept DEF KeepsNames
  <1>11. Keeps(s, t)  BY <1>5, <1>9, KeepsTrans
  <1> QED  BY <1>5, <1>6, <1>8, <1>9, <1>10, <1>11 DEF AtDial

(* Dialling is given up: a channel that has become the owner is hung up,    *)
(* and digits that stay are noted.                                          *)
LEMMA EndDialingOK ==
  ASSUME NEW s \in PhoneState, NEW p \in L!Port, Names(s)
  PROVE  LET t == L!lantiq_end_dialing(s, p)
         IN  /\ Keeps(s, t) /\ Names(t)
             /\ s.pvt[p].dtmfbuf # <<>> => "digits" \in t.spoiled[p]
             /\ \A q \in L!Port : t.pvt[q].dtmfbuf = s.pvt[q].dtmfbuf
             /\ \A q \in L!Port \ {p} : t.pvt[q].state = s.pvt[q].state
  <1>1. PICK r : r = L!When(s.pvt[p].dtmfbuf # <<>>, L!Spoil(s, p, "digits"), s)  OBVIOUS
  <1>2. /\ Keeps(s, r) /\ r.chan = s.chan /\ r.pvt = s.pvt
        /\ s.pvt[p].dtmfbuf # <<>> => "digits" \in r.spoiled[p]
    <2>1. CASE s.pvt[p].dtmfbuf # <<>>
      <3>1. PICK why \in L!Reason : why = "digits"  BY DEF L!Reason
      <3>2. r = L!Spoil(s, p, why)  BY <1>1, <2>1, <3>1 DEF L!When
      <3> QED  BY <3>1, <3>2, SpoilOK
    <2>2. CASE s.pvt[p].dtmfbuf = <<>>
      <3>1. r = s  BY <1>1, <2>2 DEF L!When
      <3> QED  BY <2>2, <3>1 DEF Keeps
    <2> QED  BY <2>1, <2>2
  <1>3. r \in PhoneState  BY <1>2 DEF Keeps
  <1>4. PICK u : u = L!DeleteTimer(r, p)  OBVIOUS
  <1>5. /\ Keeps(r, u) /\ u.chan = r.chan /\ u.spoiled = r.spoiled
        /\ \A q \in L!Port :
              /\ u.pvt[q].owner = r.pvt[q].owner /\ u.pvt[q].dtmfbuf = r.pvt[q].dtmfbuf
              /\ u.pvt[q].state = r.pvt[q].state
    BY <1>3, <1>4, DeleteTimerOK
  <1>6. u \in PhoneState /\ Keeps(s, u)  BY <1>2, <1>5, KeepsTrans DEF Keeps
  <1>7. Names(u)  BY <1>2, <1>5, <1>6, NamesKept DEF KeepsNames
  <1>8. PICK t : t = L!When(u.pvt[p].owner # None,
                            L!ast_lantiq_hangup(u, u.pvt[p].owner, "GONE"), u)
    OBVIOUS
  <1>9. L!lantiq_end_dialing(s, p) = t  BY <1>1, <1>4, <1>8 DEF L!lantiq_end_dialing
  <1>10. CASE u.pvt[p].owner # None
    <2>1. u.pvt[p] \in PvtRec  BY <1>6 DEF PhoneState
    <2>2. PICK c \in Chan : c = u.pvt[p].owner  BY <1>10, <2>1 DEF PvtRec
    <2>3. IsAlive(u, c) /\ u.chan[c].port = p  BY <1>7, <2>2 DEF Names
    <2>4. PICK after \in {"FREE", "GONE"} : after = "GONE"  OBVIOUS
    <2>5. t = L!ast_lantiq_hangup(u, c, after)  BY <1>8, <1>10, <2>2, <2>4 DEF L!When
    <2>6. /\ Keeps(u, t)
          /\ \A q \in L!Port :
                /\ t.pvt[q].dtmfbuf = u.pvt[q].dtmfbuf
                /\ q # p => t.pvt[q].state = u.pvt[q].state
      BY <1>6, <2>3, <2>5, HangupOK
    <2>7. Names(t)  BY <1>6, <1>7, <2>3, <2>5, HangupNames
    <2>8. Keeps(s, t)  BY <1>6, <2>6, KeepsTrans
    <2>9. s.pvt[p].dtmfbuf # <<>> => "digits" \in t.spoiled[p]
      BY <1>2, <1>5, <2>6 DEF Keeps
    <2> QED  BY <1>2, <1>5, <1>9, <2>6, <2>7, <2>8, <2>9
  <1>11. CASE u.pvt[p].owner = None
    <2>1. t = u  BY <1>8, <1>11 DEF L!When
    <2> QED  BY <1>2, <1>5, <1>6, <1>7, <1>9, <2>1
  <1> QED  BY <1>10, <1>11

-----------------------------------------------------------------------------
(* The handset as the queued events of a port will show it.  An event of    *)
(* the hook moves it from a to b; a key leaves it as it is.                 *)
Follows(a, e, b) ==
    \/ e = "offhook" /\ a = "on" /\ b = "off"
    \/ e = "onhook" /\ a = "off" /\ b = "on"
    \/ e \notin {"offhook", "onhook"} /\ a = b

Trace(h, ev) ==
    /\ h \in [0 .. Len(ev) -> {"on", "off"}]
    /\ \A i \in 1 .. Len(ev) : Follows(h[i - 1], ev[i], h[i])

(* From a the events ev lead to hook.                                       *)
Shows(a, ev, hook) == \E h : Trace(h, ev) /\ h[0] = a /\ h[Len(ev)] = hook

LEMMA ShowsNothing ==
  ASSUME NEW a \in {"on", "off"}
  PROVE  Shows(a, <<>>, a)
  <1>1. PICK h : h = [i \in 0 .. 0 |-> a]  OBVIOUS
  <1>2. Len(<<>>) = 0  OBVIOUS
  <1> QED  BY <1>1, <1>2 DEF Shows, Trace

LEMMA ShowsAppend ==
  ASSUME NEW ev \in Seq(L!Event), NEW e \in L!Event, NEW a, NEW g, NEW b \in {"on", "off"},
         Shows(a, ev, g), Follows(g, e, b)
  PROVE  Shows(a, Append(ev, e), b)
  <1>1. PICK h : Trace(h, ev) /\ h[0] = a /\ h[Len(ev)] = g  BY DEF Shows
  <1>2. PICK n \in Nat : n = Len(ev)  OBVIOUS
  <1>3. PICK k : k = [i \in 0 .. n + 1 |-> IF i = n + 1 THEN b ELSE h[i]]  OBVIOUS
  <1>4. PICK w : w = Append(ev, e)  OBVIOUS
  <1>5. Len(w) = n + 1 /\ w[n + 1] = e /\ \A i \in 1 .. n : w[i] = ev[i]
    BY <1>2, <1>4
  <1>6. h \in [0 .. n -> {"on", "off"}] /\ \A i \in 1 .. n : Follows(h[i - 1], ev[i], h[i])
    BY <1>1, <1>2 DEF Trace
  <1>7. k \in [0 .. n + 1 -> {"on", "off"}]  BY <1>3, <1>6
  <1>8. ASSUME NEW i \in 1 .. n + 1
        PROVE  Follows(k[i - 1], w[i], k[i])
    <2>1. CASE i = n + 1
      <3>1. k[i] = b /\ k[i - 1] = g  BY <1>1, <1>2, <1>3, <2>1
      <3> QED  BY <1>5, <2>1, <3>1
    <2>2. CASE i # n + 1
      <3>1. i \in 1 .. n  BY <2>2
      <3>2. k[i] = h[i] /\ k[i - 1] = h[i - 1]  BY <1>3, <3>1
      <3> QED  BY <1>5, <1>6, <3>1, <3>2
    <2> QED  BY <2>1, <2>2
  <1>9. Trace(k, w)  BY <1>5, <1>7, <1>8 DEF Trace
  <1>10. k[0] = a /\ k[Len(w)] = b  BY <1>1, <1>3, <1>5
  <1> QED  BY <1>4, <1>9, <1>10 DEF Shows

LEMMA ShowsTail ==
  ASSUME NEW ev \in Seq(L!Event), NEW a, NEW hook, ev # <<>>, Shows(a, ev, hook)
  PROVE  \E b \in {"on", "off"} : Follows(a, Head(ev), b) /\ Shows(b, Tail(ev), hook)
  <1>1. PICK h : Trace(h, ev) /\ h[0] = a /\ h[Len(ev)] = hook  BY DEF Shows
  <1>2. PICK n \in Nat : n + 1 = Len(ev)
    <2>1. Len(ev) \in Nat /\ Len(ev) > 0  OBVIOUS
    <2>2. Len(ev) - 1 \in Nat /\ (Len(ev) - 1) + 1 = Len(ev)  BY <2>1
    <2> QED  BY <2>2
  <1>3. PICK k : k = [i \in 0 .. n |-> h[i + 1]]  OBVIOUS
  <1>4. PICK w : w = Tail(ev)  OBVIOUS
  <1>5. Len(w) = n /\ \A i \in 1 .. n : w[i] = ev[i + 1]  BY <1>2, <1>4
  <1>6. /\ h \in [0 .. n + 1 -> {"on", "off"}]
        /\ \A i \in 1 .. n + 1 : Follows(h[i - 1], ev[i], h[i])
    BY <1>1, <1>2 DEF Trace
  <1>7. k \in [0 .. n -> {"on", "off"}]  BY <1>3, <1>6
  <1>8. ASSUME NEW i \in 1 .. n
        PROVE  Follows(k[i - 1], w[i], k[i])
    <2>1. i + 1 \in 1 .. n + 1 /\ (i + 1) - 1 = i  OBVIOUS
    <2>2. Follows(h[i], ev[i + 1], h[i + 1])  BY <1>6, <2>1
    <2>3. k[i] = h[i + 1] /\ k[i - 1] = h[i]  BY <1>3
    <2> QED  BY <1>5, <2>2, <2>3
  <1>9. Trace(k, w)  BY <1>5, <1>7, <1>8 DEF Trace
  <1>10. k[0] = h[1] /\ k[Len(w)] = hook  BY <1>1, <1>2, <1>3, <1>5
  <1>11. Follows(a, Head(ev), h[1]) /\ h[1] \in {"on", "off"}
    <2>1. 1 \in 1 .. n + 1 /\ 1 - 1 = 0 /\ Head(ev) = ev[1]  BY <1>2
    <2> QED  BY <1>1, <1>6, <2>1
  <1> QED  BY <1>4, <1>9, <1>10, <1>11 DEF Shows

-----------------------------------------------------------------------------
(* The monitor thread m, and the handset of a port as the driver knows it:  *)
(* from there the event that is being handled and those still queued lead   *)
(* to the handset as it is, and a user who is about to dial has lifted it.  *)
MonitorType ==
    [pc : {"loop", "lock", "poll", "get", "handle", "dead"}, i : 0 .. PORTS,
     event : L!Event \cup {None}]

MonitorOK(m) ==
    /\ m \in MonitorType
    /\ m.pc = "handle" => m.i \in L!Port /\ m.event \in L!Event

Handles(m, p) == m.pc = "handle" /\ m.i = p

Ahead(s, m, p, a) ==
    IF Handles(m, p)
    THEN \E b \in {"on", "off"} :
            Follows(a, m.event, b) /\ Shows(b, s.line[p].events, s.line[p].hook)
    ELSE Shows(a, s.line[p].events, s.line[p].hook)

Tracked(s, m, p) ==
    \E a \in {"on", "off"} : (AtDial(s, p) => a = "off") /\ Ahead(s, m, p, a)

Sound(s) ==
    /\ s \in PhoneState /\ Names(s)
    /\ \A q \in L!Port : PortGood(s, q)

PhoneInv(s, m) ==
    /\ Sound(s) /\ MonitorOK(m)
    /\ \A p \in L!Port : Tracked(s, m, p)

LineInv == PhoneInv(L!Now, mon)

LEMMA LineInvMatches ==
  LineInv => OwnerMatches /\ DialsWhatWasKeyed
  <1> SUFFICES ASSUME LineInv PROVE OwnerMatches /\ DialsWhatWasKeyed  OBVIOUS
  <1>1. PICK s : s = L!Now  OBVIOUS
  <1>2. Names(s) /\ \A q \in L!Port : PortGood(s, q)
    BY <1>1 DEF LineInv, PhoneInv, Sound
  <1>3. s.pvt = pvt /\ s.chan = chan /\ s.spoiled = spoiled /\ s.keyed = keyed
    BY <1>1 DEF L!Now
  <1>4. OwnerMatches
    BY <1>2, <1>3 DEF OwnerMatches, L!OwnerMatches, L!Fine, L!Live, Names, IsAlive
  <1>5. DialsWhatWasKeyed
    BY <1>2, <1>3 DEF DialsWhatWasKeyed, L!DialsWhatWasKeyed, L!Fine, PortGood
  <1> QED  BY <1>4, <1>5

(* A step that is not of the monitor thread.                                *)
LEMMA InnerStep ==
  ASSUME NEW s, NEW m, NEW t, PhoneInv(s, m), Keeps(s, t), Names(t),
         \A q \in L!Port : PortGood(t, q) /\ (AtDial(t, q) => AtDial(s, q))
  PROVE  PhoneInv(t, m)
  <1>1. Sound(t)  BY DEF Sound, Keeps
  <1>2. ASSUME NEW p \in L!Port PROVE Tracked(t, m, p)
    <2>1. Tracked(s, m, p)  BY DEF PhoneInv
    <2>2. t.line[p].events = s.line[p].events /\ t.line[p].hook = s.line[p].hook
      BY DEF Keeps
    <2> QED  BY <2>1, <2>2 DEF Tracked, Ahead
  <1> QED  BY <1>1, <1>2 DEF PhoneInv

(* The monitor thread goes on without handling an event.                    *)
LEMMA MonitorStep ==
  ASSUME NEW s, NEW m, NEW n, PhoneInv(s, m), m.pc # "handle", n.pc # "handle",
         n \in MonitorType
  PROVE  PhoneInv(s, n)
  BY DEF PhoneInv, MonitorOK, Tracked, Ahead, Handles

LEMMA TakeEvent ==
  ASSUME NEW s, NEW m, PhoneInv(s, m), m.pc = "get", m.i < PORTS, s.line[m.i].events # <<>>
  PROVE  PhoneInv([s EXCEPT !.line[m.i].events = Tail(@)],
                  [m EXCEPT !.pc = "handle", !.event = Head(s.line[m.i].events)])
  <1>1. PICK p \in L!Port : p = m.i
    <2>1. m.i \in 0 .. PORTS  BY Zenon DEF PhoneInv, MonitorOK, MonitorType
    <2> QED  BY <2>1, LineAssumption DEF L!Port
  <1>2. PICK ev : ev = s.line[p].events  OBVIOUS
  <1>3. s \in PhoneState  BY DEF PhoneInv, Sound
  <1>4. s.line[p] \in LineRec  BY <1>3 DEF PhoneState
  <1>5. ev \in Seq(L!Event) /\ ev # <<>>  BY <1>1, <1>2, <1>4 DEF LineRec
  <1>6. Tail(ev) \in Seq(L!Event) /\ Head(ev) \in L!Event  BY <1>5
  <1>7. PICK e \in L!Event : e = Head(ev)  BY <1>6
  <1>8. PICK w \in Seq(L!Event) : w = Tail(ev)  BY <1>6
  <1>9. PICK x : x = [s.line[p] EXCEPT !.events = w]  OBVIOUS
  <1>10. x \in LineRec /\ x.hook = s.line[p].hook /\ x.events = w
    BY <1>4, <1>9, Zenon DEF LineRec
  <1>11. PICK t : t = WithLine(s, p, x)  OBVIOUS
  <1>12. /\ t \in PhoneState
         /\ t.chan = s.chan /\ t.spoiled = s.spoiled /\ t.keyed = s.keyed
         /\ t.pvt = s.pvt
         /\ \A q \in L!Port : t.line[q] = IF q = p THEN x ELSE s.line[q]
    BY <1>3, <1>10, <1>11, PutLine
  <1>13. t = [s EXCEPT !.line[m.i].events = Tail(@)]
    BY <1>1, <1>2, <1>3, <1>8, <1>9, <1>11 DEF PhoneState, WithLine
  <1>14. PICK n : n = [m EXCEPT !.pc = "handle", !.event = e]  OBVIOUS
  <1>15. n \in MonitorType /\ n.pc = "handle" /\ n.i = p /\ n.event = e
    BY <1>1, <1>14, Zenon DEF PhoneInv, MonitorOK, MonitorType
  <1>16. Sound(t)
    BY <1>12 DEF PhoneInv, Sound, Names, PortGood, IsAlive
  <1>17. ASSUME NEW q \in L!Port PROVE Tracked(t, n, q)
    <2>1. PICK a \in {"on", "off"} : (AtDial(s, q) => a = "off") /\ Shows(a, s.line[q].events, s.line[q].hook)
      BY DEF PhoneInv, Tracked, Ahead, Handles
    <2>2. AtDial(t, q) <=> AtDial(s, q)  BY <1>12 DEF AtDial
    <2>3. CASE q = p
      <3>1. \E b \in {"on", "off"} : Follows(a, Head(ev), b) /\ Shows(b, Tail(ev), s.line[p].hook)
        BY <1>2, <1>5, <2>1, <2>3, ShowsTail
      <3>2. t.line[p].events = w /\ t.line[p].hook = s.line[p].hook  BY <1>10, <1>12
      <3>3. Ahead(t, n, p, a)  BY <1>7, <1>8, <1>15, <3>1, <3>2 DEF Ahead, Handles
      <3> QED  BY <2>1, <2>2, <2>3, <3>3 DEF Tracked
    <2>4. CASE q # p
      <3>1. ~ Handles(n, q) /\ t.line[q] = s.line[q]  BY <1>12, <1>15, <2>4 DEF Handles
      <3> QED  BY <2>1, <2>2, <3>1 DEF Tracked, Ahead
    <2> QED  BY <2>3, <2>4
  <1>18. PhoneInv(t, n)  BY <1>15, <1>16, <1>17 DEF PhoneInv, MonitorOK
  <1> QED  BY <1>1, <1>2, <1>7, <1>13, <1>14, <1>18

(* The event of the monitor thread has been handled.                        *)
HandledOf(m) == [m EXCEPT !.pc = "get", !.i = @ + 1, !.event = None]

LEMMA HandledStep ==
  ASSUME NEW s, NEW m, NEW t, PhoneInv(s, m), m.pc = "handle", Sound(t),
         \A q \in L!Port :
            t.line[q].events = s.line[q].events /\ t.line[q].hook = s.line[q].hook,
         \A q \in L!Port : AtDial(t, q) =>
            IF q = m.i THEN \/ m.event = "offhook"
                            \/ m.event \notin {"offhook", "onhook"} /\ AtDial(s, q)
            ELSE AtDial(s, q)
  PROVE  PhoneInv(t, HandledOf(m))
  <1>1. PICK p \in L!Port : p = m.i  BY Zenon DEF PhoneInv, MonitorOK
  <1>2. PICK n : n = HandledOf(m)  OBVIOUS
  <1>3. p + 1 \in 0 .. PORTS  BY LineAssumption DEF L!Port
  <1>4. PICK j : j = p + 1  OBVIOUS
  <1>5. n = [m EXCEPT !.pc = "get", !.i = j, !.event = None]
    BY <1>1, <1>2, <1>4 DEF HandledOf
  <1>6. j \in 0 .. PORTS  BY <1>3, <1>4
  <1>7. n \in MonitorType /\ n.pc = "get"
    BY <1>5, <1>6, Zenon DEF PhoneInv, MonitorOK, MonitorType
  <1>8. ASSUME NEW q \in L!Port PROVE Tracked(t, n, q)
    <2>1. PICK a \in {"on", "off"} : (AtDial(s, q) => a = "off") /\ Ahead(s, m, q, a)
      BY DEF PhoneInv, Tracked
    <2>2. ~ Handles(n, q)  BY <1>7 DEF Handles
    <2>3. CASE q = p
      <3>1. PICK b \in {"on", "off"} :
               Follows(a, m.event, b) /\ Shows(b, s.line[q].events, s.line[q].hook)
        BY <1>1, <2>1, <2>3 DEF Ahead, Handles
      <3>2. AtDial(t, q) => b = "off"  BY <1>1, <2>1, <2>3, <3>1 DEF Follows
      <3> QED  BY <2>2, <3>1, <3>2 DEF Tracked, Ahead
    <2>4. CASE q # p
      <3>1. ~ Handles(m, q) /\ (AtDial(t, q) => AtDial(s, q))  BY <1>1, <2>4 DEF Handles
      <3> QED  BY <2>1, <2>2, <3>1 DEF Tracked, Ahead
    <2> QED  BY <2>3, <2>4
  <1> QED  BY <1>2, <1>7, <1>8 DEF PhoneInv, MonitorOK

(* The user moves the handset or presses a key: e is queued.                *)
LEMMA HandsetStep ==
  ASSUME NEW s, NEW m, PhoneInv(s, m), NEW p \in L!Port, NEW x \in LineRec,
         NEW e \in L!Event, x.events = Append(s.line[p].events, e),
         Follows(s.line[p].hook, e, x.hook)
  PROVE  PhoneInv(WithLine(s, p, x), m)
  <1>1. PICK ev : ev = s.line[p].events  OBVIOUS
  <1>2. s \in PhoneState  BY DEF PhoneInv, Sound
  <1>3. s.line[p] \in LineRec  BY <1>2 DEF PhoneState
  <1>4. ev \in Seq(L!Event) /\ x.hook \in {"on", "off"}  BY <1>1, <1>3 DEF LineRec
  <1>5. PICK w : w = Append(ev, e)  OBVIOUS
  <1>8. PICK t : t = WithLine(s, p, x)  OBVIOUS
  <1>9. /\ t \in PhoneState
        /\ t.chan = s.chan /\ t.spoiled = s.spoiled /\ t.keyed = s.keyed /\ t.pvt = s.pvt
        /\ \A q \in L!Port : t.line[q] = IF q = p THEN x ELSE s.line[q]
    BY <1>2, <1>8, PutLine
  <1>11. Sound(t)  BY <1>9 DEF PhoneInv, Sound, Names, PortGood, IsAlive
  <1>12. ASSUME NEW q \in L!Port PROVE Tracked(t, m, q)
    <2>1. PICK a \in {"on", "off"} : (AtDial(s, q) => a = "off") /\ Ahead(s, m, q, a)
      BY DEF PhoneInv, Tracked
    <2>2. AtDial(t, q) <=> AtDial(s, q)  BY <1>9 DEF AtDial
    <2>3. CASE q = p
      <3>1. \A b : Shows(b, ev, s.line[p].hook) => Shows(b, w, x.hook)
        BY <1>4, <1>5, ShowsAppend
      <3>2. t.line[q].events = w /\ t.line[q].hook = x.hook  BY <1>1, <1>5, <1>9, <2>3
      <3>3. Ahead(t, m, q, a)  BY <1>1, <2>1, <2>3, <3>1, <3>2 DEF Ahead
      <3> QED  BY <2>1, <2>2, <3>3 DEF Tracked
    <2>4. CASE q # p
      <3>1. t.line[q] = s.line[q]  BY <1>9, <2>4
      <3> QED  BY <2>1, <2>2, <3>1 DEF Tracked, Ahead
    <2> QED  BY <2>3, <2>4
  <1> QED  BY <1>8, <1>11, <1>12 DEF PhoneInv

-----------------------------------------------------------------------------
(* The actions.                                                             *)
LEMMA Becoming ==
  ASSUME NEW s, s \in PhoneState, L!Becomes(s)
  PROVE  L!Now' = s
  BY DEF L!Becomes, L!Now, PhoneState

LEMMA NowFields ==
  /\ L!Now.pvt = pvt /\ L!Now.line = line /\ L!Now.timer = timer /\ L!Now.chan = chan
  /\ L!Now.keyed = keyed /\ L!Now.spoiled = spoiled
  BY DEF L!Now

LEMMA HandsetMoves ==
  ASSUME LineInv, NEW p \in L!Port, L!Handset(p)
  PROVE  LineInv'
  <1>1. PICK s : s = L!Now  OBVIOUS
  <1>2. PhoneInv(s, mon) /\ s \in PhoneState  BY <1>1 DEF LineInv, PhoneInv, Sound
  <1>3. s.line[p] \in LineRec /\ s.line = line  BY <1>1, <1>2, NowFields DEF PhoneState
  <1>4. PICK r \in LineRec : r = s.line[p]  BY <1>3
  <1>5. mon' = mon
    BY DEF L!Handset, L!Lift, L!PutDown, L!Key, L!threads
  <1>6. SUFFICES \E x \in LineRec, e \in L!Event :
                    /\ x.events = Append(r.events, e) /\ Follows(r.hook, e, x.hook)
                    /\ L!Becomes(WithLine(s, p, x))
    <2>1. PICK x \in LineRec, e \in L!Event :
             /\ x.events = Append(r.events, e) /\ Follows(r.hook, e, x.hook)
             /\ L!Becomes(WithLine(s, p, x))
      BY <1>6
    <2>2. PICK t : t = WithLine(s, p, x)  OBVIOUS
    <2>3. PhoneInv(t, mon)  BY <1>2, <1>4, <2>1, <2>2, HandsetStep
    <2>4. L!Now' = t  BY <2>1, <2>2, <2>3, Becoming DEF PhoneInv, Sound
    <2> QED  BY <1>5, <2>3, <2>4 DEF LineInv
  <1>7. r.events \in Seq(L!Event)  BY DEF LineRec
  <1>8. \A e \in L!Event : Append(r.events, e) \in Seq(L!Event)  BY <1>7
  <1>9. CASE L!Lift(p)
    <2>1. PICK e \in L!Event : e = "offhook"  BY DEF L!Event
    <2>2. PICK w \in Seq(L!Event) : w = Append(r.events, e)  BY <1>8
    <2>3. PICK x : x = [r EXCEPT !.hook = "off", !.bell = FALSE, !.events = w]  OBVIOUS
    <2>4. x \in LineRec /\ x.hook = "off" /\ x.events = w
      BY <2>3, Zenon DEF LineRec
    <2>5. L!Queue([s EXCEPT !.line[p].hook = "off", !.line[p].bell = FALSE], p, "offhook")
            = WithLine(s, p, x)
      BY <1>2, <1>4, <2>1, <2>2, <2>3 DEF L!Queue, WithLine, PhoneState, LineRec
    <2>6. L!Becomes(WithLine(s, p, x))  BY <1>1, <1>9, <2>5 DEF L!Lift
    <2>7. Follows(r.hook, e, x.hook)
      BY <1>3, <1>4, <1>9, <2>1, <2>4 DEF L!Lift, Follows
    <2> QED  BY <2>2, <2>4, <2>6, <2>7
  <1>10. CASE L!PutDown(p)
    <2>1. PICK e \in L!Event : e = "onhook"  BY DEF L!Event
    <2>2. PICK w \in Seq(L!Event) : w = Append(r.events, e)  BY <1>8
    <2>3. PICK x : x = [r EXCEPT !.hook = "on", !.events = w]  OBVIOUS
    <2>4. x \in LineRec /\ x.hook = "on" /\ x.events = w
      BY <2>3, Zenon DEF LineRec
    <2>5. L!Queue([s EXCEPT !.line[p].hook = "on"], p, "onhook") = WithLine(s, p, x)
      BY <1>2, <1>4, <2>1, <2>2, <2>3 DEF L!Queue, WithLine, PhoneState, LineRec
    <2>6. L!Becomes(WithLine(s, p, x))  BY <1>1, <1>10, <2>5 DEF L!PutDown
    <2>7. Follows(r.hook, e, x.hook)
      BY <1>3, <1>4, <1>10, <2>1, <2>4 DEF L!PutDown, Follows
    <2> QED  BY <2>2, <2>4, <2>6, <2>7
  <1>11. ASSUME NEW k \in Digit \cup {"#"}, L!Key(p, k)
         PROVE  \E x \in LineRec, e \in L!Event :
                    /\ x.events = Append(r.events, e) /\ Follows(r.hook, e, x.hook)
                    /\ L!Becomes(WithLine(s, p, x))
    <2>1. k \in L!Event /\ k \notin {"onhook", "offhook"}  BY LineAssumption DEF L!Event
    <2>2. PICK w \in Seq(L!Event) : w = Append(r.events, k)  BY <1>8, <2>1
    <2>3. PICK x : x = [r EXCEPT !.events = w]  OBVIOUS
    <2>4. x \in LineRec /\ x.hook = r.hook /\ x.events = w
      BY <2>3, Zenon DEF LineRec
    <2>5. L!Queue(s, p, k) = WithLine(s, p, x)
      BY <1>2, <1>4, <2>2, <2>3 DEF L!Queue, WithLine, PhoneState
    <2>6. L!Becomes(WithLine(s, p, x))  BY <1>1, <1>11, <2>5 DEF L!Key
    <2>7. Follows(r.hook, k, x.hook)  BY <2>1, <2>4 DEF Follows
    <2> QED  BY <2>1, <2>2, <2>4, <2>6, <2>7
  <1> QED  BY <1>9, <1>10, <1>11 DEF L!Handset

(* Nothing of the ports changes; the monitor thread is not handling.        *)
LEMMA MonitorGoesOn ==
  ASSUME LineInv, L!MonitorLoop \/ L!MonitorLock \/ L!Poll \/ L!GetEvent \/ L!EventsDone
  PROVE  LineInv'
  <1>1. PICK m : m = mon  OBVIOUS
  <1>2. PICK s : s = L!Now  OBVIOUS
  <1>3. PhoneInv(s, m) /\ m \in MonitorType
    BY <1>1, <1>2 DEF LineInv, PhoneInv, MonitorOK
  <1>4. CASE L!GetEvent /\ line[mon.i].events # <<>>
    <2>1. /\ m.pc = "get" /\ m.i < PORTS /\ s.line[m.i].events # <<>>
          /\ mon' = [m EXCEPT !.pc = "handle", !.event = Head(s.line[m.i].events)]
          /\ L!Becomes([s EXCEPT !.line[m.i].events = Tail(@)])
      BY <1>1, <1>2, <1>4, NowFields DEF L!GetEvent
    <2>2. PICK t : t = [s EXCEPT !.line[m.i].events = Tail(@)]  OBVIOUS
    <2>3. PhoneInv(t, mon')  BY <1>3, <2>1, <2>2, TakeEvent
    <2>4. L!Now' = t  BY <2>1, <2>2, <2>3, Becoming DEF PhoneInv, Sound
    <2> QED  BY <2>3, <2>4 DEF LineInv
  <1>5. CASE ~ (L!GetEvent /\ line[mon.i].events # <<>>)
    <2>1. L!Now' = s
      BY <1>2, <1>5 DEF L!MonitorLoop, L!MonitorLock, L!Poll, L!GetEvent, L!EventsDone,
                        L!port, L!Now
    <2>2. SUFFICES mon' \in MonitorType /\ m.pc # "handle" /\ mon'.pc # "handle"
      <3>1. PICK n : n = mon'  OBVIOUS
      <3>2. PhoneInv(s, n)  BY <1>3, <2>2, <3>1, MonitorStep
      <3> QED  BY <2>1, <3>1, <3>2 DEF LineInv
    <2>3. CASE L!MonitorLoop
      <3>1. PICK c : c = IF monitor THEN "lock" ELSE "dead"  OBVIOUS
      <3>2. mon' = [m EXCEPT !.pc = c] /\ m.pc = "loop" /\ c \in {"lock", "dead"}
        BY <1>1, <2>3, <3>1 DEF L!MonitorLoop
      <3> QED  BY <1>3, <3>2, Zenon DEF MonitorType
    <2>4. CASE L!MonitorLock
      <3>1. mon' = [m EXCEPT !.pc = "poll"] /\ m.pc = "lock"  BY <1>1, <2>4 DEF L!MonitorLock
      <3> QED  BY <1>3, <3>1, Zenon DEF MonitorType
    <2>5. CASE L!Poll
      <3>1. PICK z \in 0 .. PORTS : z = 0  BY LineAssumption
      <3>2. m.pc = "poll" /\ (mon' = [m EXCEPT !.pc = "get", !.i = z] \/ mon' = [m EXCEPT !.pc = "loop"])
        BY <1>1, <2>5, <3>1 DEF L!Poll
      <3>3. CASE mon' = [m EXCEPT !.pc = "get", !.i = z]
        BY <1>3, <3>2, <3>3, Zenon DEF MonitorType
      <3>4. CASE mon' = [m EXCEPT !.pc = "loop"]
        BY <1>3, <3>2, <3>4, Zenon DEF MonitorType
      <3> QED  BY <3>2, <3>3, <3>4
    <2>6. CASE L!GetEvent
      <3>1. PICK j : j = m.i + 1  OBVIOUS
      <3>2. m.i \in 0 .. PORTS  BY <1>3 DEF MonitorType
      <3>3. j \in 0 .. PORTS  BY <1>1, <2>6, <3>1, <3>2, LineAssumption DEF L!GetEvent
      <3>4. mon' = [m EXCEPT !.i = j] /\ m.pc = "get"
        BY <1>1, <1>5, <2>6, <3>1 DEF L!GetEvent
      <3>5. mon' \in MonitorType  BY <1>3, <3>3, <3>4, Zenon DEF MonitorType
      <3>6. mon'.pc = m.pc  BY <1>3, <3>4, Zenon DEF MonitorType
      <3> QED  BY <3>4, <3>5, <3>6
    <2>7. CASE L!EventsDone
      <3>1. PICK z \in 0 .. PORTS : z = 0  BY LineAssumption
      <3>2. mon' = [m EXCEPT !.pc = "loop", !.i = z] /\ m.pc = "get"
        BY <1>1, <2>7, <3>1 DEF L!EventsDone
      <3> QED  BY <1>3, <3>2, Zenon DEF MonitorType
    <2> QED  BY <2>3, <2>4, <2>5, <2>6, <2>7
  <1> QED  BY <1>4, <1>5

(* What the steps that handle an event have in common.                      *)
LEMMA EventHandled ==
  ASSUME LineInv, NEW e, L!Handling(e), NEW t, L!Becomes(t), Sound(t),
         \A q \in L!Port : t.line[q].events = line[q].events /\ t.line[q].hook = line[q].hook,
         \A q \in L!Port : AtDial(t, q) =>
            IF q = mon.i THEN \/ e = "offhook"
                              \/ e \notin {"offhook", "onhook"} /\ AtDial(L!Now, q)
            ELSE AtDial(L!Now, q)
  PROVE  LineInv'
  <1>1. PICK m : m = mon  OBVIOUS
  <1>2. PICK s : s = L!Now  OBVIOUS
  <1>3. PhoneInv(s, m) /\ s.line = line  BY <1>1, <1>2, NowFields DEF LineInv
  <1>4. m.pc = "handle" /\ m.event = e /\ mon' = HandledOf(m)
    BY <1>1 DEF L!Handling, L!Handled, HandledOf
  <1>5. PhoneInv(t, HandledOf(m))
    BY <1>1, <1>2, <1>3, <1>4, HandledStep
  <1>6. L!Now' = t  BY Becoming DEF Sound
  <1> QED  BY <1>4, <1>5, <1>6 DEF LineInv

LEMMA OnHookStep ==
  ASSUME LineInv, L!OnHook
  PROVE  LineInv'
  <1>1. PICK s : s = L!Now  OBVIOUS
  <1>2. Sound(s) /\ s \in PhoneState /\ Names(s)  BY <1>1 DEF LineInv, PhoneInv, Sound
  <1>3. PICK p \in L!Port : p = mon.i
    BY Zenon DEF LineInv, PhoneInv, MonitorOK, L!OnHook, L!Handling
  <1>4. PICK r : r = CASE pvt[p].state = "DIALING" -> L!lantiq_end_dialing(s, p)
                       [] pvt[p].state = "INCALL" -> L!lantiq_end_call(s, p)
                       [] OTHER -> s
    OBVIOUS
  <1>5. PICK st \in L!State : st = "ONHOOK"  BY DEF L!State
  <1>6. PICK t : t = L!SetState(r, p, st)  OBVIOUS
  <1>7. L!Becomes(t)  BY <1>1, <1>3, <1>4, <1>5, <1>6 DEF L!OnHook
  <1>8. pvt[p].state = s.pvt[p].state /\ s.line = line  BY <1>1, NowFields
  <1>9. /\ Keeps(s, r) /\ Names(r)
        /\ \A q \in L!Port : r.pvt[q].dtmfbuf = s.pvt[q].dtmfbuf
        /\ s.pvt[p].state = "DIALING" /\ s.pvt[p].dtmfbuf # <<>> => "digits" \in r.spoiled[p]
        /\ \A q \in L!Port \ {p} : r.pvt[q].state = s.pvt[q].state
    <2>1. CASE s.pvt[p].state = "DIALING"
      <3>1. r = L!lantiq_end_dialing(s, p)  BY <1>4, <1>8, <2>1
      <3> QED  BY <1>2, <3>1, EndDialingOK
    <2>2. CASE s.pvt[p].state = "INCALL"
      <3>1. r = L!lantiq_end_call(s, p)  BY <1>4, <1>8, <2>2
      <3>2. CASE s.pvt[p].owner = None
        <4>1. r = s  BY <3>1, <3>2 DEF L!lantiq_end_call, L!When
        <4> QED  BY <1>2, <2>2, <4>1 DEF Keeps
      <3>3. CASE s.pvt[p].owner # None
        <4>1. s.pvt[p] \in PvtRec  BY <1>2 DEF PhoneState
        <4>2. PICK c \in Chan : c = s.pvt[p].owner  BY <3>3, <4>1 DEF PvtRec
        <4>3. PICK f \in {"ANSWER", "HANGUP"} : f = "HANGUP"  OBVIOUS
        <4>4. r = L!QueueFrame(s, c, f)
          BY <3>1, <3>3, <4>2, <4>3 DEF L!lantiq_end_call, L!When
        <4>5. /\ Keeps(s, r) /\ r.pvt = s.pvt
              /\ \A b \in Chan : r.chan[b].st = s.chan[b].st /\ r.chan[b].port = s.chan[b].port
          BY <1>2, <4>4, FrameOK
        <4>6. Names(r)  BY <1>2, <4>5, NamesKept DEF KeepsNames
        <4> QED  BY <2>2, <4>5, <4>6
      <3> QED  BY <3>2, <3>3
    <2>3. CASE s.pvt[p].state \notin {"DIALING", "INCALL"}
      <3>1. r = s  BY <1>4, <1>8, <2>3
      <3> QED  BY <1>2, <2>3, <3>1 DEF Keeps
    <2> QED  BY <2>1, <2>2, <2>3
  <1>10. r \in PhoneState  BY <1>9 DEF Keeps
  <1>11. /\ Keeps(r, t) /\ t.chan = r.chan /\ t.spoiled = r.spoiled
         /\ \A q \in L!Port :
               /\ t.pvt[q].owner = r.pvt[q].owner /\ t.pvt[q].dtmfbuf = r.pvt[q].dtmfbuf
               /\ t.pvt[q].state = IF q = p THEN st ELSE r.pvt[q].state
    BY <1>6, <1>10, SetStateOK
  <1>12. Names(t)  BY <1>9, <1>11, NamesKept DEF KeepsNames
  <1>13. Keeps(s, t)  BY <1>9, <1>11, KeepsTrans
  <1>14. ASSUME NEW q \in L!Port PROVE PortGood(t, q)
    <2>1. PortGood(s, q)  BY <1>2 DEF Sound
    <2>2. CASE q = p
      <3>1. t.pvt[p].state = "ONHOOK" /\ t.pvt[p].dtmfbuf = s.pvt[p].dtmfbuf
        BY <1>5, <1>9, <1>11
      <3>2. s.spoiled[p] \subseteq t.spoiled[p]  BY <1>13 DEF Keeps
      <3>3. s.pvt[p].state = "DIALING" /\ s.pvt[p].dtmfbuf # <<>> => "digits" \in t.spoiled[p]
        BY <1>9, <1>11
      <3> QED  BY <2>1, <2>2, <3>1, <3>2, <3>3 DEF PortGood
    <2>3. CASE q # p
      BY <1>9, <1>11, <1>13, <2>1, <2>3, GoodKept
    <2> QED  BY <2>2, <2>3
  <1>15. Sound(t)  BY <1>12, <1>13, <1>14 DEF Sound, Keeps
  <1>16. \A q \in L!Port : AtDial(t, q) => q # p /\ AtDial(s, q)
    BY <1>5, <1>9, <1>11 DEF AtDial
  <1>17. \A q \in L!Port :
            t.line[q].events = line[q].events /\ t.line[q].hook = line[q].hook
    BY <1>8, <1>13 DEF Keeps
  <1>18. L!Handling("onhook")  BY DEF L!OnHook
  <1> QED  BY <1>1, <1>3, <1>7, <1>15, <1>16, <1>17, <1>18, EventHandled

(* keyed of a port changes.                                                 *)
WithKeyed(s, p, k) == [s EXCEPT !.keyed = [s.keyed EXCEPT ![p] = k]]

LEMMA PutKeyed ==
  ASSUME NEW s \in PhoneState, NEW p \in L!Port, NEW k \in Seq(Digit)
  PROVE  LET t == WithKeyed(s, p, k)
         IN  /\ t \in PhoneState
             /\ t.chan = s.chan /\ t.spoiled = s.spoiled /\ t.line = s.line
             /\ t.pvt = s.pvt /\ t.timer = s.timer
             /\ \A q \in L!Port : t.keyed[q] = IF q = p THEN k ELSE s.keyed[q]
  BY DEF PhoneState, WithKeyed

LEMMA OffHookStep ==
  ASSUME LineInv, L!OffHook
  PROVE  LineInv'
  <1>1. PICK s : s = L!Now  OBVIOUS
  <1>2. PhoneInv(s, mon) /\ Sound(s) /\ s \in PhoneState /\ Names(s)
    BY <1>1 DEF LineInv, PhoneInv, Sound
  <1>3. PICK p \in L!Port : p = mon.i
    BY Zenon DEF LineInv, PhoneInv, MonitorOK, L!OffHook, L!Handling
  <1>4. pvt[p].state = s.pvt[p].state /\ s.line = line  BY <1>1, NowFields
  <1>5. PICK k \in Seq(Digit) : k = <<>>
    <2>1. <<>> \in Seq(Digit)  OBVIOUS
    <2> QED  BY <2>1
  <1>6. PICK r : r = WithKeyed(s, p, k)  OBVIOUS
  <1>7. /\ r \in PhoneState
        /\ r.chan = s.chan /\ r.spoiled = s.spoiled /\ r.line = s.line /\ r.pvt = s.pvt
        /\ \A q \in L!Port : r.keyed[q] = IF q = p THEN k ELSE s.keyed[q]
    BY <1>2, <1>6, PutKeyed
  <1>8. r = [s EXCEPT !.keyed[p] = <<>>]
    BY <1>2, <1>5, <1>6 DEF WithKeyed, PhoneState
  <1>9. Names(r)  BY <1>2, <1>7 DEF Names, IsAlive
  <1>10. PICK t : t = IF pvt[p].state = "RINGING" THEN L!accept_call(r, p)
                      ELSE L!SetState(r, p, "OFFHOOK")
    OBVIOUS
  <1>11. L!Becomes(t)  BY <1>1, <1>3, <1>8, <1>10 DEF L!OffHook
  <1>12. ~ AtDial(s, p)
    <2>1. mon.pc = "handle" /\ mon.event = "offhook" /\ Handles(mon, p)
      BY <1>3 DEF L!OffHook, L!Handling, Handles
    <2> QED  BY <1>2, <2>1 DEF PhoneInv, Tracked, Ahead, Follows
  <1>13. PortGood(s, p)  BY <1>2 DEF Sound
  <1>14. s.spoiled[p] \cap {"digits", "timer", "owner", "refused"} = {}
           => s.pvt[p].dtmfbuf = <<>>
    BY <1>12, <1>13 DEF PortGood, AtDial
  <1>15. PICK call \in L!State : call = "INCALL"  BY DEF L!State
  <1>16. PICK off \in L!State : off = "OFFHOOK"  BY DEF L!State
  <1>17. /\ Keeps(r, t) /\ Names(t)
         /\ \A q \in L!Port : t.pvt[q].dtmfbuf = r.pvt[q].dtmfbuf
         /\ \A q \in L!Port \ {p} : t.pvt[q].state = r.pvt[q].state
         /\ t.pvt[p].state \in {"OFFHOOK", "INCALL", "RINGING"}
    <2>1. CASE s.pvt[p].state = "RINGING"
      <3>1. t = L!accept_call(r, p)  BY <1>4, <1>10, <2>1
      <3>2. CASE r.pvt[p].owner # None /\ r.chan[r.pvt[p].owner].st = "RINGING"
        <4>1. r.pvt[p] \in PvtRec  BY <1>7 DEF PhoneState
        <4>2. PICK c \in Chan : c = r.pvt[p].owner  BY <3>2, <4>1 DEF PvtRec
        <4>3. PICK f \in {"ANSWER", "HANGUP"} : f = "ANSWER"  OBVIOUS
        <4>4. PICK v : v = L!QueueFrame(r, c, f)  OBVIOUS
        <4>5. /\ Keeps(r, v) /\ v.pvt = r.pvt
              /\ \A b \in Chan : v.chan[b].st = r.chan[b].st /\ v.chan[b].port = r.chan[b].port
          BY <1>7, <4>4, FrameOK
        <4>6. v \in PhoneState /\ Names(v)  BY <1>9, <4>5, NamesKept DEF KeepsNames, Keeps
        <4>7. t = L!SetState(v, p, call)
          BY <1>15, <3>1, <3>2, <4>2, <4>3, <4>4 DEF L!accept_call
        <4>8. /\ Keeps(v, t) /\ t.chan = v.chan
              /\ \A q \in L!Port :
                    /\ t.pvt[q].owner = v.pvt[q].owner /\ t.pvt[q].dtmfbuf = v.pvt[q].dtmfbuf
                    /\ t.pvt[q].state = IF q = p THEN call ELSE v.pvt[q].state
          BY <4>6, <4>7, SetStateOK
        <4>9. Names(t)  BY <4>6, <4>8, NamesKept DEF KeepsNames
        <4>10. Keeps(r, t)  BY <4>5, <4>8, KeepsTrans
        <4> QED  BY <1>15, <4>5, <4>8, <4>9, <4>10
      <3>3. CASE ~ (r.pvt[p].owner # None /\ r.chan[r.pvt[p].owner].st = "RINGING")
        <4>1. t = r  BY <3>1, <3>3 DEF L!accept_call
        <4> QED  BY <1>7, <1>9, <2>1, <4>1 DEF Keeps
      <3> QED  BY <3>2, <3>3
    <2>2. CASE s.pvt[p].state # "RINGING"
      <3>1. t = L!SetState(r, p, off)  BY <1>4, <1>10, <1>16, <2>2
      <3>2. /\ Keeps(r, t) /\ t.chan = r.chan
            /\ \A q \in L!Port :
                  /\ t.pvt[q].owner = r.pvt[q].owner /\ t.pvt[q].dtmfbuf = r.pvt[q].dtmfbuf
                  /\ t.pvt[q].state = IF q = p THEN off ELSE r.pvt[q].state
        BY <1>7, <3>1, SetStateOK
      <3>3. Names(t)  BY <1>9, <3>2, NamesKept DEF KeepsNames
      <3> QED  BY <1>16, <3>2, <3>3
    <2> QED  BY <2>1, <2>2
  <1>18. ASSUME NEW q \in L!Port PROVE PortGood(t, q)
    <2>1. r.spoiled[q] \subseteq t.spoiled[q] /\ t.keyed = r.keyed  BY <1>17 DEF Keeps
    <2>2. CASE q = p
      BY <1>5, <1>7, <1>14, <1>17, <2>1, <2>2 DEF PortGood
    <2>3. CASE q # p
      <3>1. PortGood(s, q)  BY <1>2 DEF Sound
      <3> QED  BY <1>7, <1>17, <2>1, <2>3, <3>1 DEF PortGood
    <2> QED  BY <2>2, <2>3
  <1>19. Sound(t)  BY <1>17, <1>18 DEF Sound, Keeps
  <1>20. \A q \in L!Port : AtDial(t, q) => q = p \/ AtDial(s, q)
    BY <1>7, <1>17 DEF AtDial
  <1>21. \A q \in L!Port :
            t.line[q].events = line[q].events /\ t.line[q].hook = line[q].hook
    BY <1>4, <1>7, <1>17 DEF Keeps
  <1>22. L!Handling("offhook")  BY DEF L!OffHook
  <1> QED  BY <1>1, <1>3, <1>11, <1>19, <1>20, <1>21, <1>22, EventHandled

LEMMA OffHookFailsStep ==
  ASSUME LineInv, L!OffHookFails
  PROVE  LineInv'
  <1>1. L!Handling("offhook") /\ L!Becomes(L!Now)  BY DEF L!OffHookFails
  <1>2. PICK s : s = L!Now  OBVIOUS
  <1>3. Sound(s) /\ s.line = line  BY <1>2, NowFields DEF LineInv, PhoneInv
  <1> QED  BY <1>1, <1>2, <1>3, EventHandled

(* The first digit starts the dialling.                                     *)
LEMMA DialingOK ==
  ASSUME NEW s \in PhoneState, NEW p \in L!Port, Names(s)
  PROVE  LET t == L!Dialing(s, p)
         IN  /\ Keeps(s, t) /\ Names(t) /\ t.chan = s.chan /\ t.spoiled = s.spoiled
             /\ \A q \in L!Port :
                   /\ t.pvt[q].dtmfbuf = s.pvt[q].dtmfbuf
                   /\ q # p => t.pvt[q].state = s.pvt[q].state
             /\ AtDial(s, p) => t.pvt[p].state = "DIALING"
  <1>1. PICK t : t = L!Dialing(s, p)  OBVIOUS
  <1>2. CASE s.pvt[p].state = "OFFHOOK"
    <2>1. PICK st \in L!State : st = "DIALING"  BY DEF L!State
    <2>2. t = L!SetState(s, p, st)  BY <1>1, <1>2, <2>1 DEF L!Dialing, L!When
    <2>3. /\ Keeps(s, t) /\ t.chan = s.chan /\ t.spoiled = s.spoiled
          /\ \A q \in L!Port :
                /\ t.pvt[q].owner = s.pvt[q].owner /\ t.pvt[q].dtmfbuf = s.pvt[q].dtmfbuf
                /\ t.pvt[q].state = IF q = p THEN st ELSE s.pvt[q].state
      BY <2>2, SetStateOK
    <2>4. Names(t)  BY <2>3, NamesKept DEF KeepsNames
    <2> QED  BY <1>1, <2>1, <2>3, <2>4
  <1>3. CASE s.pvt[p].state # "OFFHOOK"
    <2>1. t = s  BY <1>1, <1>3 DEF L!Dialing, L!When
    <2> QED  BY <1>1, <1>3, <2>1 DEF Keeps, AtDial
  <1> QED  BY <1>2, <1>3

LEMMA DigitStep ==
  ASSUME LineInv, NEW d, L!DigitEvent(d)
  PROVE  LineInv'
  <1>1. PICK s : s = L!Now  OBVIOUS
  <1>2. Sound(s) /\ s \in PhoneState /\ Names(s)  BY <1>1 DEF LineInv, PhoneInv, Sound
  <1>3. PICK p \in L!Port : p = mon.i
    BY Zenon DEF LineInv, PhoneInv, MonitorOK, L!DigitEvent, L!Handling
  <1>4. pvt[p].state = s.pvt[p].state /\ s.line = line  BY <1>1, NowFields
  <1>5. L!Handling(d) /\ d \in Digit  BY DEF L!DigitEvent
  <1>6. d \notin {"offhook", "onhook"}  BY <1>5, LineAssumption
  <1>7. CASE AtDial(s, p)
    <2>1. PICK u : u = L!Dialing(s, p)  OBVIOUS
    <2>2. /\ Keeps(s, u) /\ Names(u) /\ u.chan = s.chan /\ u.spoiled = s.spoiled
          /\ \A q \in L!Port :
                /\ u.pvt[q].dtmfbuf = s.pvt[q].dtmfbuf
                /\ q # p => u.pvt[q].state = s.pvt[q].state
          /\ u.pvt[p].state = "DIALING"
      BY <1>2, <1>7, <2>1, DialingOK
    <2>3. u \in PhoneState /\ u.keyed = s.keyed  BY <2>2 DEF Keeps
    <2>4. u.pvt[p] \in PvtRec /\ u.keyed[p] \in Seq(Digit)  BY <2>3 DEF PhoneState
    <2>5. u.pvt[p].dtmfbuf \in Seq(Digit)  BY <2>4 DEF PvtRec
    <2>0. \A z \in Seq(Digit) : Append(z, d) \in Seq(Digit)  BY <1>5
    <2>6. PICK buf \in Seq(Digit) : buf = Append(u.pvt[p].dtmfbuf, d)  BY <2>5, <2>0, Zenon
    <2>7. PICK k \in Seq(Digit) : k = Append(u.keyed[p], d)  BY <2>4, <2>0, Zenon
    <2>8. PICK x : x = [u.pvt[p] EXCEPT !.dtmfbuf = buf]  OBVIOUS
    <2>9. /\ x \in PvtRec /\ x.owner = u.pvt[p].owner /\ x.state = u.pvt[p].state
          /\ x.dtmfbuf = buf
      BY <2>4, <2>8, Zenon DEF PvtRec
    <2>10. PICK v : v = WithPvt(u, p, x)  OBVIOUS
    <2>11. /\ Keeps(u, v) /\ v.chan = u.chan /\ v.spoiled = u.spoiled /\ v.line = u.line
           /\ \A q \in L!Port : v.pvt[q] = IF q = p THEN x ELSE u.pvt[q]
      BY <2>3, <2>9, <2>10, PutPvt
    <2>12. v \in PhoneState /\ v.keyed = u.keyed  BY <2>11 DEF Keeps
    <2>13. Names(v)  BY <2>2, <2>9, <2>11, NamesKept DEF KeepsNames
    <2>14. PICK w : w = WithKeyed(v, p, k)  OBVIOUS
    <2>15. /\ w \in PhoneState
           /\ w.chan = v.chan /\ w.spoiled = v.spoiled /\ w.line = v.line /\ w.pvt = v.pvt
           /\ \A q \in L!Port : w.keyed[q] = IF q = p THEN k ELSE v.keyed[q]
      BY <2>12, <2>14, PutKeyed
    <2>16. Names(w)  BY <2>13, <2>15 DEF Names, IsAlive
    <2>17. w = [u EXCEPT !.pvt[p].dtmfbuf = Append(@, d), !.keyed[p] = Append(@, d)]
      BY <2>3, <2>6, <2>7, <2>8, <2>10, <2>14 DEF WithPvt, WithKeyed, PhoneState
    <2>18. PICK b \in BOOLEAN : b = TRUE  OBVIOUS
    <2>19. PICK t : t = Timed(w, p, b)  OBVIOUS
    <2>20. L!SetTimer(w, p) = t  BY <2>18, <2>19 DEF L!SetTimer, Timed
    <2>21. /\ Keeps(w, t) /\ t.chan = w.chan /\ t.spoiled = w.spoiled
           /\ \A q \in L!Port :
                 /\ t.pvt[q].owner = w.pvt[q].owner /\ t.pvt[q].dtmfbuf = w.pvt[q].dtmfbuf
                 /\ t.pvt[q].state = w.pvt[q].state
      BY <2>15, <2>19, TimedOK
    <2>22. Names(t)  BY <2>16, <2>21, NamesKept DEF KeepsNames
    <2>23. L!Becomes(t)
      BY <1>1, <1>3, <1>4, <1>7, <2>1, <2>17, <2>20 DEF L!DigitEvent, AtDial
    <2>24. ASSUME NEW q \in L!Port PROVE PortGood(t, q)
      <3>1. PortGood(s, q)  BY <1>2 DEF Sound
      <3>2. t.keyed = w.keyed /\ t.spoiled[q] = s.spoiled[q]
        BY <2>2, <2>11, <2>15, <2>21 DEF Keeps
      <3>3. CASE q = p
        <4>0. /\ t.pvt[p].state = "DIALING" /\ t.pvt[p].dtmfbuf = buf /\ t.keyed[p] = k
              /\ u.pvt[p].dtmfbuf = s.pvt[p].dtmfbuf /\ u.keyed[p] = s.keyed[p]
          BY <2>2, <2>3, <2>9, <2>11, <2>15, <2>21, <3>2
        <4>1. /\ t.pvt[p].state = "DIALING" /\ t.pvt[p].dtmfbuf = Append(s.pvt[p].dtmfbuf, d)
              /\ t.keyed[p] = Append(s.keyed[p], d)
          BY <2>6, <2>7, <4>0, Zenon
        <4>2. s.spoiled[p] \cap {"digits", "timer", "owner", "refused"} = {}
                => s.pvt[p].dtmfbuf = s.keyed[p]
          BY <1>7, <3>1, <3>3 DEF PortGood, AtDial
        <4> QED  BY <3>2, <3>3, <4>1, <4>2 DEF PortGood
      <3>4. CASE q # p
        BY <2>2, <2>3, <2>11, <2>12, <2>15, <2>21, <3>1, <3>2, <3>4 DEF PortGood
      <3> QED  BY <3>3, <3>4
    <2>25. Sound(t)  BY <2>21, <2>22, <2>24 DEF Sound, Keeps
    <2>26. \A q \in L!Port : AtDial(t, q) => AtDial(s, q)
      BY <1>7, <2>2, <2>11, <2>15, <2>21 DEF AtDial
    <2>27. \A q \in L!Port :
              t.line[q].events = line[q].events /\ t.line[q].hook = line[q].hook
      BY <1>4, <2>2, <2>11, <2>15, <2>21 DEF Keeps
    <2> QED  BY <1>1, <1>3, <1>5, <1>6, <2>23, <2>25, <2>26, <2>27, EventHandled
  <1>8. CASE ~ AtDial(s, p)
    <2>1. L!Becomes(s)
      BY <1>1, <1>3, <1>4, <1>8 DEF L!DigitEvent, AtDial, L!port, L!Becomes, L!Now
    <2> QED  BY <1>1, <1>2, <1>4, <1>5, <1>6, <2>1, EventHandled
  <1> QED  BY <1>7, <1>8

LEMMA HashStep ==
  ASSUME LineInv, NEW c \in Chan, NEW started \in BOOLEAN, L!HashEvent(c, started)
  PROVE  LineInv'
  <1>1. PICK s : s = L!Now  OBVIOUS
  <1>2. Sound(s) /\ s \in PhoneState /\ Names(s)  BY <1>1 DEF LineInv, PhoneInv, Sound
  <1>3. PICK p \in L!Port : p = mon.i
    BY Zenon DEF LineInv, PhoneInv, MonitorOK, L!HashEvent, L!Handling
  <1>4. s.pvt = pvt /\ s.line = line /\ s.chan = chan  BY <1>1, NowFields
  <1>5. L!Handling("#")  BY DEF L!HashEvent
  <1>6. "#" \notin {"offhook", "onhook"}  OBVIOUS
  <1>7. CASE AtDial(s, p)
    <2>1. PICK u : u = L!Dialing(s, p)  OBVIOUS
    <2>2. /\ Keeps(s, u) /\ Names(u) /\ u.chan = s.chan
          /\ \A q \in L!Port :
                /\ u.pvt[q].dtmfbuf = s.pvt[q].dtmfbuf
                /\ q # p => u.pvt[q].state = s.pvt[q].state
      BY <1>2, <2>1, DialingOK
    <2>3. u \in PhoneState  BY <2>2 DEF Keeps
    <2>4. PICK v : v = L!DeleteTimer(u, p)  OBVIOUS
    <2>5. /\ Keeps(u, v) /\ v.chan = u.chan
          /\ \A q \in L!Port :
                /\ v.pvt[q].owner = u.pvt[q].owner /\ v.pvt[q].dtmfbuf = u.pvt[q].dtmfbuf
                /\ v.pvt[q].state = u.pvt[q].state
      BY <2>3, <2>4, DeleteTimerOK
    <2>6. v \in PhoneState /\ Names(v)  BY <2>2, <2>5, NamesKept DEF KeepsNames, Keeps
    <2>7. v.pvt[p].dtmfbuf \in Extension => v.chan[c].st = "FREE"
      <3>1. v.pvt[p].dtmfbuf = pvt[p].dtmfbuf /\ v.chan = chan  BY <1>4, <2>2, <2>5
      <3> QED  BY <1>3, <3>1 DEF L!HashEvent, L!Dialable, L!Unused
    <2>8. PICK t : t = L!lantiq_dial(v, p, c, started)  OBVIOUS
    <2>9. /\ Keeps(v, t) /\ Names(t)
          /\ t.pvt[p].dtmfbuf = <<>> /\ ~ AtDial(t, p)
          /\ \A q \in L!Port \ {p} :
                t.pvt[q].state = v.pvt[q].state /\ t.pvt[q].dtmfbuf = v.pvt[q].dtmfbuf
      BY <2>6, <2>7, <2>8, DialOK
    <2>10. L!Becomes(t)
      BY <1>1, <1>3, <1>4, <1>7, <2>1, <2>4, <2>8 DEF L!HashEvent, AtDial
    <2>11. Keeps(s, t)  BY <2>2, <2>5, <2>9, KeepsTrans
    <2>12. ASSUME NEW q \in L!Port PROVE PortGood(t, q)
      <3>1. CASE q = p  BY <2>9, <3>1 DEF PortGood, AtDial
      <3>2. CASE q # p
        <4>1. PortGood(s, q)  BY <1>2 DEF Sound
        <4>2. t.pvt[q].state = s.pvt[q].state /\ t.pvt[q].dtmfbuf = s.pvt[q].dtmfbuf
          BY <2>2, <2>5, <2>9, <3>2
        <4> QED  BY <2>11, <4>1, <4>2, GoodKept
      <3> QED  BY <3>1, <3>2
    <2>13. Sound(t)  BY <2>9, <2>12 DEF Sound, Keeps
    <2>14. \A q \in L!Port : AtDial(t, q) => q # p /\ AtDial(s, q)
      BY <2>2, <2>5, <2>9 DEF AtDial
    <2>15. \A q \in L!Port :
              t.line[q].events = line[q].events /\ t.line[q].hook = line[q].hook
      BY <1>4, <2>11 DEF Keeps
    <2> QED  BY <1>1, <1>3, <1>5, <2>10, <2>13, <2>14, <2>15, EventHandled
  <1>8. CASE ~ AtDial(s, p)
    <2>1. L!Becomes(s)
      BY <1>1, <1>3, <1>4, <1>8 DEF L!HashEvent, AtDial, L!port, L!Becomes, L!Now
    <2> QED  BY <1>1, <1>2, <1>4, <1>5, <1>6, <2>1, EventHandled
  <1> QED  BY <1>7, <1>8

(* What the steps of the other threads have in common.                      *)
LEMMA OtherThread ==
  ASSUME LineInv, NEW t, L!Becomes(t), Keeps(L!Now, t), Names(t), mon' = mon,
         \A q \in L!Port : PortGood(t, q) /\ (AtDial(t, q) => AtDial(L!Now, q))
  PROVE  LineInv'
  <1>1. PICK s : s = L!Now  OBVIOUS
  <1>2. PhoneInv(t, mon)  BY <1>1, InnerStep DEF LineInv
  <1>3. L!Now' = t  BY Becoming DEF Keeps
  <1> QED  BY <1>2, <1>3 DEF LineInv

(* The timer of a port runs down, or its callback has begun.                *)
LEMMA TimerOnly ==
  ASSUME LineInv, UNCHANGED <<line, chan, keyed, spoiled, mon>>,
         timer' \in [L!Port -> TimerRec], pvt' \in [L!Port -> PvtRec],
         \A q \in L!Port :
            /\ pvt'[q].state = pvt[q].state /\ pvt'[q].dtmfbuf = pvt[q].dtmfbuf
            /\ pvt'[q].owner = pvt[q].owner
  PROVE  LineInv'
  <1>1. PICK s : s = L!Now  OBVIOUS
  <1>2. PICK t : t = L!Now'  OBVIOUS
  <1>3. Sound(s) /\ s \in PhoneState /\ Names(s)  BY <1>1 DEF LineInv, PhoneInv, Sound
  <1>4. /\ t.line = s.line /\ t.chan = s.chan /\ t.keyed = s.keyed /\ t.spoiled = s.spoiled
        /\ t.timer = timer' /\ t.pvt = pvt' /\ s.pvt = pvt
    BY <1>1, <1>2 DEF L!Now
  <1>5. t \in PhoneState  BY <1>1, <1>2, <1>3 DEF L!Now, PhoneState
  <1>6. Keeps(s, t)  BY <1>4, <1>5 DEF Keeps
  <1>7. Names(t)  BY <1>3, <1>4, <1>6, NamesKept DEF KeepsNames
  <1>8. ASSUME NEW q \in L!Port PROVE PortGood(t, q) /\ (AtDial(t, q) => AtDial(s, q))
    <2>1. PortGood(s, q)  BY <1>3 DEF Sound
    <2>2. PortGood(t, q)  BY <1>4, <1>6, <2>1, GoodKept
    <2> QED  BY <1>4, <2>2 DEF AtDial
  <1>9. L!Becomes(t)  BY <1>2 DEF L!Becomes, L!Now
  <1> QED  BY <1>1, <1>6, <1>7, <1>8, <1>9, OtherThread

LEMMA ExpireStep ==
  ASSUME LineInv, NEW p \in L!Port, L!Expire(p)
  PROVE  LineInv'
  <1>1. /\ timer \in [L!Port -> TimerRec] /\ pvt \in [L!Port -> PvtRec]
    BY NowFields DEF LineInv, PhoneInv, Sound, PhoneState
  <1>2. timer[p] \in TimerRec /\ timer[p].orphans \in Nat  BY <1>1 DEF TimerRec
  <1>3. UNCHANGED <<pvt, line, chan, keyed, spoiled, mon>>  BY DEF L!Expire, L!threads
  <1>4. \E x \in TimerRec : timer' = [timer EXCEPT ![p] = x]
    <2>1. CASE timer' = [timer EXCEPT ![p].own = FALSE, ![p].callback = "begun"]
      <3>1. PICK x : x = [timer[p] EXCEPT !.own = FALSE, !.callback = "begun"]  OBVIOUS
      <3>2. x \in TimerRec  BY <1>2, <3>1, Zenon DEF TimerRec
      <3>3. timer' = [timer EXCEPT ![p] = x]  BY <1>1, <2>1, <3>1
      <3> QED  BY <3>2, <3>3
    <2>2. CASE /\ timer[p].orphans > 0
               /\ timer' = [timer EXCEPT ![p].orphans = @ - 1, ![p].callback = "begun"]
      <3>1. PICK n \in Nat : n = timer[p].orphans - 1  BY <1>2, <2>2
      <3>2. PICK x : x = [timer[p] EXCEPT !.orphans = n, !.callback = "begun"]  OBVIOUS
      <3>3. x \in TimerRec  BY <1>2, <3>2, Zenon DEF TimerRec
      <3>4. timer' = [timer EXCEPT ![p] = x]  BY <1>1, <2>2, <3>1, <3>2
      <3> QED  BY <3>3, <3>4
    <2> QED  BY <2>1, <2>2 DEF L!Expire
  <1>5. timer' \in [L!Port -> TimerRec]  BY <1>1, <1>4
  <1> QED  BY <1>1, <1>3, <1>5, TimerOnly

LEMMA TimeoutBegins ==
  ASSUME LineInv, NEW p \in L!Port, L!lantiq_event_dial_timeout(p)
  PROVE  LineInv'
  <1>1. /\ timer \in [L!Port -> TimerRec] /\ pvt \in [L!Port -> PvtRec]
    BY NowFields DEF LineInv, PhoneInv, Sound, PhoneState
  <1>2. timer[p] \in TimerRec /\ timer[p].orphans \in Nat  BY <1>1 DEF TimerRec
  <1>3. UNCHANGED <<line, chan, keyed, spoiled, mon>>
    BY DEF L!lantiq_event_dial_timeout, L!threads
  <1>4. PICK n \in Nat : n = IF timer[p].own THEN timer[p].orphans + 1 ELSE timer[p].orphans
    BY <1>2
  <1>5. PICK cb \in {"no", "begun", "dial"} : cb = IF pvt[p].state # "ONHOOK" THEN "dial" ELSE "no"
    OBVIOUS
  <1>6. PICK x : x = [timer[p] EXCEPT !.own = FALSE, !.orphans = n, !.callback = cb]  OBVIOUS
  <1>7. x \in TimerRec  BY <1>2, <1>6, Zenon DEF TimerRec
  <1>8. timer' = [timer EXCEPT ![p] = x]
    BY <1>1, <1>4, <1>5, <1>6 DEF L!lantiq_event_dial_timeout
  <1>9. timer' \in [L!Port -> TimerRec]  BY <1>1, <1>7, <1>8
  <1>10. PICK y : y = [pvt[p] EXCEPT !.dial_timer = FALSE]  OBVIOUS
  <1>11. pvt[p] \in PvtRec  BY <1>1
  <1>12. /\ y \in PvtRec /\ y.state = pvt[p].state /\ y.dtmfbuf = pvt[p].dtmfbuf
         /\ y.owner = pvt[p].owner
    BY <1>10, <1>11, Zenon DEF PvtRec
  <1>13. pvt' = [pvt EXCEPT ![p] = y]
    BY <1>1, <1>10 DEF L!lantiq_event_dial_timeout
  <1>14. /\ pvt' \in [L!Port -> PvtRec]
         /\ \A q \in L!Port :
            /\ pvt'[q].state = pvt[q].state /\ pvt'[q].dtmfbuf = pvt[q].dtmfbuf
            /\ pvt'[q].owner = pvt[q].owner
    BY <1>1, <1>12, <1>13
  <1> QED  BY <1>3, <1>9, <1>14, TimerOnly

LEMMA TimeoutDialsStep ==
  ASSUME LineInv, NEW p \in L!Port, NEW c \in Chan, NEW started \in BOOLEAN,
         L!TimeoutDials(p, c, started)
  PROVE  LineInv'
  <1>1. PICK s : s = L!Now  OBVIOUS
  <1>2. Sound(s) /\ s \in PhoneState /\ Names(s)  BY <1>1 DEF LineInv, PhoneInv, Sound
  <1>3. s.pvt = pvt /\ s.chan = chan  BY <1>1, NowFields
  <1>4. PICK u : u = L!When(s.pvt[p].state # "DIALING", L!Spoil(s, p, "timer"), s)  OBVIOUS
  <1>5. /\ Keeps(s, u) /\ u.chan = s.chan /\ u.pvt = s.pvt
    <2>1. CASE s.pvt[p].state # "DIALING"
      <3>1. PICK why \in L!Reason : why = "timer"  BY DEF L!Reason
      <3>2. u = L!Spoil(s, p, why)  BY <1>4, <2>1, <3>1 DEF L!When
      <3> QED  BY <1>2, <3>2, SpoilOK
    <2>2. CASE s.pvt[p].state = "DIALING"
      <3>1. u = s  BY <1>4, <2>2 DEF L!When
      <3> QED  BY <1>2, <3>1 DEF Keeps
    <2> QED  BY <2>1, <2>2
  <1>6. u \in PhoneState /\ Names(u)  BY <1>2, <1>5, NamesKept DEF KeepsNames, Keeps
  <1>7. PICK x : x = [u.timer[p] EXCEPT !.callback = "no"]  OBVIOUS
  <1>8. u.timer[p] \in TimerRec  BY <1>6 DEF PhoneState
  <1>9. x \in TimerRec  BY <1>7, <1>8, Zenon DEF TimerRec
  <1>10. PICK v : v = WithTimer(u, p, x)  OBVIOUS
  <1>11. /\ Keeps(u, v) /\ v.chan = u.chan /\ v.pvt = u.pvt
    BY <1>6, <1>9, <1>10, PutTimer
  <1>12. v \in PhoneState /\ Names(v)  BY <1>6, <1>11, NamesKept DEF KeepsNames, Keeps
  <1>13. v = [u EXCEPT !.timer[p].callback = "no"]
    BY <1>6, <1>7, <1>10 DEF WithTimer, PhoneState
  <1>14. v.pvt[p].dtmfbuf \in Extension => v.chan[c].st = "FREE"
    BY <1>3, <1>5, <1>11 DEF L!TimeoutDials, L!Dialable, L!Unused
  <1>15. PICK t : t = L!lantiq_dial(v, p, c, started)  OBVIOUS
  <1>16. /\ Keeps(v, t) /\ Names(t)
         /\ t.pvt[p].dtmfbuf = <<>> /\ ~ AtDial(t, p)
         /\ \A q \in L!Port \ {p} :
               t.pvt[q].state = v.pvt[q].state /\ t.pvt[q].dtmfbuf = v.pvt[q].dtmfbuf
    BY <1>12, <1>14, <1>15, DialOK
  <1>17. L!Becomes(t)
    BY <1>1, <1>3, <1>4, <1>13, <1>15 DEF L!TimeoutDials
  <1>18. Keeps(s, t)  BY <1>5, <1>11, <1>16, KeepsTrans
  <1>19. ASSUME NEW q \in L!Port PROVE PortGood(t, q) /\ (AtDial(t, q) => AtDial(s, q))
    <2>1. CASE q = p  BY <1>16, <2>1 DEF PortGood, AtDial
    <2>2. CASE q # p
      <3>1. PortGood(s, q)  BY <1>2 DEF Sound
      <3>2. t.pvt[q].state = s.pvt[q].state /\ t.pvt[q].dtmfbuf = s.pvt[q].dtmfbuf
        BY <1>5, <1>11, <1>16, <2>2
      <3>3. PortGood(t, q)  BY <1>18, <3>1, <3>2, GoodKept
      <3> QED  BY <3>2, <3>3 DEF AtDial
    <2> QED  BY <2>1, <2>2
  <1>20. mon' = mon  BY DEF L!TimeoutDials, L!threads
  <1> QED  BY <1>1, <1>16, <1>17, <1>18, <1>19, <1>20, OtherThread

(* Only channels change, none of them comes to exist, ceases to, or moves.  *)
LEMMA ChannelsOnly ==
  ASSUME LineInv, UNCHANGED <<pvt, line, timer, keyed, spoiled, mon>>,
         chan' \in [Chan -> ChanRec],
         \A c \in Chan : /\ chan'[c].port = chan[c].port
                         /\ L!Live(c)' <=> L!Live(c)
  PROVE  LineInv'
  <1>1. PICK s : s = L!Now  OBVIOUS
  <1>2. PICK t : t = L!Now'  OBVIOUS
  <1>3. Sound(s) /\ s \in PhoneState /\ Names(s)  BY <1>1 DEF LineInv, PhoneInv, Sound
  <1>4. /\ t.line = s.line /\ t.timer = s.timer /\ t.keyed = s.keyed /\ t.spoiled = s.spoiled
        /\ t.pvt = s.pvt /\ s.chan = chan /\ t.chan = chan'
    BY <1>1, <1>2 DEF L!Now
  <1>5. t \in PhoneState  BY <1>1, <1>2, <1>3 DEF L!Now, PhoneState
  <1>6. Keeps(s, t)  BY <1>4, <1>5 DEF Keeps
  <1>7. \A c \in Chan : t.chan[c].port = s.chan[c].port /\ (IsAlive(t, c) <=> IsAlive(s, c))
    BY <1>4 DEF IsAlive, L!Live
  <1>8. Names(t)  BY <1>3, <1>4, <1>7 DEF Names
  <1>9. ASSUME NEW q \in L!Port PROVE PortGood(t, q) /\ (AtDial(t, q) => AtDial(s, q))
    <2>1. PortGood(s, q)  BY <1>3 DEF Sound
    <2>2. PortGood(t, q)  BY <1>4, <1>6, <2>1, GoodKept
    <2> QED  BY <1>4, <2>2 DEF AtDial
  <1>10. L!Becomes(t)  BY <1>2 DEF L!Becomes, L!Now
  <1> QED  BY <1>1, <1>6, <1>8, <1>9, <1>10, OtherThread

LEMMA AnswerStep ==
  ASSUME LineInv, NEW c \in Chan, L!ReadAnswer(c) \/ L!Answered(c)
  PROVE  LineInv'
  <1>1. chan \in [Chan -> ChanRec]  BY NowFields DEF LineInv, PhoneInv, Sound, PhoneState
  <1>2. chan[c] \in ChanRec  BY <1>1
  <1>3. UNCHANGED <<pvt, line, timer, keyed, spoiled, mon>>
    BY DEF L!ReadAnswer, L!Answered, L!threads
  <1>4. \E x \in ChanRec : /\ chan' = [chan EXCEPT ![c] = x] /\ x.port = chan[c].port
                           /\ x.st \notin {"FREE", "GONE"} /\ L!Live(c)
    <2>1. CASE L!ReadAnswer(c)
      <3>1. PICK fs \in SUBSET {"ANSWER", "HANGUP"} : fs = chan[c].frames \ {"ANSWER"}
        BY <1>2 DEF ChanRec
      <3>2. PICK st : st = IF chan[c].st = "RINGING" THEN "UP" ELSE chan[c].st  OBVIOUS
      <3>3. st \in L!ChanState /\ st \notin {"FREE", "GONE"} /\ L!Live(c)
        BY <1>2, <2>1, <3>2 DEF ChanRec, L!ChanState, L!ReadAnswer, L!Live
      <3>4. PICK x : x = [chan[c] EXCEPT !.frames = fs, !.st = st]  OBVIOUS
      <3>5. x \in ChanRec /\ x.port = chan[c].port /\ x.st = st
        BY <1>2, <3>3, <3>4, Zenon DEF ChanRec
      <3>6. chan' = [chan EXCEPT ![c] = x]
        BY <1>1, <2>1, <3>1, <3>2, <3>4 DEF L!ReadAnswer
      <3> QED  BY <3>3, <3>5, <3>6
    <2>2. CASE L!Answered(c)
      <3>1. PICK st \in L!ChanState : st = "UP"  BY DEF L!ChanState
      <3>2. PICK x : x = [chan[c] EXCEPT !.st = st]  OBVIOUS
      <3>3. x \in ChanRec /\ x.port = chan[c].port /\ x.st = st
        BY <1>2, <3>2, Zenon DEF ChanRec
      <3>4. chan' = [chan EXCEPT ![c] = x]
        BY <1>1, <2>2, <3>1, <3>2 DEF L!Answered
      <3>5. L!Live(c)  BY <2>2 DEF L!Answered, L!Live
      <3> QED  BY <3>1, <3>3, <3>4, <3>5
    <2> QED  BY <2>1, <2>2
  <1>5. \A b \in Chan : chan'[b].port = chan[b].port /\ (L!Live(b)' <=> L!Live(b))
    BY <1>1, <1>4 DEF L!Live
  <1>6. chan' \in [Chan -> ChanRec]  BY <1>1, <1>4
  <1> QED  BY <1>3, <1>5, <1>6, ChannelsOnly

LEMMA RequesterStep ==
  ASSUME LineInv, NEW c \in Chan, NEW p \in L!Port, L!ast_lantiq_requester(c, p)
  PROVE  LineInv'
  <1>1. PICK s : s = L!Now  OBVIOUS
  <1>2. Sound(s) /\ s \in PhoneState /\ Names(s)  BY <1>1 DEF LineInv, PhoneInv, Sound
  <1>3. PICK st \in {"DOWN", "RING"} : st = "DOWN"  OBVIOUS
  <1>4. PICK t : t = L!lantiq_channel(s, p, c, st)  OBVIOUS
  <1>5. L!Becomes(t) /\ mon' = mon
    BY <1>1, <1>3, <1>4 DEF L!ast_lantiq_requester, L!threads
  <1>6. s.chan[c].st = "FREE"  BY <1>1, NowFields DEF L!ast_lantiq_requester, L!Unused
  <1>7. Names(t)  BY <1>2, <1>4, <1>6, ChannelNames
  <1>8. /\ Keeps(s, t)
        /\ \A q \in L!Port :
              t.pvt[q].state = s.pvt[q].state /\ t.pvt[q].dtmfbuf = s.pvt[q].dtmfbuf
    BY <1>2, <1>4, ChannelOK
  <1>9. ASSUME NEW q \in L!Port PROVE PortGood(t, q) /\ (AtDial(t, q) => AtDial(s, q))
    <2>1. PortGood(s, q)  BY <1>2 DEF Sound
    <2>2. PortGood(t, q)  BY <1>8, <2>1, GoodKept
    <2> QED  BY <1>8, <2>2 DEF AtDial
  <1> QED  BY <1>1, <1>5, <1>7, <1>8, <1>9, OtherThread

LEMMA CallStep ==
  ASSUME LineInv, NEW c \in Chan, L!ast_lantiq_call(c)
  PROVE  LineInv'
  <1>1. PICK s : s = L!Now  OBVIOUS
  <1>2. Sound(s) /\ s \in PhoneState /\ Names(s)  BY <1>1 DEF LineInv, PhoneInv, Sound
  <1>3. s.chan = chan /\ s.pvt = pvt  BY <1>1, NowFields
  <1>4. s.chan[c].st = "DOWN"  BY <1>3 DEF L!ast_lantiq_call
  <1>5. PICK p \in L!Port : p = s.chan[c].port  BY <1>2, <1>4 DEF Names, IsAlive
  <1>6. \E r \in PhoneState, st \in {"RINGING", "BUSY"} :
           /\ Keeps(s, r) /\ r.chan = s.chan
           /\ \A q \in L!Port :
                 /\ r.pvt[q].owner = s.pvt[q].owner /\ r.pvt[q].dtmfbuf = s.pvt[q].dtmfbuf
                 /\ \/ r.pvt[q].state = s.pvt[q].state
                    \/ r.pvt[q].state = "RINGING" /\ s.pvt[q].state = "ONHOOK"
           /\ L!Becomes([r EXCEPT !.chan[c].st = st])
    <2>1. CASE s.pvt[p].state = "ONHOOK"
      <3>1. PICK b \in BOOLEAN : b = TRUE  OBVIOUS
      <3>2. PICK n \in L!State : n = "RINGING"  BY DEF L!State
      <3>3. PICK u : u = L!lantiq_ring(s, p, b)  OBVIOUS
      <3>4. Keeps(s, u) /\ u.chan = s.chan /\ u.pvt = s.pvt  BY <1>2, <3>3, RingOK
      <3>5. u \in PhoneState  BY <3>4 DEF Keeps
      <3>6. PICK r : r = L!SetState(u, p, n)  OBVIOUS
      <3>7. /\ Keeps(u, r) /\ r.chan = u.chan
            /\ \A q \in L!Port :
                  /\ r.pvt[q].owner = u.pvt[q].owner /\ r.pvt[q].dtmfbuf = u.pvt[q].dtmfbuf
                  /\ r.pvt[q].state = IF q = p THEN n ELSE u.pvt[q].state
        BY <3>5, <3>6, SetStateOK
      <3>8. Keeps(s, r)  BY <3>4, <3>7, KeepsTrans
      <3>9. r \in PhoneState  BY <3>8 DEF Keeps
      <3>10. PICK st \in {"RINGING", "BUSY"} : st = "RINGING"  OBVIOUS
      <3>11. L!Becomes([r EXCEPT !.chan[c].st = st])
        BY <1>1, <1>3, <1>5, <2>1, <3>1, <3>2, <3>3, <3>6, <3>10 DEF L!ast_lantiq_call
      <3>12. \A q \in L!Port :
                /\ r.pvt[q].owner = s.pvt[q].owner /\ r.pvt[q].dtmfbuf = s.pvt[q].dtmfbuf
                /\ \/ r.pvt[q].state = s.pvt[q].state
                   \/ r.pvt[q].state = "RINGING" /\ s.pvt[q].state = "ONHOOK"
        BY <2>1, <3>2, <3>4, <3>7
      <3> QED  BY <3>4, <3>7, <3>8, <3>9, <3>11, <3>12
    <2>2. CASE s.pvt[p].state # "ONHOOK"
      <3>1. PICK st \in {"RINGING", "BUSY"} : st = "BUSY"  OBVIOUS
      <3>2. L!Becomes([s EXCEPT !.chan[c].st = st])
        BY <1>1, <1>3, <1>5, <2>2, <3>1 DEF L!ast_lantiq_call
      <3> QED  BY <1>2, <3>2 DEF Keeps
    <2> QED  BY <2>1, <2>2
  <1>7. PICK r \in PhoneState, st \in {"RINGING", "BUSY"} :
           /\ Keeps(s, r) /\ r.chan = s.chan
           /\ \A q \in L!Port :
                 /\ r.pvt[q].owner = s.pvt[q].owner /\ r.pvt[q].dtmfbuf = s.pvt[q].dtmfbuf
                 /\ \/ r.pvt[q].state = s.pvt[q].state
                    \/ r.pvt[q].state = "RINGING" /\ s.pvt[q].state = "ONHOOK"
           /\ L!Becomes([r EXCEPT !.chan[c].st = st])
    BY <1>6
  <1>8. Names(r)  BY <1>2, <1>7, NamesKept DEF KeepsNames
  <1>9. r.chan[c] \in ChanRec  BY <1>7 DEF PhoneState
  <1>10. PICK x : x = [r.chan[c] EXCEPT !.st = st]  OBVIOUS
  <1>11. st \in L!ChanState  BY <1>7 DEF L!ChanState
  <1>12. x \in ChanRec /\ x.port = r.chan[c].port /\ x.st = st
    BY <1>9, <1>10, <1>11, Zenon DEF ChanRec
  <1>13. PICK t : t = WithChan(r, c, x)  OBVIOUS
  <1>14. /\ Keeps(r, t) /\ t.spoiled = r.spoiled /\ t.pvt = r.pvt
         /\ \A b \in Chan : t.chan[b] = IF b = c THEN x ELSE r.chan[b]
    BY <1>7, <1>12, <1>13, PutChan
  <1>15. t = [r EXCEPT !.chan[c].st = st]
    BY <1>7, <1>10, <1>13 DEF WithChan, PhoneState
  <1>16. Keeps(s, t)  BY <1>7, <1>14, KeepsTrans
  <1>17. \A b \in Chan : t.chan[b].port = r.chan[b].port /\ (IsAlive(t, b) <=> IsAlive(r, b))
    BY <1>4, <1>7, <1>12, <1>14 DEF IsAlive
  <1>18. Names(t)  BY <1>8, <1>14, <1>17 DEF Names
  <1>19. ASSUME NEW q \in L!Port PROVE PortGood(t, q) /\ (AtDial(t, q) => AtDial(s, q))
    <2>1. PortGood(s, q)  BY <1>2 DEF Sound
    <2>2. s.spoiled[q] \subseteq t.spoiled[q] /\ t.keyed = s.keyed  BY <1>16 DEF Keeps
    <2>3. PortGood(t, q)  BY <1>7, <1>14, <2>1, <2>2 DEF PortGood
    <2> QED  BY <1>7, <1>14, <2>3 DEF AtDial
  <1>20. mon' = mon  BY DEF L!ast_lantiq_call, L!threads
  <1> QED  BY <1>1, <1>7, <1>15, <1>16, <1>18, <1>19, <1>20, OtherThread

LEMMA HangupStep ==
  ASSUME LineInv, NEW c \in Chan, L!Hangup(c)
  PROVE  LineInv'
  <1>1. PICK s : s = L!Now  OBVIOUS
  <1>2. Sound(s) /\ s \in PhoneState /\ Names(s)  BY <1>1 DEF LineInv, PhoneInv, Sound
  <1>3. IsAlive(s, c)  BY <1>1, NowFields DEF L!Hangup, L!Live, IsAlive
  <1>4. PICK p \in L!Port : p = s.chan[c].port  BY <1>2, <1>3 DEF Names
  <1>5. PICK after \in {"FREE", "GONE"} : after = "FREE"  OBVIOUS
  <1>6. PICK t : t = L!ast_lantiq_hangup(s, c, after)  OBVIOUS
  <1>7. L!Becomes(t) /\ mon' = mon  BY <1>1, <1>5, <1>6 DEF L!Hangup, L!threads
  <1>8. Names(t)  BY <1>2, <1>3, <1>6, HangupNames
  <1>9. /\ Keeps(s, t)
        /\ \A q \in L!Port :
              /\ t.pvt[q].dtmfbuf = s.pvt[q].dtmfbuf
              /\ q # p => t.pvt[q].state = s.pvt[q].state
        /\ t.pvt[p].state \in {"ONHOOK", "CALL_ENDED"}
        /\ AtDial(s, p) => "refused" \in t.spoiled[p]
    BY <1>2, <1>4, <1>6, HangupOK
  <1>10. ASSUME NEW q \in L!Port PROVE PortGood(t, q) /\ (AtDial(t, q) => AtDial(s, q))
    <2>1. PortGood(s, q)  BY <1>2 DEF Sound
    <2>2. CASE q = p
      <3>1. s.spoiled[p] \subseteq t.spoiled[p]  BY <1>9 DEF Keeps
      <3> QED  BY <1>9, <2>1, <2>2, <3>1 DEF PortGood, AtDial
    <2>3. CASE q # p
      <3>1. PortGood(t, q)  BY <1>9, <2>1, <2>3, GoodKept
      <3> QED  BY <1>9, <2>3, <3>1 DEF AtDial
    <2> QED  BY <2>2, <2>3
  <1> QED  BY <1>1, <1>7, <1>8, <1>9, <1>10, OtherThread

LEMMA UnloadStep ==
  ASSUME LineInv, L!Unload
  PROVE  LineInv'
  <1>1. CASE L!SoftHangup
    <2>1. chan \in [Chan -> ChanRec]  BY NowFields DEF LineInv, PhoneInv, Sound, PhoneState
    <2>2. UNCHANGED <<pvt, line, timer, keyed, spoiled, mon>>  BY <1>1 DEF L!SoftHangup
    <2>3. PICK owned : owned = [c \in Chan |-> \E p \in L!Port : pvt[p].owner = c]  OBVIOUS
    <2>4. chan' = [c \in Chan |-> IF owned[c]
                                  THEN [chan[c] EXCEPT !.frames = @ \cup {"HANGUP"}]
                                  ELSE chan[c]]
      BY <1>1, <2>3 DEF L!SoftHangup
    <2>5. ASSUME NEW c \in Chan
          PROVE  /\ chan'[c] \in ChanRec /\ chan'[c].port = chan[c].port
                 /\ chan'[c].st = chan[c].st
      <3>1. chan[c] \in ChanRec  BY <2>1
      <3>2. PICK fs \in SUBSET {"ANSWER", "HANGUP"} : fs = chan[c].frames \cup {"HANGUP"}
        BY <3>1 DEF ChanRec
      <3>3. PICK x : x = [chan[c] EXCEPT !.frames = fs]  OBVIOUS
      <3>4. x \in ChanRec /\ x.port = chan[c].port /\ x.st = chan[c].st
        BY <3>1, <3>3, Zenon DEF ChanRec
      <3>5. chan'[c] = x \/ chan'[c] = chan[c]  BY <2>4, <3>2, <3>3
      <3> QED  BY <3>1, <3>4, <3>5
    <2>6. chan' \in [Chan -> ChanRec]
      <3>1. chan' = [c \in Chan |-> chan'[c]]  BY <2>4
      <3> QED  BY <2>5, <3>1
    <2>7. \A c \in Chan : chan'[c].port = chan[c].port /\ (L!Live(c)' <=> L!Live(c))
      BY <2>5 DEF L!Live
    <2> QED  BY <2>2, <2>6, <2>7, ChannelsOnly
  <1>2. CASE L!Unregister \/ L!KillMonitor \/ L!JoinMonitor
    <2>1. UNCHANGED <<L!port, mon>>
      BY <1>2 DEF L!Unregister, L!KillMonitor, L!JoinMonitor
    <2>2. L!Now' = L!Now  BY <2>1 DEF L!port, L!Now
    <2> QED  BY <2>1, <2>2 DEF LineInv
  <1> QED  BY <1>1, <1>2 DEF L!Unload

LEMMA LineInvInit ==
  ASSUME L!Init
  PROVE  LineInv
  <1>1. PICK off \in SUBSET L!Port :
           /\ pvt = [p \in L!Port |-> [state |-> IF p \in off THEN "OFFHOOK" ELSE "ONHOOK",
                                       owner |-> None, dial_timer |-> FALSE, dtmfbuf |-> <<>>]]
           /\ line = [p \in L!Port |-> [hook |-> IF p \in off THEN "off" ELSE "on",
                                        bell |-> FALSE, events |-> <<>>]]
           /\ timer = [p \in L!Port |-> [own |-> FALSE, orphans |-> 0, callback |-> "no"]]
           /\ chan = [c \in Chan |-> L!Free]
           /\ mon = [pc |-> "loop", i |-> 0, event |-> None]
           /\ keyed = [p \in L!Port |-> <<>>] /\ spoiled = [p \in L!Port |-> {}]
    BY DEF L!Init
  <1>2. <<>> \in Seq(Digit) /\ <<>> \in Seq(L!Event)  OBVIOUS
  <1>3. PICK s : s = L!Now  OBVIOUS
  <1>4. /\ s.pvt = pvt /\ s.line = line /\ s.chan = chan
        /\ s.keyed = keyed /\ s.spoiled = spoiled
    BY <1>3, NowFields
  <1>5. s \in PhoneState
    <2>1. pvt \in [L!Port -> PvtRec]  BY <1>1, <1>2 DEF PvtRec, L!State
    <2>2. line \in [L!Port -> LineRec]  BY <1>1, <1>2 DEF LineRec
    <2>3. timer \in [L!Port -> TimerRec]  BY <1>1 DEF TimerRec
    <2>4. chan \in [Chan -> ChanRec]  BY <1>1 DEF ChanRec, L!Free, L!ChanState
    <2>5. keyed \in [L!Port -> Seq(Digit)]  BY <1>1, <1>2
    <2>6. spoiled \in [L!Port -> SUBSET L!Reason]  BY <1>1
    <2> QED  BY <1>3, <2>1, <2>2, <2>3, <2>4, <2>5, <2>6 DEF L!Now, PhoneState
  <1>6. \A c \in Chan : ~ IsAlive(s, c)  BY <1>1, <1>4 DEF IsAlive, L!Free
  <1>7. \A p \in L!Port : s.pvt[p].owner \notin Chan  BY <1>1, <1>4, LineAssumption
  <1>8. Names(s)  BY <1>6, <1>7 DEF Names
  <1>9. ASSUME NEW q \in L!Port PROVE PortGood(s, q)
    <2>1. s.keyed[q] = <<>> /\ s.pvt[q].dtmfbuf = <<>>  BY <1>1, <1>4
    <2> QED  BY <2>1 DEF PortGood
  <1>10. MonitorOK(mon)
    BY <1>1, LineAssumption DEF MonitorOK, MonitorType
  <1>11. ASSUME NEW q \in L!Port PROVE Tracked(s, mon, q)
    <2>1. PICK h \in {"on", "off"} : h = IF q \in off THEN "off" ELSE "on"  OBVIOUS
    <2>2. s.line[q].hook = h /\ s.line[q].events = <<>>  BY <1>1, <1>4, <2>1
    <2>3. Shows(h, <<>>, h)  BY ShowsNothing
    <2>4. ~ Handles(mon, q)  BY <1>1 DEF Handles
    <2>5. AtDial(s, q) => h = "off"  BY <1>1, <1>4, <2>1 DEF AtDial
    <2> QED  BY <2>2, <2>3, <2>4, <2>5 DEF Tracked, Ahead
  <1> QED  BY <1>3, <1>5, <1>8, <1>9, <1>10, <1>11 DEF LineInv, PhoneInv, Sound

LEMMA LineInvNext ==
  ASSUME LineInv, L!Next
  PROVE  LineInv'
  <1>1. ASSUME NEW p \in L!Port, L!Handset(p) PROVE LineInv'  BY <1>1, HandsetMoves
  <1>2. ASSUME NEW p \in L!Port, L!Scheduler(p) PROVE LineInv'
    BY <1>2, ExpireStep, TimeoutBegins, TimeoutDialsStep DEF L!Scheduler
  <1>3. CASE L!Monitor
    BY <1>3, MonitorGoesOn, OnHookStep, OffHookStep, DigitStep, HashStep DEF L!Monitor
  <1>4. CASE L!OffHookFails  BY <1>4, OffHookFailsStep
  <1>5. ASSUME NEW c \in Chan, L!Asterisk(c) PROVE LineInv'
    <2>1. CASE L!RequesterRefuses(c)
      <3>1. UNCHANGED <<L!port, mon>>  BY <2>1 DEF L!RequesterRefuses
      <3>2. L!Now' = L!Now  BY <3>1 DEF L!port, L!Now
      <3> QED  BY <3>1, <3>2 DEF LineInv
    <2> QED
      BY <1>5, <2>1, RequesterStep, CallStep, AnswerStep, HangupStep DEF L!Asterisk
  <1>6. CASE L!Unload  BY <1>6, UnloadStep
  <1> QED  BY <1>1, <1>2, <1>3, <1>4, <1>5, <1>6 DEF L!Next

(* chan_lantiq.c keeps the invariant, whatever the handsets, Asterisk, the  *)
(* scheduler, the device and the SMS server beside it do.                   *)
THEOREM LineInvariant == PhonesSpec => []LineInv
  <1>1. PhonesInit => LineInv  BY LineInvInit DEF PhonesInit
  <1>2. LineInv /\ [PhonesNext]_phones => LineInv'
    <2> SUFFICES ASSUME LineInv, [PhonesNext]_phones PROVE LineInv'  OBVIOUS
    <2>1. CASE L!Next  BY <2>1, LineInvNext
    <2>2. CASE UNCHANGED driver
      <3>1. UNCHANGED <<pvt, line, timer, chan, keyed, spoiled, mon>>  BY <2>2 DEF driver
      <3>2. L!Now' = L!Now  BY <3>1 DEF L!Now
      <3> QED  BY <3>1, <3>2 DEF LineInv
    <2> QED
      BY <2>1, <2>2 DEF PhonesNext, Driver, Spool, Receive, Dialogue, Device, Splits, phones
  <1> QED  BY <1>1, <1>2, PTL DEF PhonesSpec

(* chan_lantiq.c: the owner of a port is a channel that exists and belongs  *)
(* to the port, and, unless a channel was displaced, every channel of the   *)
(* port is its owner.                                                       *)
THEOREM OwnersMatch == PhonesSpec => []OwnerMatches
  BY LineInvariant, LineInvMatches, PTL

(* chan_lantiq.c: the number in dtmfbuf is the one keyed since the handset  *)
(* was lifted, and no number is left there when nobody dials.               *)
THEOREM DialsKeyed == PhonesSpec => []DialsWhatWasKeyed
  BY LineInvariant, LineInvMatches, PTL

-----------------------------------------------------------------------------
(* The types of all parts.  The locks of the driver and its monitor have    *)
(* theirs apart; those of the other parts follow from their invariants.     *)
LocksTyped ==
    /\ iflock \in Chan \cup {None}
    /\ monlock \in {"monitor", "unload", None}
    /\ monitor \in BOOLEAN
    /\ unload \in {"no", "hangup", "lock", "kill", "done"}

LEMMA LocksStep == LocksTyped /\ [PhonesNext]_phones => LocksTyped'
  <1> SUFFICES ASSUME LocksTyped, [PhonesNext]_phones PROVE LocksTyped'
    OBVIOUS
  <1>1. CASE UNCHANGED <<iflock, monlock, monitor, unload>>
    BY <1>1 DEF LocksTyped
  <1>2. CASE L!Monitor \/ L!OffHookFails
    <2>1. CASE UNCHANGED <<iflock, monlock, monitor, unload>>
      BY <1>1, <2>1
    <2>2. CASE L!MonitorLock \/ L!Poll \/ L!EventsDone
      BY <2>2 DEF L!MonitorLock, L!Poll, L!EventsDone, LocksTyped
    <2>3. CASE L!MonitorLoop \/ L!GetEvent
      BY <2>1, <2>3 DEF L!MonitorLoop, L!GetEvent
    <2>4. ASSUME NEW e, L!Handling(e) PROVE LocksTyped'
      BY <2>1, <2>4 DEF L!Handling
    <2>5. CASE L!OnHook \/ L!OffHook \/ L!OffHookFails
      BY <2>4, <2>5 DEF L!OnHook, L!OffHook, L!OffHookFails
    <2>6. ASSUME NEW d \in Digit, L!DigitEvent(d) PROVE LocksTyped'
      BY <2>4, <2>6 DEF L!DigitEvent
    <2>7. ASSUME NEW c \in Chan, NEW b \in BOOLEAN, L!HashEvent(c, b) PROVE LocksTyped'
      BY <2>4, <2>7 DEF L!HashEvent
    <2> QED
      BY <1>2, <2>2, <2>3, <2>5, <2>6, <2>7 DEF L!Monitor
  <1>3. ASSUME NEW p \in L!Port, L!Handset(p) \/ L!Scheduler(p) PROVE LocksTyped'
    <2>1. UNCHANGED L!threads
      BY <1>3 DEF L!Handset, L!Lift, L!PutDown, L!Key, L!Scheduler, L!Expire,
                  L!lantiq_event_dial_timeout, L!TimeoutDials
    <2> QED
      BY <1>1, <2>1 DEF L!threads
  <1>4. ASSUME NEW c \in Chan, L!Asterisk(c) PROVE LocksTyped'
    <2>1. CASE L!RequesterRefuses(c)
      BY <2>1 DEF L!RequesterRefuses, LocksTyped
    <2>2. UNCHANGED L!threads \/ L!RequesterRefuses(c)
      BY <1>4 DEF L!Asterisk, L!ast_lantiq_requester, L!ast_lantiq_call, L!ReadAnswer,
                  L!Answered, L!Hangup
    <2> QED
      BY <1>1, <2>1, <2>2 DEF L!threads
  <1>5. CASE L!Unload
    BY <1>5 DEF L!Unload, L!Unregister, L!SoftHangup, L!KillMonitor, L!JoinMonitor, LocksTyped
  <1>6. L!Next \/ UNCHANGED driver
    BY DEF PhonesNext, Driver, Spool, Receive, Dialogue, Device, Splits, phones
  <1> QED
    BY <1>1, <1>2, <1>3, <1>4, <1>5, <1>6 DEF L!Next, driver

LEMMA LineTypes == LineInv /\ LocksTyped => L!TypeOK
  <1> SUFFICES ASSUME LineInv, LocksTyped PROVE L!TypeOK
    OBVIOUS
  <1>1. L!Now \in PhoneState /\ mon \in MonitorType
    BY DEF LineInv, PhoneInv, Sound, MonitorOK
  <1>2. /\ pvt \in [L!Port -> PvtRec] /\ line \in [L!Port -> LineRec]
        /\ timer \in [L!Port -> TimerRec] /\ chan \in [Chan -> ChanRec]
        /\ keyed \in [L!Port -> Seq(Digit)] /\ spoiled \in [L!Port -> SUBSET L!Reason]
    <2>1. PICK s : s = L!Now
      OBVIOUS
    <2>2. /\ s.pvt = pvt /\ s.line = line /\ s.timer = timer /\ s.chan = chan
          /\ s.keyed = keyed /\ s.spoiled = spoiled
      BY <2>1 DEF L!Now
    <2>3. /\ s.pvt \in [L!Port -> PvtRec] /\ s.line \in [L!Port -> LineRec]
          /\ s.timer \in [L!Port -> TimerRec] /\ s.chan \in [Chan -> ChanRec]
          /\ s.keyed \in [L!Port -> Seq(Digit)] /\ s.spoiled \in [L!Port -> SUBSET L!Reason]
      BY <1>1, <2>1 DEF PhoneState
    <2> QED
      BY <2>2, <2>3
  <1> QED
    BY <1>1, <1>2, Zenon DEF L!TypeOK, LocksTyped, PvtRec, LineRec, TimerRec, ChanRec, MonitorType

LEMMA ReceiveTypes == ReceiveInv => R!TypeOK
  <1> SUFFICES ASSUME ReceiveInv PROVE R!TypeOK
    OBVIOUS
  <1>1. ReceiveType
    BY DEF ReceiveInv
  <1>2. dev \in [pc : {"idle", "read", "receive", "combine", "unlinked", "save", "delete"},
                 place : 0 .. MEMORY + 1, used : 0 .. MEMORY, part : R!Part \cup {None},
                 combined : Seq(R!Part), rest : Seq(R!Part)]
    <2>1. dev \in DevState /\ dev.place \in 0 .. MEMORY /\ dev.used \in 0 .. MEMORY
      BY <1>1 DEF ReceiveType, DevOK
    <2>2. dev.place \in 0 .. MEMORY + 1
      BY <2>1, ReceiveAssumption
    <2> QED
      BY <2>1, <2>2, Zenon DEF DevState
  <1> QED
    BY <1>1, <1>2 DEF ReceiveType, R!TypeOK

LEMMA ModemTypes == ModemType /\ PinInv => M!TypeOK
  <1> SUFFICES ASSUME ModemType, PinInv PROVE M!TypeOK
    OBVIOUS
  <1>1. mdev \in [on : BOOLEAN, locks : BOOLEAN, sim : {"READY", "PIN", "PUK"}, left : 0 .. 3,
                  net : {"registered", "denied", "no"}, mode : {"pdu", "text"}]
    <2>1. mdev \in ModemState /\ mdev.left \in 0 .. 3
      BY DEF ModemType, SimOK
    <2> QED
      BY <2>1, Zenon DEF ModemState
  <1>2. mprog \in [pc : {"idle", "AT", "SUB", "REOPEN", "CPIN?", "CPIN=", "CPIN again", "INIT",
                         "CREG", "CMGF", "CSCA", "DETAILS", "READ", "CMGS", "PDU", "sleep",
                         "ended"},
                   for : {"send", "receive", "retry", "look"}, try : 0 .. TRIES + WAIT,
                   denied : 0 .. WAIT, retries : 0 .. 2]
    <2>1. /\ mprog \in ProgState /\ mprog.try \in 0 .. TRIES + WAIT
          /\ mprog.denied \in 0 .. WAIT /\ mprog.retries \in 0 .. 2
      BY DEF ModemType, ProgOK
    <2> QED
      BY <2>1, Zenon DEF ProgState, ProgPc
  <1>3. config \in [pin : Pins \cup {"ignore"}, check_network : 0 .. 2, registered : BOOLEAN]
    <2>1. /\ config \in [pin : Pins \cup {"ignore"}, check_network : Int, registered : BOOLEAN]
          /\ config.check_network \in 0 .. 2
      BY DEF ModemType, ConfigOK
    <2> QED
      BY <2>1, Zenon
  <1>4. wrong \in Nat
    <2>1. \A n \in {0, 1} : n \in Nat
      OBVIOUS
    <2> QED
      BY <2>1 DEF PinInv
  <1> QED
    BY <1>1, <1>2, <1>3, <1>4, Zenon DEF M!TypeOK, ModemType

(* Every part's variables have their types, whatever the other parts do.    *)
THEOREM PhonesTyped ==
  ASSUME RETRIES \in Nat, Distinct
  PROVE  PhonesSpec => []PhonesTypeOK
  <1> DEFINE Types == /\ LocksTyped /\ IInv /\ ReceiveInv /\ ModemType /\ PinInv
                      /\ DeviceInv /\ SplitInv
  <1>1. PhonesInit => Types
    <2> SUFFICES ASSUME PhonesInit PROVE Types
      OBVIOUS
    <2>1. LocksTyped
      BY DEF PhonesInit, L!Init, LocksTyped
    <2>2. IInv
      BY InitIInv DEF PhonesInit
    <2>3. ReceiveInv /\ ModemType /\ DeviceInv /\ SplitInv
      BY ReceiveInitially, ModemTypeInit, DeviceInitially, SplitInitially DEF PhonesInit
    <2>4. PinInv
      BY DEF PhonesInit, M!Init, PinInv
    <2> QED
      BY <2>1, <2>2, <2>3, <2>4
  <1>2. Types /\ [PhonesNext]_phones => Types'
    <2> SUFFICES ASSUME Types, [PhonesNext]_phones PROVE Types'
      OBVIOUS
    <2>1. LocksTyped'
      BY LocksStep
    <2>2. IInv'
      <3>1. [Next]_vars
        BY DEF PhonesNext, phones, Driver, Spool, Receive, Dialogue, Device, Splits
      <3> QED
        BY <3>1, NextIInv
    <2>3. ReceiveInv' /\ ModemType' /\ PinInv' /\ DeviceInv' /\ SplitInv'
      BY OthersLeaveReceive, ReceiveStep, OthersLeaveModem, ModemTypeStep, PinStep,
         OthersLeaveDevice, DeviceStep, OthersLeaveSplit, SplitStep
    <2> QED
      BY <2>1, <2>2, <2>3
  <1>3. Types /\ LineInv => PhonesTypeOK
    BY LineTypes, ReceiveTypes, ModemTypes, SplitTypes DEF PhonesTypeOK, DeviceInv, IInv
  <1> QED
    BY <1>1, <1>2, <1>3, LineInvariant, PTL DEF PhonesSpec
=============================================================================
