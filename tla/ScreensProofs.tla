---------------------------- MODULE ScreensProofs ----------------------------
(***************************************************************************)
(* Theorems about the screens.  What the rows of the settings table mean   *)
(* to a program that starts again: PinLock's promises for every set of     *)
(* PINs and of commands on their way, Launch's for every set of releases,  *)
(* news and hosts.  Commands, for all panes, tabs, snippets and jobs: its  *)
(* types, and that what the history holds was run.  And the types of the   *)
(* four side by side.                                                      *)
(***************************************************************************)
EXTENDS MCScreens, InventoryProofs, WellFoundedInduction

----------------------------------------------------------------------------
(* PinLock: the invariant *)

Lengths == 0..12
Ops == {"none", "hydrate", "settings", "has", "len", "verify"} \cup PinOps
CallRecord == [st : {"free", "asked", "checked", "ok", "failed"},
               op : Ops,
               cur : PINS \cup {NoPin}, new : PINS \cup {NoPin}, n : Lengths,
               res : BOOLEAN, stale : BOOLEAN, late : BOOLEAN]

(* The types of what the promises are about. *)
PinShape ==
    /\ hash \in PINS \cup {NoPin} /\ savedLen \in Lengths /\ pinLen \in Lengths
    /\ locked \in BOOLEAN /\ locking \in Nat
    /\ call \in [CALLS -> CallRecord]
    /\ pad \in [pin : PINS \cup {NoPin}, n : Lengths,
                status : {"idle", "verifying", "error"}, timers : Nat]
    /\ dialog \in [kind : {"none"} \cup PinOps, busy : BOOLEAN]

Calm == slips \subseteq {"timer", "late", "unread"}
Replacing == \E q \in CALLS : call[q].op \in PinOps /\ call[q].st = "ok"
Fits(n) == n = 0 \/ n >= Digits(hash)

(* What a command can be doing. *)
CallsNamed == \A q \in CALLS :
    /\ call[q].st \in {"checked", "failed"} => call[q].op \in PinOps
    /\ call[q].op \in {"set", "change"} => call[q].new \in PINS
    /\ call[q].st = "free" => call[q].op = "none"

(* An answer no later write has outdated still says what the table holds. *)
AnswersTrue == \A q \in CALLS : call[q].st = "ok" /\ ~call[q].stale =>
    /\ call[q].op = "hydrate" => call[q].res = (hash # NoPin)
    /\ call[q].op \in PinOps => call[q].new = hash
    /\ call[q].op = "verify" /\ call[q].res => call[q].n = Digits(hash)

(* hydrate() finds no PIN where there is one only after that one was chosen. *)
OpenWhenTold == \A q \in CALLS :
    call[q].op = "hydrate" /\ call[q].st = "ok" /\ ~call[q].res /\ hash # NoPin =>
        opened \/ locked \/ "unread" \in slips

(* Nothing locks a program without a PIN. *)
LockedHasPin == Calm /\ (locked \/ locking > 0) => hash # NoPin

(* The length that is read at the start and the one a dialog sends do not meet. *)
LengthsApart == Calm => ~(Busy("len") /\ Busy("settings"))

(* No remembered length, wherever it is, is shorter than the PIN. *)
LengthsFit == Calm /\ ~Replacing =>
    /\ Fits(pinLen)
    /\ Fits(savedLen) \/ Busy("len")
    /\ \A q \in CALLS : \/ call[q].op = "len"
                        \/ call[q].op = "settings" /\ call[q].st = "ok"
                        => Fits(call[q].n)

(* One verification at a time, and the screen is waiting for it. *)
OneAttempt == slips \cap {"timer", "late"} = {} =>
    \A q \in CALLS : call[q].op = "verify" =>
        /\ locked /\ pad.status = "verifying" /\ ~call[q].late
        /\ \A r \in CALLS : call[r].op = "verify" => r = q

PinInv ==
    /\ PinShape /\ CallsNamed /\ AnswersTrue /\ StartsLocked /\ OpenWhenTold
    /\ LockedHasPin
    /\ LengthsApart /\ LengthsFit /\ OneAttempt

----------------------------------------------------------------------------
(* PinLock: the operators *)

(* A PIN has 4 to 12 digits, no PIN has none. *)
LEMMA DigitsCount ==
    /\ \A p \in PINS : PinLen(p) \in 4..12 /\ Digits(p) = PinLen(p) /\ p # NoPin
    /\ Digits(NoPin) = 0
    /\ \A p \in PINS \cup {NoPin} : Digits(p) \in Lengths
BY PinAssumption DEF Digits, Lengths

(* OneOf picks from its set. *)
LEMMA OneOfPicks == ASSUME NEW s, NEW x \in OneOf(s) PROVE x \in s
BY DEF OneOf

(* A free slot belongs to no command. *)
LEMMA NoCallFree ==
    /\ NoCall \in CallRecord /\ NoCall.st = "free" /\ NoCall.op = "none"
    /\ NoCall.n = 0 /\ ~NoCall.late /\ ~NoCall.stale
BY DEF NoCall, CallRecord, Ops, Lengths

(* A command is asked with its arguments, and is neither late nor stale. *)
LEMMA CommandAsked ==
    ASSUME NEW op \in Ops,
           NEW cur \in PINS \cup {NoPin}, NEW new \in PINS \cup {NoPin}, NEW n \in Lengths
    PROVE  /\ Command(op, cur, new, n) \in CallRecord
           /\ Command(op, cur, new, n).st = "asked" /\ Command(op, cur, new, n).op = op
           /\ Command(op, cur, new, n).new = new /\ Command(op, cur, new, n).n = n
           /\ ~Command(op, cur, new, n).late /\ ~Command(op, cur, new, n).stale
<1> DEFINE b == NoCall
<1>1. b \in CallRecord /\ ~b.late /\ ~b.stale
  BY NoCallFree
<1> HIDE DEF b
<1> DEFINE c == [b EXCEPT !.st = "asked", !.op = op, !.cur = cur, !.new = new, !.n = n]
<1>2. /\ c \in CallRecord /\ c.st = "asked" /\ c.op = op /\ c.new = new /\ c.n = n
      /\ ~c.late /\ ~c.stale
  BY <1>1 DEF CallRecord
<1> QED
  BY <1>2 DEF Command, b

(* Such as the length of a PIN. *)
LEMMA LengthSent ==
    ASSUME NEW n \in Lengths
    PROVE  LET c == Command("len", NoPin, NoPin, n) IN
           c \in CallRecord /\ c.op = "len" /\ c.st = "asked" /\ c.n = n
<1>1. NoPin \in PINS \cup {NoPin} /\ "len" \in Ops
  BY DEF Ops
<1>2. \A op \in Ops : LET c == Command(op, NoPin, NoPin, n) IN
         c \in CallRecord /\ c.op = op /\ c.st = "asked" /\ c.n = n
  BY <1>1, CommandAsked
<1> QED
  BY <1>1, <1>2

(* A free call is one of the calls, and free. *)
LEMMA FreeCallFree == ASSUME NEW q \in FreeCall PROVE q \in CALLS /\ call[q].st = "free"
BY OneOfPicks DEF FreeCall

(* A start asks for the settings and for the PIN, in two calls. *)
LEMMA BootedCalls ==
    ASSUME NEW calls, Booted(calls)
    PROVE  /\ calls \in [CALLS -> CallRecord]
           /\ \E a1 \in CALLS, a2 \in CALLS :
                 /\ a1 # a2 /\ calls[a1].op = "hydrate" /\ calls[a2].op = "settings"
                 /\ calls[a1].st = "asked" /\ calls[a2].st = "asked"
                 /\ calls[a1].n = 0 /\ calls[a2].n = 0
                 /\ \A q \in CALLS \ {a1, a2} : calls[q] = NoCall
<1>1. PICK a1 \in OneOf(CALLS) : \E a2 \in OneOf(CALLS \ {a1}) :
         calls = [q \in CALLS |-> IF q = a1 THEN Command("hydrate", NoPin, NoPin, 0)
                                     ELSE IF q = a2 THEN Command("settings", NoPin, NoPin, 0)
                                     ELSE NoCall]
  BY DEF Booted
<1>2. PICK a2 \in OneOf(CALLS \ {a1}) :
         calls = [q \in CALLS |-> IF q = a1 THEN Command("hydrate", NoPin, NoPin, 0)
                                     ELSE IF q = a2 THEN Command("settings", NoPin, NoPin, 0)
                                     ELSE NoCall]
  BY <1>1
<1>3. a1 \in CALLS /\ a2 \in CALLS /\ a1 # a2
  BY OneOfPicks
<1> DEFINE h == Command("hydrate", NoPin, NoPin, 0)
           s == Command("settings", NoPin, NoPin, 0)
<1>4. /\ h \in CallRecord /\ h.op = "hydrate" /\ h.st = "asked" /\ h.n = 0
      /\ s \in CallRecord /\ s.op = "settings" /\ s.st = "asked" /\ s.n = 0
  <2>1. NoPin \in PINS \cup {NoPin} /\ 0 \in Lengths /\ "hydrate" \in Ops /\ "settings" \in Ops
    BY DEF Lengths, Ops
  <2>2. \A op \in Ops : LET c == Command(op, NoPin, NoPin, 0) IN
           c \in CallRecord /\ c.op = op /\ c.st = "asked" /\ c.n = 0
    BY <2>1, CommandAsked
  <2> HIDE DEF h, s
  <2>3. h \in CallRecord /\ h.op = "hydrate" /\ h.st = "asked" /\ h.n = 0
    BY <2>1, <2>2 DEF h
  <2>4. s \in CallRecord /\ s.op = "settings" /\ s.st = "asked" /\ s.n = 0
    BY <2>1, <2>2 DEF s
  <2> QED
    BY <2>3, <2>4
<1>5. calls = [q \in CALLS |-> IF q = a1 THEN h ELSE IF q = a2 THEN s ELSE NoCall]
  BY <1>2
<1> HIDE DEF h, s
<1> QED
  BY <1>3, <1>4, <1>5, NoCallFree

(* The invariant after a start, whatever the two rows hold. *)
LEMMA BootedInv ==
    /\ Booted(call) /\ hash \in PINS \cup {NoPin} /\ savedLen \in Lengths
    /\ pinLen = 0 /\ locked = FALSE /\ locking = 0 /\ pad = FreshPad
    /\ dialog = NoPinDialog /\ (Calm => Fits(savedLen))
    => PinInv
<1> SUFFICES ASSUME Booted(call), hash \in PINS \cup {NoPin}, savedLen \in Lengths,
                    pinLen = 0, locked = FALSE, locking = 0, pad = FreshPad,
                    dialog = NoPinDialog, Calm => Fits(savedLen)
             PROVE  PinInv
  OBVIOUS
<1>1. call \in [CALLS -> CallRecord]
  BY BootedCalls
<1>2. PICK a1 \in CALLS, a2 \in CALLS :
         /\ a1 # a2 /\ call[a1].op = "hydrate" /\ call[a2].op = "settings"
         /\ call[a1].st = "asked" /\ call[a2].st = "asked"
         /\ \A q \in CALLS \ {a1, a2} : call[q] = NoCall
  BY BootedCalls
<1>3. \A q \in CALLS : \/ call[q].op = "hydrate" /\ call[q].st = "asked"
                       \/ call[q].op = "settings" /\ call[q].st = "asked"
                       \/ call[q].op = "none" /\ call[q].st = "free"
  BY <1>2, NoCallFree
<1>4. PinShape
  <2>1. FreshPad \in [pin : PINS \cup {NoPin}, n : Lengths,
                      status : {"idle", "verifying", "error"}, timers : Nat]
    BY DEF FreshPad, Lengths
  <2>2. pinLen \in Lengths /\ dialog \in [kind : {"none"} \cup PinOps, busy : BOOLEAN]
    BY DEF Lengths, NoPinDialog
  <2> QED
    BY <1>1, <2>1, <2>2 DEF PinShape
<1>5. CallsNamed /\ AnswersTrue /\ OneAttempt
  BY <1>3 DEF CallsNamed, AnswersTrue, OneAttempt, PinOps
<1>6. StartsLocked /\ OpenWhenTold
  <2>1. Busy("hydrate")
    BY <1>2 DEF Busy
  <2> QED
    BY <1>3, <2>1 DEF StartsLocked, OpenWhenTold
<1>7. LockedHasPin
  BY DEF LockedHasPin
<1>8. LengthsApart
  BY <1>3 DEF LengthsApart, Busy
<1>9. LengthsFit
  BY <1>3 DEF LengthsFit, Fits
<1> QED
  BY <1>4, <1>5, <1>6, <1>7, <1>8, <1>9 DEF PinInv

(* The invariant holds at first. *)
LEMMA PinInitInv == PinInit => PinInv
<1> SUFFICES ASSUME PinInit PROVE PinInv
  OBVIOUS
<1>1. savedLen \in Lengths /\ Fits(savedLen)
  BY DigitsCount DEF PinInit, Fits, Lengths
<1> QED
  BY <1>1, BootedInv DEF PinInit
----------------------------------------------------------------------------
(* PinLock: the steps *)

(* A command takes a free slot. *)
LEMMA AskedSomewhere ==
    ASSUME PinShape, NEW op \in Ops, NEW cur \in PINS \cup {NoPin},
           NEW new \in PINS \cup {NoPin}, NEW n \in Lengths, Ask_(Command(op, cur, new, n))
    PROVE  /\ call' \in [CALLS -> CallRecord]
           /\ \E q \in CALLS :
                 /\ call[q].st = "free"
                 /\ call'[q].st = "asked" /\ call'[q].op = op /\ call'[q].new = new
                 /\ call'[q].n = n /\ ~call'[q].late /\ ~call'[q].stale
                 /\ \A x \in CALLS \ {q} : call'[x] = call[x]
<1> DEFINE c == Command(op, cur, new, n)
<1>1. /\ c \in CallRecord /\ c.st = "asked" /\ c.op = op /\ c.new = new /\ c.n = n
      /\ ~c.late /\ ~c.stale
  BY CommandAsked
<1>2. PICK q \in FreeCall : call' = [call EXCEPT ![q] = c]
  BY DEF Ask_
<1> HIDE DEF c
<1>3. q \in CALLS /\ call[q].st = "free"
  BY FreeCallFree
<1> QED
  BY <1>1, <1>2, <1>3 DEF PinShape

(* A command is over and its slot free. *)
LEMMA CallFreed ==
    ASSUME PinShape, NEW q \in CALLS, call' = [call EXCEPT ![q] = NoCall]
    PROVE  /\ call' \in [CALLS -> CallRecord]
           /\ call'[q].st = "free" /\ call'[q].op = "none"
           /\ \A x \in CALLS \ {q} : call'[x] = call[x]
BY NoCallFree DEF PinShape

(* Opening and dismissing a dialog change nothing of it. *)
LEMMA DialogKeeps ==
    ASSUME PinInv, dialog' \in [kind : {"none"} \cup PinOps, busy : BOOLEAN],
           UNCHANGED <<hash, savedLen, locked, pinLen, call, pad, locking, opened, slips>>
    PROVE  PinInv'
BY DEF PinInv, PinShape, CallsNamed, AnswersTrue, StartsLocked, OpenWhenTold, LockedHasPin, LengthsApart,
       LengthsFit, OneAttempt, Calm, Replacing, Fits, Digits, Busy

(* A dialog's command is asked. *)
LEMMA SubmitPinKeeps == PinInv /\ SubmitPin => PinInv'
<1> SUFFICES ASSUME PinInv, SubmitPin PROVE PinInv'
  OBVIOUS
<1> DEFINE k == dialog.kind
<1>1. PinShape /\ k \in PinOps
  BY DEF PinInv, PinShape, SubmitPin
<1>2. PICK cur \in IF k = "set" THEN {NoPin} ELSE PINS,
           new \in IF k = "disable" THEN {NoPin} ELSE PINS :
              Ask_(Command(k, cur, new, 0))
  BY DEF SubmitPin
<1>3. /\ cur \in PINS \cup {NoPin} /\ new \in PINS \cup {NoPin}
      /\ k # "disable" => new \in PINS
  OBVIOUS
<1>u. /\ UNCHANGED <<hash, savedLen, locked, pinLen, pad, locking, opened, slips>>
      /\ dialog' \in [kind : {"none"} \cup PinOps, busy : BOOLEAN]
  BY <1>1 DEF SubmitPin, PinShape
<1> HIDE DEF k
<1>4. k \in Ops /\ 0 \in Lengths
  BY <1>1 DEF Ops, Lengths
<1>5. call' \in [CALLS -> CallRecord]
  BY <1>1, <1>2, <1>3, <1>4, AskedSomewhere
<1>6. PICK q \in CALLS :
         /\ call[q].st = "free"
         /\ call'[q].st = "asked" /\ call'[q].op = k /\ call'[q].new = new
         /\ call'[q].n = 0 /\ ~call'[q].late /\ ~call'[q].stale
         /\ \A x \in CALLS \ {q} : call'[x] = call[x]
  BY <1>1, <1>2, <1>3, <1>4, AskedSomewhere
<1>7. PinShape'
  BY <1>1, <1>5, <1>u DEF PinShape
<1>8. CallsNamed'
  BY <1>1, <1>3, <1>6 DEF PinInv, CallsNamed
<1>9. AnswersTrue'
  BY <1>6, <1>u DEF PinInv, AnswersTrue, Digits
<1>10. StartsLocked' /\ OpenWhenTold'
  BY <1>6, <1>u DEF PinInv, StartsLocked, OpenWhenTold, Busy
<1>11. LockedHasPin'
  BY <1>u DEF PinInv, LockedHasPin, Calm
<1>12. LengthsApart'
  BY <1>1, <1>6, <1>u DEF PinInv, LengthsApart, Calm, Busy, PinOps
<1>13. LengthsFit'
  BY <1>1, <1>6, <1>u DEF PinInv, LengthsFit, Calm, Busy, PinOps, Fits, Digits, Replacing
<1>14. OneAttempt'
  BY <1>1, <1>6, <1>u DEF PinInv, OneAttempt, PinOps
<1> QED
  BY <1>7, <1>8, <1>9, <1>10, <1>11, <1>12, <1>13, <1>14 DEF PinInv

(* SecuritySection asks whether there is a PIN. *)
LEMMA OpenSecurityKeeps == PinInv /\ OpenSecurity => PinInv'
<1> SUFFICES ASSUME PinInv, OpenSecurity PROVE PinInv'
  OBVIOUS
<1>1. PinShape
  BY DEF PinInv
<1>2. /\ "has" \in Ops /\ 0 \in Lengths /\ NoPin \in PINS \cup {NoPin}
      /\ Ask_(Command("has", NoPin, NoPin, 0))
  BY DEF Ops, Lengths, OpenSecurity
<1>u. UNCHANGED <<hash, savedLen, locked, pinLen, dialog, pad, locking, opened, slips>>
  BY DEF OpenSecurity
<1>3. call' \in [CALLS -> CallRecord]
  BY <1>1, <1>2, AskedSomewhere
<1>4. PICK q \in CALLS :
         /\ call[q].st = "free"
         /\ call'[q].st = "asked" /\ call'[q].op = "has" /\ ~call'[q].late /\ ~call'[q].stale
         /\ \A x \in CALLS \ {q} : call'[x] = call[x]
  <2>1. \E q \in CALLS :
         /\ call[q].st = "free"
         /\ call'[q].st = "asked" /\ call'[q].op = "has" /\ call'[q].new = NoPin
         /\ call'[q].n = 0 /\ ~call'[q].late /\ ~call'[q].stale
         /\ \A x \in CALLS \ {q} : call'[x] = call[x]
    BY <1>1, <1>2, AskedSomewhere
  <2> QED
    BY <2>1
<1>5. PinShape' /\ CallsNamed' /\ AnswersTrue'
  BY <1>1, <1>3, <1>4, <1>u DEF PinInv, PinShape, CallsNamed, AnswersTrue, Digits, PinOps
<1>6. StartsLocked' /\ OpenWhenTold'
  BY <1>4, <1>u DEF PinInv, StartsLocked, OpenWhenTold, Busy
<1>7. LockedHasPin'
  BY <1>u DEF PinInv, LockedHasPin, Calm
<1>8. LengthsApart'
  BY <1>4, <1>u DEF PinInv, LengthsApart, Calm, Busy
<1>9. LengthsFit'
  BY <1>4, <1>u DEF PinInv, LengthsFit, Calm, Busy, PinOps, Fits, Digits, Replacing
<1>10. OneAttempt'
  BY <1>4, <1>u DEF PinInv, OneAttempt
<1> QED
  BY <1>5, <1>6, <1>7, <1>8, <1>9, <1>10 DEF PinInv

(* A dialog's command has compared the PIN it was given. *)
LEMMA PinCheckKeeps == ASSUME PinInv, NEW q \in CALLS, PinCheck(q) PROVE PinInv'
<1> DEFINE s == IF hash = call[q].cur THEN "checked" ELSE "failed"
<1>1. PinShape /\ call[q] \in CallRecord /\ call[q].op \in PinOps /\ call[q].st = "asked"
  BY DEF PinInv, PinShape, PinCheck
<1>e. call' = [call EXCEPT ![q] = [call[q] EXCEPT !.st = s]]
  BY DEF PinCheck
<1>2. \A x \in CALLS \ {q} : call'[x] = call[x]
  BY <1>1, <1>e DEF PinShape
<1>3. /\ call'[q] \in CallRecord /\ call'[q].st \in {"checked", "failed"}
      /\ call'[q].op = call[q].op /\ call'[q].new = call[q].new /\ call'[q].late = call[q].late
  <2>1. call'[q] = [call[q] EXCEPT !.st = s]
    BY <1>1, <1>e DEF PinShape
  <2> QED
    BY <1>1, <2>1 DEF CallRecord
<1>f. call' \in [CALLS -> CallRecord]
  BY <1>1, <1>2, <1>3, <1>e DEF PinShape
<1> HIDE DEF s
<1>u. UNCHANGED <<hash, savedLen, locked, pinLen, dialog, pad, locking, opened, slips>>
  BY DEF PinCheck
<1>4. PinShape'
  BY <1>1, <1>f, <1>u DEF PinShape
<1>5. CallsNamed'
  BY <1>1, <1>2, <1>3 DEF PinInv, CallsNamed
<1>6. AnswersTrue'
  BY <1>2, <1>3, <1>u DEF PinInv, AnswersTrue, Digits
<1>7. StartsLocked' /\ OpenWhenTold'
  BY <1>1, <1>2, <1>3, <1>u DEF PinInv, StartsLocked, OpenWhenTold, Busy, PinOps
<1>8. LockedHasPin'
  BY <1>u DEF PinInv, LockedHasPin, Calm
<1>9. LengthsApart'
  BY <1>1, <1>2, <1>3, <1>u DEF PinInv, LengthsApart, Calm, Busy, PinOps
<1>10. LengthsFit'
  BY <1>1, <1>2, <1>3, <1>u DEF PinInv, LengthsFit, Calm, Busy, PinOps, Fits, Digits, Replacing
<1>11. OneAttempt'
  BY <1>1, <1>2, <1>3, <1>u DEF PinInv, OneAttempt, PinOps
<1> QED
  BY <1>4, <1>5, <1>6, <1>7, <1>8, <1>9, <1>10, <1>11 DEF PinInv

(* A dialog's command writes the hash: the other answers are outdated. *)
LEMMA PinWriteKeeps == ASSUME PinInv, NEW q \in CALLS, PinWrite(q) PROVE PinInv'
<1>1. PinShape /\ call[q] \in CallRecord /\ call[q].st = "checked" /\ call[q].op \in PinOps
  BY DEF PinInv, PinShape, PinWrite, CallsNamed
<1>2. /\ call'[q] = [call[q] EXCEPT !.st = "ok"]
      /\ \A x \in CALLS \ {q} :
            call'[x] = [call[x] EXCEPT !.stale = @ \/ call[x].st = "ok"]
  BY <1>1 DEF PinWrite, PinShape
<1>3. /\ call'[q] \in CallRecord /\ call'[q].st = "ok"
      /\ call'[q].op = call[q].op /\ call'[q].new = call[q].new /\ call'[q].late = call[q].late
      /\ call'[q].n = call[q].n
  BY <1>1, <1>2 DEF CallRecord
<1>4. ASSUME NEW x \in CALLS, x # q
      PROVE  /\ call'[x] \in CallRecord /\ call'[x].st = call[x].st
             /\ call'[x].op = call[x].op /\ call'[x].new = call[x].new
             /\ call'[x].late = call[x].late /\ call'[x].n = call[x].n
             /\ call'[x].res = call[x].res
             /\ call[x].st = "ok" => call'[x].stale
  <2> DEFINE t == call[x].stale \/ call[x].st = "ok"
  <2>1. call[x] \in CallRecord /\ t \in BOOLEAN
    BY <1>1 DEF PinShape
  <2>2. call'[x] = [call[x] EXCEPT !.stale = t]
    BY <1>2, <1>4
  <2>3. call[x].st = "ok" => t
    OBVIOUS
  <2> HIDE DEF t
  <2> QED
    BY <2>1, <2>2, <2>3 DEF CallRecord
<1>u. /\ UNCHANGED <<savedLen, locked, pinLen, dialog, pad, locking>>
      /\ hash' = call[q].new /\ opened' = (opened \/ hash = NoPin)
      /\ slips' = IF call[q].op = "disable" /\ (locked \/ locking > 0)
                  THEN slips \cup {"disabled"} ELSE slips
  BY DEF PinWrite
<1>5. PinShape'
  <2>1. call' = [x \in CALLS |-> call'[x]]
    BY DEF PinWrite
  <2>2. \A x \in CALLS : call'[x] \in CallRecord
    BY <1>3, <1>4
  <2>3. hash' \in PINS \cup {NoPin}
    BY <1>1, <1>u DEF CallRecord
  <2> QED
    BY <1>1, <1>u, <2>1, <2>2, <2>3 DEF PinShape
<1>6. CallsNamed'
  BY <1>1, <1>3, <1>4 DEF PinInv, CallsNamed
<1>7. AnswersTrue'
  BY <1>1, <1>3, <1>4, <1>u DEF AnswersTrue, PinOps
<1>8. StartsLocked' /\ OpenWhenTold'
  <2>1. call[q].op # "hydrate" /\ call'[q].op # "hydrate"
    BY <1>1, <1>3 DEF PinOps
  <2>2. /\ Busy("hydrate")' = Busy("hydrate")
        /\ slips \subseteq slips' /\ (opened \/ hash = NoPin => opened')
    BY <1>4, <1>u, <2>1 DEF Busy
  <2>3. StartsLocked'
    BY <1>u, <2>2 DEF PinInv, StartsLocked
  <2>4. OpenWhenTold'
    BY <1>4, <1>u, <2>1, <2>2 DEF PinInv, OpenWhenTold
  <2> QED
    BY <2>3, <2>4
<1>9. LockedHasPin'
  BY <1>1, <1>u, DigitsCount DEF PinInv, LockedHasPin, Calm, CallsNamed, PinOps
<1>10. LengthsApart'
  BY <1>1, <1>3, <1>4, <1>u DEF PinInv, LengthsApart, Calm, Busy, PinOps
<1>11. LengthsFit'
  BY <1>1, <1>3 DEF LengthsFit, Replacing
<1>12. OneAttempt'
  BY <1>1, <1>3, <1>4, <1>u DEF PinInv, OneAttempt, PinOps
<1> QED
  BY <1>5, <1>6, <1>7, <1>8, <1>9, <1>10, <1>11, <1>12 DEF PinInv

(* A question is answered from the table. *)
LEMMA PinReadKeeps == ASSUME PinInv, NEW q \in CALLS, PinRead(q) PROVE PinInv'
<1> DEFINE n == IF call[q].op = "settings" THEN savedLen ELSE call[q].n
           r == CASE call[q].op = "verify" -> call[q].cur = hash /\ call[q].n = Digits(hash)
                  [] OTHER -> hash # NoPin
<1>1. /\ PinShape /\ call[q] \in CallRecord /\ call[q].st = "asked"
      /\ call[q].op \in {"has", "hydrate", "settings", "verify"}
  BY DEF PinInv, PinShape, PinRead
<1>n. n \in Lengths /\ r \in BOOLEAN
  BY <1>1 DEF PinShape, CallRecord
<1>r. /\ call[q].op = "hydrate" => r = (hash # NoPin)
      /\ call[q].op = "verify" /\ r => call[q].n = Digits(hash)
  OBVIOUS
<1>m. /\ call[q].op = "settings" => n = savedLen
      /\ call[q].op # "settings" => n = call[q].n
  OBVIOUS
<1>p. call' = [call EXCEPT ![q].st = "ok", ![q].n = n, ![q].res = r]
  BY DEF PinRead
<1> HIDE DEF n, r
<1>2. \A x \in CALLS \ {q} : call'[x] = call[x]
  BY <1>1, <1>p DEF PinShape
<1>3. /\ call'[q] \in CallRecord /\ call'[q].st = "ok" /\ call'[q].n = n /\ call'[q].res = r
      /\ call'[q].op = call[q].op /\ call'[q].new = call[q].new /\ call'[q].late = call[q].late
      /\ call'[q].stale = call[q].stale
  <2>1. call'[q] = [call[q] EXCEPT !.st = "ok", !.n = n, !.res = r]
    BY <1>1, <1>p DEF PinShape
  <2> QED
    BY <1>1, <1>n, <2>1 DEF CallRecord
<1>f. call' \in [CALLS -> CallRecord]
  <2>1. call' = [x \in CALLS |-> call'[x]]
    BY <1>1, <1>p DEF PinShape
  <2>2. \A x \in CALLS : call'[x] \in CallRecord
    BY <1>1, <1>2, <1>3 DEF PinShape
  <2> QED
    BY <2>1, <2>2
<1>u. UNCHANGED <<hash, savedLen, locked, pinLen, dialog, pad, locking, opened, slips>>
  BY DEF PinRead
<1>4. PinShape'
  BY <1>1, <1>f, <1>u DEF PinShape
<1>5. CallsNamed'
  BY <1>1, <1>2, <1>3 DEF PinInv, CallsNamed
<1>6. AnswersTrue'
  <2>1. Digits(hash)' = Digits(hash)
    BY <1>u DEF Digits
  <2> QED
    BY <1>1, <1>2, <1>3, <1>u, <1>r, <1>m, <2>1 DEF PinInv, AnswersTrue, PinOps
<1>7. StartsLocked' /\ OpenWhenTold'
  BY <1>1, <1>2, <1>3, <1>r, <1>u DEF PinInv, StartsLocked, OpenWhenTold, Busy
<1>8. LockedHasPin'
  BY <1>u DEF PinInv, LockedHasPin, Calm
<1>9. LengthsApart'
  BY <1>1, <1>2, <1>3, <1>u DEF PinInv, LengthsApart, Calm, Busy
<1>10. LengthsFit'
  <2> SUFFICES ASSUME Calm', ~Replacing' PROVE LengthsFit'
    BY DEF LengthsFit
  <2>1. Calm /\ ~Replacing
    BY <1>1, <1>2, <1>3, <1>u DEF Calm, Replacing, PinOps
  <2>2. /\ pinLen = 0 \/ pinLen >= Digits(hash)
        /\ (savedLen = 0 \/ savedLen >= Digits(hash)) \/ Busy("len")
        /\ \A x \in CALLS : \/ call[x].op = "len"
                            \/ call[x].op = "settings" /\ call[x].st = "ok"
                            => call[x].n = 0 \/ call[x].n >= Digits(hash)
    BY <2>1 DEF PinInv, LengthsFit, Fits
  <2>3. call[q].op = "settings" => n = 0 \/ n >= Digits(hash)
    BY <1>1, <1>m, <2>1, <2>2 DEF PinInv, LengthsApart, Busy
  <2>4. Digits(hash)' = Digits(hash)
    BY <1>u DEF Digits
  <2>5. Busy("len") => Busy("len")'
    BY <1>1, <1>2, <1>3 DEF Busy
  <2>6. \A x \in CALLS : \/ call'[x].op = "len"
                         \/ call'[x].op = "settings" /\ call'[x].st = "ok"
                         => call'[x].n = 0 \/ call'[x].n >= Digits(hash)
    BY <1>1, <1>2, <1>3, <2>2, <2>3
  <2> QED
    BY <1>u, <2>2, <2>4, <2>5, <2>6 DEF LengthsFit, Fits
<1>11. OneAttempt'
  BY <1>1, <1>2, <1>3, <1>u DEF PinInv, OneAttempt
<1> QED
  BY <1>4, <1>5, <1>6, <1>7, <1>8, <1>9, <1>10, <1>11 DEF PinInv
(* The remembered length reaches its row. *)
LEMMA LenWriteKeeps == ASSUME PinInv, NEW q \in CALLS, LenWrite(q) PROVE PinInv'
<1>1. PinShape /\ call[q] \in CallRecord /\ call[q].st = "asked" /\ call[q].op = "len"
  BY DEF PinInv, PinShape, LenWrite
<1>2. /\ call' \in [CALLS -> CallRecord]
      /\ call'[q].st = "free" /\ call'[q].op = "none"
      /\ \A x \in CALLS \ {q} : call'[x] = call[x]
  BY <1>1, CallFreed DEF LenWrite
<1>u. /\ UNCHANGED <<hash, locked, pinLen, dialog, pad, locking, opened, slips>>
      /\ savedLen' = call[q].n
  BY DEF LenWrite
<1>3. PinShape'
  BY <1>1, <1>2, <1>u DEF PinShape, CallRecord
<1>4. CallsNamed'
  BY <1>2 DEF PinInv, CallsNamed
<1>5. AnswersTrue'
  BY <1>2, <1>u DEF PinInv, AnswersTrue, Digits
<1>6. StartsLocked' /\ OpenWhenTold'
  BY <1>1, <1>2, <1>u DEF PinInv, StartsLocked, OpenWhenTold, Busy
<1>7. LockedHasPin'
  BY <1>u DEF PinInv, LockedHasPin, Calm
<1>8. LengthsApart'
  BY <1>2, <1>u DEF PinInv, LengthsApart, Calm, Busy
<1>9. LengthsFit'
  BY <1>1, <1>2, <1>u DEF PinInv, LengthsFit, Calm, Busy, PinOps, Fits, Digits, Replacing
<1>10. OneAttempt'
  BY <1>2, <1>u DEF PinInv, OneAttempt
<1> QED
  BY <1>3, <1>4, <1>5, <1>6, <1>7, <1>8, <1>9, <1>10 DEF PinInv

(* A refused dialog command is over. *)
LEMMA PinRefusedKeeps == ASSUME PinInv, NEW q \in CALLS, PinRefused(q) PROVE PinInv'
<1>1. PinShape /\ call[q] \in CallRecord /\ call[q].st = "failed" /\ call[q].op \in PinOps
  BY DEF PinInv, PinShape, PinRefused, CallsNamed
<1>2. /\ call' \in [CALLS -> CallRecord]
      /\ call'[q].st = "free" /\ call'[q].op = "none"
      /\ \A x \in CALLS \ {q} : call'[x] = call[x]
  BY <1>1, CallFreed DEF PinRefused
<1>u. /\ UNCHANGED <<hash, savedLen, locked, pinLen, pad, locking, opened, slips>>
      /\ dialog' = dialog \/ dialog' = [dialog EXCEPT !.busy = FALSE]
  BY DEF PinRefused
<1>3. PinShape'
  BY <1>1, <1>2, <1>u DEF PinShape
<1>4. CallsNamed'
  BY <1>2 DEF PinInv, CallsNamed
<1>5. AnswersTrue'
  BY <1>2, <1>u DEF PinInv, AnswersTrue, Digits
<1>6. StartsLocked' /\ OpenWhenTold'
  BY <1>1, <1>2, <1>u DEF PinInv, StartsLocked, OpenWhenTold, Busy, PinOps
<1>7. LockedHasPin'
  BY <1>u DEF PinInv, LockedHasPin, Calm
<1>8. LengthsApart'
  BY <1>2, <1>u DEF PinInv, LengthsApart, Calm, Busy
<1>9. LengthsFit'
  BY <1>1, <1>2, <1>u DEF PinInv, LengthsFit, Calm, Busy, PinOps, Fits, Digits, Replacing
<1>10. OneAttempt'
  BY <1>2, <1>u DEF PinInv, OneAttempt
<1> QED
  BY <1>3, <1>4, <1>5, <1>6, <1>7, <1>8, <1>9, <1>10 DEF PinInv

(* refresh() has its answer. *)
LEMMA RefreshedKeeps == ASSUME PinInv, NEW q \in CALLS, Refreshed_(q) PROVE PinInv'
<1>1. PinShape /\ call[q] \in CallRecord /\ call[q].st = "ok" /\ call[q].op = "has"
  BY DEF PinInv, PinShape, Refreshed_
<1>2. /\ call' \in [CALLS -> CallRecord]
      /\ call'[q].st = "free" /\ call'[q].op = "none"
      /\ \A x \in CALLS \ {q} : call'[x] = call[x]
  BY <1>1, CallFreed DEF Refreshed_
<1>u. UNCHANGED <<hash, savedLen, locked, pinLen, dialog, pad, locking, opened, slips>>
  BY DEF Refreshed_
<1>3. PinShape'
  BY <1>1, <1>2, <1>u DEF PinShape
<1>4. CallsNamed'
  BY <1>2 DEF PinInv, CallsNamed
<1>5. AnswersTrue'
  BY <1>2, <1>u DEF PinInv, AnswersTrue, Digits
<1>6. StartsLocked' /\ OpenWhenTold'
  BY <1>1, <1>2, <1>u DEF PinInv, StartsLocked, OpenWhenTold, Busy
<1>c. (Calm' => Calm) /\ slips \subseteq slips'
  BY <1>u DEF Calm
<1>7. LockedHasPin'
  BY <1>u, <1>c DEF PinInv, LockedHasPin
<1>8. LengthsApart'
  BY <1>2, <1>c DEF PinInv, LengthsApart, Busy
<1>9. LengthsFit'
  BY <1>1, <1>2, <1>u, <1>c DEF PinInv, LengthsFit, Busy, PinOps, Fits, Digits, Replacing
<1>10. OneAttempt'
  BY <1>2, <1>u, <1>c DEF PinInv, OneAttempt
<1> QED
  BY <1>3, <1>4, <1>5, <1>6, <1>7, <1>8, <1>9, <1>10 DEF PinInv

(* hydrate() has its answer: the screen is there if there is a PIN. *)
LEMMA HydratedKeeps == ASSUME PinInv, NEW q \in CALLS, Hydrated(q) PROVE PinInv'
<1>1. PinShape /\ call[q] \in CallRecord /\ call[q].st = "ok" /\ call[q].op = "hydrate"
  BY DEF PinInv, PinShape, Hydrated
<1>2. /\ call' \in [CALLS -> CallRecord]
      /\ call'[q].st = "free" /\ call'[q].op = "none"
      /\ \A x \in CALLS \ {q} : call'[x] = call[x]
  BY <1>1, CallFreed DEF Hydrated
<1>u. /\ UNCHANGED <<hash, savedLen, pinLen, dialog, pad, locking, opened>>
      /\ locked' = call[q].res
      /\ slips' = slips \cup (IF call[q].stale THEN {"overlap"} ELSE {})
                        \cup (IF locked /\ ~call[q].res THEN {"late", "unread"} ELSE {})
  BY DEF Hydrated
<1>b. call[q].res \in BOOLEAN /\ call[q].stale \in BOOLEAN
  BY <1>1 DEF CallRecord
<1>3. PinShape'
  BY <1>1, <1>2, <1>u, <1>b DEF PinShape
<1>4. CallsNamed'
  BY <1>2 DEF PinInv, CallsNamed
<1>5. AnswersTrue'
  BY <1>2, <1>u DEF PinInv, AnswersTrue, Digits
<1>a. call[q].stale \/ call[q].res = (hash # NoPin)
  BY <1>1 DEF PinInv, AnswersTrue
<1>c. /\ Calm' => Calm
      /\ call[q].stale => "overlap" \in slips' /\ ~Calm'
      /\ slips \subseteq slips'
  BY <1>u DEF Calm
<1>6. StartsLocked' /\ OpenWhenTold'
  <2>1. locked /\ ~locked' => "unread" \in slips'
    BY <1>u
  <2>2. hash # NoPin => locked' \/ opened \/ "unread" \in slips'
    BY <1>1, <1>b, <1>c, <1>u, <2>1 DEF PinInv, OpenWhenTold
  <2> QED
    BY <1>2, <1>u, <2>2 DEF StartsLocked, OpenWhenTold
<1>7. LockedHasPin'
  BY <1>a, <1>b, <1>c, <1>u DEF PinInv, LockedHasPin
<1>8. LengthsApart'
  BY <1>2, <1>c DEF PinInv, LengthsApart, Busy
<1>9. LengthsFit'
  BY <1>1, <1>2, <1>u, <1>c DEF PinInv, LengthsFit, Busy, PinOps, Fits, Digits, Replacing
<1>10. OneAttempt'
  <2>1. locked /\ ~locked' => "late" \in slips'
    BY <1>u
  <2> QED
    BY <1>1, <1>2, <1>u, <1>b, <1>c, <2>1 DEF PinInv, OneAttempt
<1> QED
  BY <1>3, <1>4, <1>5, <1>6, <1>7, <1>8, <1>9, <1>10 DEF PinInv

(* The settings have been read. *)
LEMMA SettingsReadKeeps == ASSUME PinInv, NEW q \in CALLS, SettingsRead(q) PROVE PinInv'
<1>1. PinShape /\ call[q] \in CallRecord /\ call[q].st = "ok" /\ call[q].op = "settings"
  BY DEF PinInv, PinShape, SettingsRead
<1>2. /\ call' \in [CALLS -> CallRecord]
      /\ call'[q].st = "free" /\ call'[q].op = "none"
      /\ \A x \in CALLS \ {q} : call'[x] = call[x]
  BY <1>1, CallFreed DEF SettingsRead
<1>u. /\ UNCHANGED <<hash, savedLen, locked, dialog, pad, locking, opened, slips>>
      /\ pinLen' = call[q].n
  BY DEF SettingsRead
<1>3. PinShape'
  BY <1>1, <1>2, <1>u DEF PinShape, CallRecord
<1>4. CallsNamed'
  BY <1>2 DEF PinInv, CallsNamed
<1>5. AnswersTrue'
  BY <1>2, <1>u DEF PinInv, AnswersTrue, Digits
<1>6. StartsLocked' /\ OpenWhenTold'
  BY <1>1, <1>2, <1>u DEF PinInv, StartsLocked, OpenWhenTold, Busy
<1>7. LockedHasPin'
  BY <1>u DEF PinInv, LockedHasPin, Calm
<1>8. LengthsApart'
  BY <1>2, <1>u DEF PinInv, LengthsApart, Calm, Busy
<1>9. LengthsFit'
  BY <1>1, <1>2, <1>u DEF PinInv, LengthsFit, Calm, Busy, PinOps, Fits, Digits, Replacing
<1>10. OneAttempt'
  BY <1>2, <1>u DEF PinInv, OneAttempt
<1> QED
  BY <1>3, <1>4, <1>5, <1>6, <1>7, <1>8, <1>9, <1>10 DEF PinInv

(* A command has failed. *)
LEMMA CallFailsKeeps == ASSUME PinInv, NEW q \in CALLS, CallFails(q) PROVE PinInv'
<1>1. PinShape /\ call[q] \in CallRecord /\ call[q].st = "asked"
  BY DEF PinInv, PinShape, CallFails
<1>2. /\ call' \in [CALLS -> CallRecord]
      /\ call'[q].st = "free" /\ call'[q].op = "none"
      /\ \A x \in CALLS \ {q} : call'[x] = call[x]
  BY <1>1, CallFreed DEF CallFails
<1>u. /\ UNCHANGED <<hash, savedLen, locked, pinLen, pad, locking, opened>>
      /\ dialog' = dialog \/ dialog' = [dialog EXCEPT !.busy = FALSE]
      /\ slips' = slips \cup (IF call[q].op = "len" THEN {"failed"} ELSE {})
                        \cup (IF call[q].op = "hydrate" THEN {"unread"} ELSE {})
  BY DEF CallFails
<1>3. PinShape'
  BY <1>1, <1>2, <1>u DEF PinShape
<1>4. CallsNamed'
  BY <1>2 DEF PinInv, CallsNamed
<1>5. AnswersTrue'
  BY <1>2, <1>u DEF PinInv, AnswersTrue, Digits
<1>c. /\ Calm' => Calm /\ call[q].op # "len"
      /\ slips \subseteq slips'
      /\ call[q].op = "hydrate" => "unread" \in slips'
  BY <1>u DEF Calm, PinOps
<1>6. StartsLocked' /\ OpenWhenTold'
  BY <1>2, <1>u, <1>c DEF PinInv, StartsLocked, OpenWhenTold, Busy
<1>7. LockedHasPin'
  BY <1>u, <1>c DEF PinInv, LockedHasPin
<1>8. LengthsApart'
  BY <1>2, <1>c DEF PinInv, LengthsApart, Busy
<1>9. LengthsFit'
  BY <1>1, <1>2, <1>u, <1>c DEF PinInv, LengthsFit, Busy, PinOps, Fits, Digits, Replacing
<1>10. OneAttempt'
  BY <1>2, <1>u, <1>c DEF PinInv, OneAttempt
<1> QED
  BY <1>3, <1>4, <1>5, <1>6, <1>7, <1>8, <1>9, <1>10 DEF PinInv

(* settings.set("pinLength", n) with the length of the PIN that the answer of
   the call q vouches for: nothing older is on its way, or it is an overlap. *)
LEMMA RememberFits ==
    ASSUME PinInv, NEW q \in CALLS, NEW n \in Lengths, NEW rest,
           rest \in [CALLS -> CallRecord],
           \A x \in CALLS : rest[x] # call[x] =>
               call[x].op = "none" /\ rest[x].op = "has" /\ rest[x].st = "asked",
           Remember(q, n, rest), hash' = hash, savedLen' = savedLen,
           call[q].st = "ok", call[q].op # "settings", ~call[q].stale => n = Digits(hash)
    PROVE  LengthsApart' /\ LengthsFit'
<1>1. PinShape
  BY DEF PinInv
<1> DEFINE c == Command("len", NoPin, NoPin, n)
<1>2. c \in CallRecord /\ c.op = "len" /\ c.st = "asked" /\ c.n = n
  BY LengthSent
<1>3. call' = [rest EXCEPT ![q] = c] /\ pinLen' = n
  BY DEF Remember
<1>s. slips' = slips \cup (IF call[q].stale \/ Busy("len") \/ Busy("settings")
                           THEN {"overlap"} ELSE {})
  BY DEF Remember
<1> HIDE DEF c
<1>4. call'[q] = c /\ \A x \in CALLS \ {q} : call'[x] = rest[x]
  BY <1>3
<1>5. Calm' => Calm /\ ~call[q].stale /\ ~Busy("len") /\ ~Busy("settings")
  BY <1>s DEF Calm
<1> SUFFICES ASSUME Calm' PROVE LengthsApart' /\ LengthsFit'
  BY DEF LengthsApart, LengthsFit
<1>6. \A x \in CALLS \ {q} : call'[x].op # "len" /\ call'[x].op # "settings"
  <2> TAKE x \in CALLS \ {q}
  <2>1. call[x].op # "none" => call[x].st # "free"
    BY DEF PinInv, CallsNamed
  <2>2. call[x].op # "len" /\ call[x].op # "settings"
    BY <1>5, <2>1 DEF Busy
  <2> QED
    BY <1>4, <2>2
<1>7. LengthsApart'
  BY <1>2, <1>4, <1>6 DEF LengthsApart, Busy
<1>8. Busy("len")'
  BY <1>2, <1>4 DEF Busy
<1>9. Digits(hash)' = Digits(hash) /\ n = Digits(hash)
  BY <1>5 DEF Digits
<1>10. Digits(hash) >= Digits(hash)
  BY <1>1, DigitsCount DEF PinShape, Lengths
<1>11. \A x \in CALLS : \/ call'[x].op = "len"
                        \/ call'[x].op = "settings" /\ call'[x].st = "ok"
                        => call'[x].n = n
  BY <1>2, <1>4, <1>6
<1> QED
  BY <1>3, <1>7, <1>8, <1>9, <1>10, <1>11 DEF LengthsFit, Fits

(* A dialog's command has succeeded. *)
LEMMA PinAnsweredKeeps == ASSUME PinInv, NEW q \in CALLS, PinAnswered(q) PROVE PinInv'
<1>1. PinShape /\ call[q] \in CallRecord /\ call[q].st = "ok" /\ call[q].op \in PinOps
  BY DEF PinInv, PinShape, PinAnswered
<1> DEFINE n == Digits(call[q].new)
           h == Command("has", NoPin, NoPin, 0)
<1>2. n \in Lengths
  BY <1>1, DigitsCount DEF CallRecord
<1>3. PICK r \in FreeCall : Remember(q, n, [call EXCEPT ![r] = h])
  BY DEF PinAnswered
<1>4. r \in CALLS /\ call[r].st = "free" /\ call[r].op = "none" /\ r # q
  BY <1>1, FreeCallFree DEF PinInv, CallsNamed
<1>5. h \in CallRecord /\ h.op = "has" /\ h.st = "asked"
  <2>1. NoPin \in PINS \cup {NoPin} /\ "has" \in Ops /\ 0 \in Lengths
    BY DEF Ops, Lengths
  <2> QED
    BY <2>1, CommandAsked
<1>6. ~call[q].stale => n = Digits(hash)
  BY <1>1 DEF PinInv, AnswersTrue
<1> DEFINE rest == [call EXCEPT ![r] = h]
           l == Command("len", NoPin, NoPin, n)
<1>7. l \in CallRecord /\ l.op = "len" /\ l.st = "asked"
  BY <1>2, LengthSent
<1>8. call' = [rest EXCEPT ![q] = l] /\ pinLen' = n
  BY <1>3 DEF Remember
<1>s. slips' = slips \/ slips' = slips \cup {"overlap"}
  BY <1>3 DEF Remember
<1>u. /\ UNCHANGED <<hash, savedLen, locked, pad, locking, opened>>
      /\ dialog' = dialog \/ dialog' = NoPinDialog
  BY DEF PinAnswered
<1>r. Remember(q, n, rest)
  BY <1>3
<1> HIDE DEF n, h, l
<1>9. /\ rest \in [CALLS -> CallRecord]
      /\ \A x \in CALLS : rest[x] # call[x] =>
               call[x].op = "none" /\ rest[x].op = "has" /\ rest[x].st = "asked"
  BY <1>1, <1>4, <1>5 DEF PinShape
<1>10. /\ call'[q] = l /\ call'[r] = h /\ call' \in [CALLS -> CallRecord]
       /\ \A x \in CALLS \ {q, r} : call'[x] = call[x]
  BY <1>1, <1>4, <1>5, <1>7, <1>8 DEF PinShape
<1>11. LengthsApart' /\ LengthsFit'
  <2> HIDE DEF rest
  <2>1. call[q].op # "settings" /\ call[q].st = "ok"
    BY <1>1 DEF PinOps
  <2>2. hash' = hash /\ savedLen' = savedLen
    BY <1>u
  <2> QED
    BY <1>2, <1>6, <1>9, <1>r, <2>1, <2>2, RememberFits
<1> HIDE DEF rest
<1>12. PinShape'
  <2>1. dialog' \in [kind : {"none"} \cup PinOps, busy : BOOLEAN]
    <3>1. NoPinDialog \in [kind : {"none"} \cup PinOps, busy : BOOLEAN]
      BY DEF NoPinDialog
    <3> QED
      BY <1>1, <1>u, <3>1 DEF PinShape
  <2> QED
    BY <1>1, <1>2, <1>8, <1>10, <1>u, <2>1 DEF PinShape
<1>13. CallsNamed'
  BY <1>5, <1>7, <1>10 DEF PinInv, CallsNamed
<1>14. AnswersTrue'
  BY <1>5, <1>7, <1>10, <1>u DEF PinInv, AnswersTrue, Digits
<1>15. StartsLocked' /\ OpenWhenTold'
  <2>1. /\ call[q].op # "hydrate" /\ call[r].op # "hydrate"
        /\ call'[q].op # "hydrate" /\ call'[r].op # "hydrate"
    BY <1>1, <1>4, <1>5, <1>7, <1>10 DEF PinOps
  <2> QED
    BY <1>10, <1>s, <1>u, <2>1 DEF PinInv, StartsLocked, OpenWhenTold, Busy
<1>16. LockedHasPin'
  BY <1>s, <1>u DEF PinInv, LockedHasPin, Calm
<1>17. OneAttempt'
  BY <1>5, <1>7, <1>10, <1>s, <1>u DEF PinInv, OneAttempt
<1> QED
  BY <1>11, <1>12, <1>13, <1>14, <1>15, <1>16, <1>17 DEF PinInv

(* The PIN typed on the lock screen was the right one. *)
LEMMA AcceptedKeeps == ASSUME PinInv, NEW q \in CALLS, Accepted(q) PROVE PinInv'
<1>1. /\ PinShape /\ call[q] \in CallRecord /\ call[q].st = "ok" /\ call[q].op = "verify"
      /\ call[q].res
  BY DEF PinInv, PinShape, Accepted
<1> DEFINE n == call[q].n
           l == Command("len", NoPin, NoPin, n)
<1>2. n \in Lengths
  BY <1>1 DEF CallRecord
<1>3. Remember(q, n, call)
  BY DEF Accepted
<1>6. ~call[q].stale => n = Digits(hash)
  BY <1>1 DEF PinInv, AnswersTrue
<1>7. l \in CallRecord /\ l.op = "len" /\ l.st = "asked"
  BY <1>2, LengthSent
<1>8. call' = [call EXCEPT ![q] = l] /\ pinLen' = n
  BY <1>3 DEF Remember
<1>s. slips' = slips \/ slips' = slips \cup {"overlap"}
  BY <1>3 DEF Remember
<1>u. /\ UNCHANGED <<hash, savedLen, dialog, locking>>
      /\ locked' = FALSE /\ opened' = TRUE
      /\ pad' = [FreshPad EXCEPT !.timers = pad.timers]
  BY DEF Accepted
<1> HIDE DEF n, l
<1>10. /\ call'[q] = l /\ call' \in [CALLS -> CallRecord]
       /\ \A x \in CALLS \ {q} : call'[x] = call[x]
  BY <1>1, <1>7, <1>8 DEF PinShape
<1>11. LengthsApart' /\ LengthsFit'
  <2>1. call \in [CALLS -> CallRecord]
    BY <1>1 DEF PinShape
  <2> QED
    BY <1>1, <1>2, <1>3, <1>6, <1>u, <2>1, RememberFits
<1>12. PinShape'
  <2>1. pad' \in [pin : PINS \cup {NoPin}, n : Lengths,
                  status : {"idle", "verifying", "error"}, timers : Nat]
    BY <1>1, <1>u DEF PinShape, FreshPad, Lengths
  <2> QED
    BY <1>1, <1>2, <1>8, <1>10, <1>u, <2>1 DEF PinShape
<1>13. CallsNamed'
  BY <1>7, <1>10 DEF PinInv, CallsNamed
<1>14. AnswersTrue'
  BY <1>7, <1>10, <1>u DEF PinInv, AnswersTrue, Digits
<1>15. StartsLocked' /\ OpenWhenTold'
  BY <1>u DEF StartsLocked, OpenWhenTold
<1>16. LockedHasPin'
  BY <1>s, <1>u DEF PinInv, LockedHasPin, Calm
<1>17. OneAttempt'
  BY <1>1, <1>7, <1>10, <1>s DEF PinInv, OneAttempt
<1> QED
  BY <1>11, <1>12, <1>13, <1>14, <1>15, <1>16, <1>17 DEF PinInv

(* It was the wrong one, or the command has failed. *)
LEMMA RejectedKeeps == ASSUME PinInv, NEW q \in CALLS, Rejected(q) PROVE PinInv'
<1>1. PinShape /\ call[q].op = "verify" /\ call[q].st # "free"
  BY DEF PinInv, PinShape, Rejected
<1>2. /\ call' \in [CALLS -> CallRecord]
      /\ call'[q].st = "free" /\ call'[q].op = "none"
      /\ \A x \in CALLS \ {q} : call'[x] = call[x]
  BY <1>1, CallFreed DEF Rejected
<1>u. UNCHANGED <<hash, savedLen, locked, pinLen, dialog, locking, opened, slips>>
  BY DEF Rejected
<1>3. pad' \in [pin : PINS \cup {NoPin}, n : Lengths,
                status : {"idle", "verifying", "error"}, timers : Nat]
  <2> DEFINE p == IF call[q].st = "ok" THEN NoPin ELSE pad.pin
             k == IF call[q].st = "ok" THEN 0 ELSE pad.n
             t == pad.timers + 1
  <2>1. /\ pad \in [pin : PINS \cup {NoPin}, n : Lengths,
                    status : {"idle", "verifying", "error"}, timers : Nat]
        /\ p \in PINS \cup {NoPin} /\ k \in Lengths /\ t \in Nat
    BY <1>1 DEF PinShape, Lengths
  <2>2. \/ pad' = [pad EXCEPT !.timers = t]
        \/ pad' = [pad EXCEPT !.status = "error", !.timers = t, !.pin = p, !.n = k]
    BY DEF Rejected
  <2> HIDE DEF p, k, t
  <2> QED
    BY <2>1, <2>2
<1>4. PinShape'
  BY <1>1, <1>2, <1>3, <1>u DEF PinShape
<1>5. CallsNamed'
  BY <1>2 DEF PinInv, CallsNamed
<1>6. AnswersTrue'
  BY <1>2, <1>u DEF PinInv, AnswersTrue, Digits
<1>7. StartsLocked' /\ OpenWhenTold'
  BY <1>1, <1>2, <1>u DEF PinInv, StartsLocked, OpenWhenTold, Busy
<1>8. LockedHasPin'
  BY <1>u DEF PinInv, LockedHasPin, Calm
<1>9. LengthsApart'
  BY <1>2, <1>u DEF PinInv, LengthsApart, Calm, Busy
<1>10. LengthsFit'
  BY <1>1, <1>2, <1>u DEF PinInv, LengthsFit, Calm, Busy, PinOps, Fits, Digits, Replacing
<1>11. OneAttempt'
  BY <1>1, <1>2, <1>u DEF PinInv, OneAttempt
<1> QED
  BY <1>4, <1>5, <1>6, <1>7, <1>8, <1>9, <1>10, <1>11 DEF PinInv

(* lock() is called. *)
LEMMA LockCalledKeeps == PinInv /\ LockCalled => PinInv'
<1> SUFFICES ASSUME PinInv, LockCalled PROVE PinInv'
  OBVIOUS
<1>u. /\ UNCHANGED <<hash, savedLen, locked, pinLen, call, dialog, pad, opened>>
      /\ locking' = locking + 1
      /\ slips' = IF hash = NoPin THEN slips \cup {"disabled"} ELSE slips
  BY DEF LockCalled
<1>1. PinShape'
  BY <1>u DEF PinInv, PinShape
<1>2. CallsNamed' /\ AnswersTrue'
  BY <1>u DEF PinInv, CallsNamed, AnswersTrue, Digits
<1>c. (Calm' => Calm /\ hash # NoPin) /\ slips \subseteq slips'
  BY <1>u DEF Calm
<1>3. StartsLocked' /\ OpenWhenTold' /\ LockedHasPin'
  BY <1>u, <1>c DEF PinInv, StartsLocked, OpenWhenTold, LockedHasPin, Busy
<1>4. LengthsApart'
  BY <1>u, <1>c DEF PinInv, LengthsApart, Busy
<1>5. LengthsFit'
  BY <1>u, <1>c DEF PinInv, LengthsFit, Busy, Fits, Digits, Replacing
<1>6. OneAttempt'
  BY <1>u, <1>c DEF PinInv, OneAttempt
<1> QED
  BY <1>1, <1>2, <1>3, <1>4, <1>5, <1>6 DEF PinInv

(* The lock screen appears. *)
LEMMA LockDoneKeeps == PinInv /\ LockDone => PinInv'
<1> SUFFICES ASSUME PinInv, LockDone PROVE PinInv'
  OBVIOUS
<1>1. PinShape
  BY DEF PinInv
<1>u. /\ UNCHANGED <<hash, savedLen, pinLen, dialog, pad>>
      /\ locking > 0 /\ locking' = locking - 1 /\ locked' = TRUE
      /\ slips' = slips \ {"unread"}
  BY DEF LockDone
<1>2. ASSUME NEW x \in CALLS
      PROVE  /\ call'[x] \in CallRecord /\ call'[x].st = call[x].st /\ call'[x].op = call[x].op
             /\ call'[x].new = call[x].new /\ call'[x].n = call[x].n
             /\ call'[x].res = call[x].res /\ call'[x].stale = call[x].stale
             /\ locked => call'[x].late = call[x].late
  <2> DEFINE t == call[x].late \/ (~locked /\ call[x].op = "verify")
  <2>1. call[x] \in CallRecord /\ t \in BOOLEAN
    BY <1>1 DEF PinShape
  <2>2. call'[x] = [call[x] EXCEPT !.late = t]
    BY DEF LockDone
  <2>3. locked => t = call[x].late
    BY <2>1 DEF CallRecord
  <2> HIDE DEF t
  <2> QED
    BY <2>1, <2>2, <2>3 DEF CallRecord
<1>3. PinShape'
  <2>1. call' = [x \in CALLS |-> call'[x]]
    BY DEF LockDone
  <2>2. \A x \in CALLS : call'[x] \in CallRecord
    BY <1>2
  <2> QED
    BY <1>1, <1>u, <2>1, <2>2 DEF PinShape
<1>4. CallsNamed'
  BY <1>2 DEF PinInv, CallsNamed
<1>5. AnswersTrue'
  BY <1>2, <1>u DEF PinInv, AnswersTrue, Digits
<1>6. StartsLocked' /\ OpenWhenTold' /\ LockedHasPin'
  BY <1>u DEF PinInv, StartsLocked, OpenWhenTold, LockedHasPin, Calm
<1>7. LengthsApart'
  BY <1>2, <1>u DEF PinInv, LengthsApart, Calm, Busy
<1>8. LengthsFit'
  BY <1>2, <1>u DEF PinInv, LengthsFit, Calm, Busy, Fits, Digits, Replacing
<1>9. OneAttempt'
  BY <1>2, <1>u DEF PinInv, OneAttempt
<1> QED
  BY <1>3, <1>4, <1>5, <1>6, <1>7, <1>8, <1>9 DEF PinInv

(* The lock screen submits what has been typed. *)
LEMMA SubmitPadKeeps ==
    ASSUME PinInv, NEW p \in PINS \cup {NoPin}, NEW n \in Lengths, SubmitPad(p, n),
           UNCHANGED <<hash, savedLen, locked, pinLen, dialog, locking, opened, slips>>
    PROVE  PinInv'
<1>1. PinShape /\ locked /\ pad.status # "verifying" /\ locked' = locked
  BY DEF PinInv, PinShape, SubmitPad
<1>u. UNCHANGED <<hash, savedLen, locked, pinLen, dialog, locking, opened, slips>>
  OBVIOUS
<1>2. /\ NoPin \in PINS \cup {NoPin} /\ "verify" \in Ops
      /\ Ask_(Command("verify", p, NoPin, n))
  BY DEF Ops, SubmitPad
<1>3. /\ call' \in [CALLS -> CallRecord]
      /\ \E q \in CALLS :
            /\ call[q].st = "free"
            /\ call'[q].st = "asked" /\ call'[q].op = "verify" /\ call'[q].new = NoPin
            /\ call'[q].n = n /\ ~call'[q].late /\ ~call'[q].stale
            /\ \A x \in CALLS \ {q} : call'[x] = call[x]
  BY <1>1, <1>2, AskedSomewhere
<1>4. PICK q \in CALLS :
         /\ call[q].st = "free"
         /\ call'[q].st = "asked" /\ call'[q].op = "verify" /\ ~call'[q].late
         /\ \A x \in CALLS \ {q} : call'[x] = call[x]
  BY <1>3
<1>5. pad' = [pad EXCEPT !.pin = p, !.n = n, !.status = "verifying"]
  BY DEF SubmitPad
<1>6. PinShape' /\ pad'.status = "verifying"
  BY <1>1, <1>3, <1>5, <1>u DEF PinShape
<1>7. call[q].op = "none"
  BY <1>4 DEF PinInv, CallsNamed
<1>8. CallsNamed'
  BY <1>4 DEF PinInv, CallsNamed
<1>9. AnswersTrue'
  BY <1>4, <1>u DEF PinInv, AnswersTrue, Digits
<1>10. StartsLocked' /\ OpenWhenTold' /\ LockedHasPin'
  BY <1>1, <1>u DEF PinInv, StartsLocked, OpenWhenTold, LockedHasPin, Calm
<1>11. LengthsApart'
  BY <1>4, <1>u DEF PinInv, LengthsApart, Calm, Busy
<1>12. LengthsFit'
  BY <1>4, <1>7, <1>u DEF PinInv, LengthsFit, Calm, Busy, PinOps, Fits, Digits, Replacing
<1>13. OneAttempt'
  BY <1>1, <1>4, <1>6, <1>u DEF PinInv, OneAttempt
<1> QED
  BY <1>6, <1>8, <1>9, <1>10, <1>11, <1>12, <1>13 DEF PinInv

(* A change of the lock screen that does not touch an attempt. *)
LEMMA PadKeeps ==
    ASSUME PinInv, UNCHANGED <<hash, savedLen, locked, pinLen, call, dialog, locking, opened>>,
           pad' \in [pin : PINS \cup {NoPin}, n : Lengths,
                     status : {"idle", "verifying", "error"}, timers : Nat],
           slips' = slips \/ slips' = slips \cup {"timer"},
           pad.status = "verifying" => "timer" \in slips'
    PROVE  PinInv'
<1>c. (Calm' = Calm) /\ slips \subseteq slips'
  BY DEF Calm
<1>1. PinShape' /\ CallsNamed' /\ AnswersTrue'
  BY DEF PinInv, PinShape, CallsNamed, AnswersTrue, Digits
<1>2. StartsLocked' /\ OpenWhenTold'
  BY <1>c DEF PinInv, StartsLocked, OpenWhenTold, Busy
<1>3. LockedHasPin' /\ LengthsApart'
  BY <1>c DEF PinInv, LockedHasPin, LengthsApart, Busy
<1>4. LengthsFit'
  BY <1>c DEF PinInv, LengthsFit, Busy, Fits, Digits, Replacing
<1>5. OneAttempt'
  BY <1>c DEF PinInv, OneAttempt
<1> QED
  BY <1>1, <1>2, <1>3, <1>4, <1>5 DEF PinInv

(* A digit is typed, the last of which may submit. *)
LEMMA TypedKeeps == ASSUME PinInv, NEW p \in PINS, NEW n \in 4..PinLen(p), Typed(p, n) PROVE PinInv'
<1>1. PinShape /\ locked /\ n \in Lengths
  BY DigitsCount DEF PinInv, Typed, Lengths
<1>2. CASE pinLen >= 4 /\ n = pinLen
  BY <1>1, <1>2, SubmitPadKeeps DEF Typed
<1>3. CASE ~(pinLen >= 4 /\ n = pinLen)
  <2>1. /\ pad' = [pad EXCEPT !.pin = p, !.n = n, !.status = "idle"]
        /\ UNCHANGED <<hash, savedLen, locked, pinLen, call, dialog, locking, opened, slips>>
        /\ pad.status # "verifying"
    BY <1>3 DEF Typed
  <2>2. pad' \in [pin : PINS \cup {NoPin}, n : Lengths,
                  status : {"idle", "verifying", "error"}, timers : Nat]
    BY <1>1, <2>1 DEF PinShape
  <2> QED
    BY <2>1, <2>2, PadKeeps
<1> QED
  BY <1>2, <1>3

(* Enter submits. *)
LEMMA PressEnterKeeps == PinInv /\ PressEnter => PinInv'
<1> SUFFICES ASSUME PinInv, PressEnter PROVE PinInv'
  OBVIOUS
<1>1. pad.pin \in PINS \cup {NoPin} /\ pad.n \in Lengths
  BY DEF PinInv, PinShape
<1> QED
  BY <1>1, SubmitPadKeeps DEF PressEnter

(* The timer of a failed attempt fires. *)
LEMMA TimerFiresKeeps == PinInv /\ TimerFires => PinInv'
<1> SUFFICES ASSUME PinInv, TimerFires PROVE PinInv'
  OBVIOUS
<1>1. PinShape /\ pad.timers > 0
  BY DEF PinInv, TimerFires
<1> DEFINE t == pad.timers - 1
<1>2. pad' = [pad EXCEPT !.timers = t, !.status = "idle"] /\ t \in Nat
  BY <1>1 DEF TimerFires, PinShape
<1> HIDE DEF t
<1>3. pad' \in [pin : PINS \cup {NoPin}, n : Lengths,
                status : {"idle", "verifying", "error"}, timers : Nat]
  BY <1>1, <1>2 DEF PinShape
<1>4. /\ UNCHANGED <<hash, savedLen, locked, pinLen, call, dialog, locking, opened>>
      /\ slips' = IF pad.status = "verifying" THEN slips \cup {"timer"} ELSE slips
  BY DEF TimerFires
<1> QED
  BY <1>3, <1>4, PadKeeps

(* Killed and started again: the two rows agree unless a crash is recorded. *)
LEMMA RestartKeeps == PinInv /\ Restart => PinInv'
<1> SUFFICES ASSUME PinInv, Restart PROVE PinInv'
  OBVIOUS
<1>1. /\ Booted(call') /\ hash' = hash /\ savedLen' = savedLen
      /\ pinLen' = 0 /\ locked' = FALSE /\ locking' = 0
      /\ pad' = FreshPad /\ dialog' = NoPinDialog
  BY DEF Restart
<1>2. hash' \in PINS \cup {NoPin} /\ savedLen' \in Lengths
  BY <1>1 DEF PinInv, PinShape
<1>3. ASSUME Calm' PROVE Fits(savedLen)'
  <2>1. /\ Calm
        /\ \A q \in CALLS : call[q].op # "len" /\ ~(call[q].op \in PinOps /\ call[q].st = "ok")
    BY <1>3 DEF Calm, Restart
  <2>2. ~Replacing /\ ~Busy("len")
    BY <2>1 DEF Replacing, Busy
  <2>3. savedLen = 0 \/ savedLen >= Digits(hash)
    BY <2>1, <2>2 DEF PinInv, LengthsFit, Fits
  <2> QED
    BY <1>1, <2>3 DEF Fits, Digits
<1>4. (/\ Booted(call) /\ hash \in PINS \cup {NoPin} /\ savedLen \in Lengths
       /\ pinLen = 0 /\ locked = FALSE /\ locking = 0 /\ pad = FreshPad
       /\ dialog = NoPinDialog /\ (Calm => Fits(savedLen)))'
  BY <1>1, <1>2, <1>3
<1> QED
  BY <1>4, BootedInv, PTL

(* Every step keeps the invariant. *)
LEMMA PinStepInv == PinInv /\ [PinNext]_pinVars => PinInv'
<1> SUFFICES ASSUME PinInv, [PinNext]_pinVars PROVE PinInv'
  OBVIOUS
<1>d. dialog \in [kind : {"none"} \cup PinOps, busy : BOOLEAN]
  BY DEF PinInv, PinShape
<1>1. CASE UNCHANGED pinVars
  BY <1>1, <1>d, DialogKeeps DEF pinVars
<1>2. ASSUME NEW k \in PinOps, OpenPinDialog(k) PROVE PinInv'
  BY <1>2, DialogKeeps DEF OpenPinDialog
<1>3. CASE DismissPin
  BY <1>3, DialogKeeps DEF DismissPin, NoPinDialog
<1>4. CASE OpenSecurity \/ SubmitPin \/ LockCalled \/ LockDone \/ PressEnter \/ TimerFires \/ Restart
  BY <1>4, OpenSecurityKeeps, SubmitPinKeeps, LockCalledKeeps, LockDoneKeeps, PressEnterKeeps, TimerFiresKeeps,
     RestartKeeps
<1>5. ASSUME NEW p \in PINS, NEW n \in 4..PinLen(p), Typed(p, n) PROVE PinInv'
  BY <1>5, TypedKeeps
<1>6. ASSUME NEW q \in CALLS,
             \/ PinCheck(q) \/ PinWrite(q) \/ PinRead(q) \/ LenWrite(q) \/ CallFails(q)
             \/ PinAnswered(q) \/ PinRefused(q) \/ Refreshed_(q) \/ Hydrated(q)
             \/ SettingsRead(q) \/ Accepted(q) \/ Rejected(q)
      PROVE  PinInv'
  BY <1>6, PinCheckKeeps, PinWriteKeeps, PinReadKeeps, LenWriteKeeps, CallFailsKeeps,
     PinAnsweredKeeps, PinRefusedKeeps, RefreshedKeeps, HydratedKeeps, SettingsReadKeeps,
     AcceptedKeeps, RejectedKeeps
<1> QED
  BY <1>1, <1>2, <1>3, <1>4, <1>5, <1>6 DEF PinNext

----------------------------------------------------------------------------
(* PinLock: theorems *)

(* The invariant holds in every state of every behaviour. *)
THEOREM PinInvariant == PinSpec => []PinInv
BY PinInitInv, PinStepInv, PTL DEF PinSpec

(* "If a PIN is set, the app starts locked", for every set of PINs, however
   many commands are on their way, fail or meet each other, and however often the
   program is killed: only what hydrate() leaves open is open. *)
THEOREM AlwaysStartsLocked == PinSpec => []StartsLocked
<1>1. PinInv => StartsLocked
  BY DEF PinInv
<1> QED
  BY <1>1, PinInvariant, PTL

(* The user is never locked out, as long as no PIN was disabled under a lock() and
   no length was read or sent across another, lost, or cut off from its hash. *)
THEOREM NeverLocksOut == PinSpec => []NeverLockedOut
<1>1. PinInv => NeverLockedOut
  <2> SUFFICES ASSUME PinInv, locked, Settled, Calm
               PROVE  hash # NoPin /\ (pinLen = 0 \/ pinLen >= PinLen(hash))
    BY DEF NeverLockedOut, Calm
  <2>1. hash # NoPin /\ ~Replacing
    BY DEF PinInv, LockedHasPin, Replacing, Settled, PinOps
  <2> QED
    BY <2>1 DEF PinInv, LengthsFit, Fits, Digits
<1> QED
  BY <1>1, PinInvariant, PTL

(* The lock screen opens for a PIN typed on it, and not for an answer that an
   earlier lock left behind, unless the timer of a failed attempt let two
   verifications overlap or a late hydrate() took the screen away. *)
THEOREM UnlockAnswered == PinSpec => UnlockIsAnswered
<1>1. PinInv /\ [PinNext]_pinVars =>
         [locked /\ ~locked' /\ slips' \cap {"timer", "late"} = {} =>
             \/ Restart
             \/ \E q \in CALLS : call[q].op = "verify" /\ ~call[q].late /\ Accepted(q)]_pinVars
  <2> SUFFICES ASSUME PinInv, PinNext, locked, ~locked', slips' \cap {"timer", "late"} = {}
               PROVE  \/ Restart
                      \/ \E q \in CALLS : call[q].op = "verify" /\ ~call[q].late /\ Accepted(q)
    OBVIOUS
  <2>1. ASSUME NEW q \in CALLS, Accepted(q) PROVE call[q].op = "verify" /\ ~call[q].late
    <3>1. call[q].op = "verify" /\ slips \subseteq slips'
      BY <2>1 DEF Accepted, Remember
    <3> QED
      BY <3>1 DEF PinInv, OneAttempt
  <2>2. ASSUME NEW q \in CALLS PROVE ~Hydrated(q)
    BY DEF Hydrated, PinInv, PinShape, CallRecord
  <2>3. Restart \/ (\E q \in CALLS : Accepted(q))
    BY <2>2 DEF PinNext, OpenPinDialog, OpenSecurity, DismissPin, SubmitPin, LockCalled, LockDone, PressEnter,
                TimerFires, Typed, PinCheck, PinWrite, PinRead, LenWrite, CallFails, PinAnswered,
                PinRefused, Refreshed_, SettingsRead, Rejected
  <2> QED
    BY <2>1, <2>3
<1> QED
  BY <1>1, PinInvariant, PTL DEF PinSpec, UnlockIsAnswered

----------------------------------------------------------------------------
(* PinLock: types *)

PinLens == {0} \cup {PinLen(p) : p \in PINS}

(* A length on its way to the store or to the table is that of a PIN: it was   *)
(* read there, sent by a dialog, or typed to the last digit of the PIN.        *)
Carries(c) == \/ c.op \in {"settings", "len"}
              \/ c.op = "verify" /\ c.st = "ok" /\ c.res
PinRest ==
    /\ {savedLen, pinLen} \subseteq PinLens /\ {hasPin, opened} \subseteq BOOLEAN
    /\ slips \subseteq {"disabled", "overlap", "failed", "timer", "late", "crash", "unread"}
    /\ \A q \in CALLS : Carries(call[q]) => call[q].n \in PinLens
    /\ steps \in 0..STEPS

(* Each verification took a step, and becomes at most one timer. *)
Verifying == {q \in CALLS : call[q].op = "verify"}
TimersCounted == IsFiniteSet(Verifying) /\ Cardinality(Verifying) + pad.timers <= steps

(* With what the promises are about, the types follow. *)
LEMMA PinTypesFollow == PinInv /\ PinRest /\ TimersCounted => PinTypeOK
<1> SUFFICES ASSUME PinInv, PinRest, TimersCounted PROVE PinTypeOK
  OBVIOUS
<1>1. pad.timers \in 0..STEPS
  <2>1. Cardinality(Verifying) \in Nat /\ pad.timers \in Nat /\ steps \in 0..STEPS
    BY FS_CardinalityType DEF TimersCounted, PinInv, PinShape, PinRest
  <2> QED
    BY <2>1, PinAssumption DEF TimersCounted
<1>2. pad.status \in {"idle", "verifying", "error"}
  BY DEF PinInv, PinShape
<1> QED
  BY <1>1, <1>2 DEF PinTypeOK, PinInv, PinShape, PinRest, PinLens, CallRecord, Ops, Lengths

(* No PIN, and every PIN, has a length that may be remembered. *)
LEMMA DigitsMayBeKept == 0 \in PinLens /\ \A p \in PINS \cup {NoPin} : Digits(p) \in PinLens
BY DigitsCount DEF PinLens

(* A start remembers no length and verifies nothing. *)
LEMMA BootedNone ==
    ASSUME NEW calls, Booted(calls)
    PROVE  \A q \in CALLS : calls[q].op # "verify" /\ calls[q].n = 0
BY BootedCalls, NoCallFree

(* They hold at first. *)
LEMMA PinTypesInit == PinInit => PinRest /\ TimersCounted
<1> SUFFICES ASSUME PinInit PROVE PinRest /\ TimersCounted
  OBVIOUS
<1>1. \A q \in CALLS : call[q].op # "verify" /\ call[q].n = 0
  BY BootedNone DEF PinInit
<1>2. Verifying = {}
  BY <1>1 DEF Verifying
<1>3. TimersCounted
  BY <1>2, FS_EmptySet DEF TimersCounted, PinInit, FreshPad
<1>4. PinRest
  <2>1. savedLen \in PinLens /\ pinLen \in PinLens
    BY DigitsMayBeKept DEF PinInit
  <2>2. steps \in 0..STEPS
    BY PinAssumption DEF PinInit
  <2>3. \A q \in CALLS : call[q].n \in PinLens
    BY <1>1, DigitsMayBeKept
  <2> QED
    BY <2>1, <2>2, <2>3 DEF PinRest, PinInit
<1> QED
  BY <1>3, <1>4

(* Every step keeps the lengths, the histories and the count of steps.         *)
LEMMA PinRestStep == PinInv /\ PinRest /\ [PinNext]_pinVars => PinRest'
<1> SUFFICES ASSUME PinInv, PinRest, [PinNext]_pinVars PROVE PinRest'
  OBVIOUS
<1>0. PinShape /\ CallsNamed
  BY DEF PinInv
<1> USE PinAssumption DEF PinRest
<1>1. CASE UNCHANGED pinVars
  BY <1>1 DEF pinVars
<1>2. ASSUME NEW k \in PinOps, OpenPinDialog(k) PROVE PinRest'
  BY <1>2 DEF OpenPinDialog
<1>3. CASE DismissPin
  BY <1>3 DEF DismissPin
<1>4. CASE SubmitPin
  <2>1. PICK cur \in PINS \cup {NoPin}, new \in PINS \cup {NoPin} : Ask_(Command(dialog.kind, cur, new, 0))
    BY <1>4 DEF SubmitPin
  <2>2. dialog.kind \in PinOps /\ dialog.kind \in Ops /\ 0 \in Lengths
    BY <1>0, <1>4 DEF SubmitPin, PinShape, Ops, Lengths
  <2>3. PICK q \in CALLS : call'[q].op = dialog.kind /\ \A x \in CALLS \ {q} : call'[x] = call[x]
    BY <1>0, <2>1, <2>2, AskedSomewhere
  <2>4. ~Carries(call'[q])
    BY <2>2, <2>3 DEF Carries, PinOps
  <2>5. steps' \in 0..STEPS
    BY <2>1 DEF Ask_
  <2> QED
    BY <1>4, <2>3, <2>4, <2>5 DEF SubmitPin
<1>s. CASE OpenSecurity
  <2>1. "has" \in Ops /\ 0 \in Lengths /\ NoPin \in PINS \cup {NoPin}
    BY DEF Ops, Lengths
  <2>2. Ask_(Command("has", NoPin, NoPin, 0))
    BY <1>s DEF OpenSecurity
  <2>3. PICK q \in CALLS : call'[q].op = "has" /\ \A x \in CALLS \ {q} : call'[x] = call[x]
    BY <1>0, <2>1, <2>2, AskedSomewhere
  <2>4. ~Carries(call'[q])
    BY <2>3 DEF Carries
  <2>5. steps' \in 0..STEPS
    BY <2>2 DEF Ask_
  <2> QED
    BY <1>s, <2>3, <2>4, <2>5 DEF OpenSecurity
<1>5. CASE LockCalled
  BY <1>5 DEF LockCalled
<1>6. CASE LockDone
  <2>1. \A q \in CALLS : (Carries(call'[q]) <=> Carries(call[q])) /\ call'[q].n = call[q].n
    BY <1>0, <1>6 DEF LockDone, Carries, PinShape, CallRecord
  <2> QED
    BY <1>6, <2>1 DEF LockDone
<1>7. ASSUME NEW p \in PINS, NEW n \in Lengths, SubmitPad(p, n),
             UNCHANGED <<hash, savedLen, hasPin, locked, pinLen, opened, slips>>
      PROVE  PinRest'
  <2>1. "verify" \in Ops /\ NoPin \in PINS \cup {NoPin}
    BY DEF Ops
  <2>2. Ask_(Command("verify", p, NoPin, n))
    BY <1>7 DEF SubmitPad
  <2>3. PICK q \in CALLS : call'[q].op = "verify" /\ call'[q].st = "asked" /\ \A x \in CALLS \ {q} : call'[x] = call[x]
    BY <1>0, <2>1, <2>2, AskedSomewhere
  <2>4. ~Carries(call'[q])
    BY <2>3 DEF Carries
  <2>5. steps' \in 0..STEPS
    BY <2>2 DEF Ask_
  <2> QED
    BY <1>7, <2>3, <2>4, <2>5
<1>8. ASSUME NEW p \in PINS, NEW n \in 4..PinLen(p), Typed(p, n) PROVE PinRest'
  <2>1. n \in Lengths
    BY DEF Lengths
  <2>2. CASE SubmitPad(p, n)
    BY <1>7, <1>8, <2>1, <2>2 DEF Typed
  <2>3. CASE UNCHANGED <<call, steps>>
    BY <1>8, <2>3 DEF Typed
  <2> QED
    BY <1>8, <2>2, <2>3 DEF Typed
<1>9. CASE PressEnter
  BY <1>0, <1>7, <1>9 DEF PressEnter, PinShape
<1>10. CASE TimerFires
  BY <1>10 DEF TimerFires
<1>11. CASE Restart
  <2>1. \A q \in CALLS : call'[q].n \in PinLens
    BY <1>11, BootedNone, DigitsMayBeKept DEF Restart
  <2>2. steps' \in 0..STEPS /\ pinLen' \in PinLens
    BY <1>11, DigitsMayBeKept DEF Restart
  <2> QED
    BY <1>11, <2>1, <2>2 DEF Restart
<1>12. ASSUME NEW q \in CALLS, PinCheck(q) PROVE PinRest'
  <2>1. ~Carries(call'[q]) /\ \A x \in CALLS \ {q} : call'[x] = call[x]
    BY <1>0, <1>12 DEF PinCheck, PinShape, Carries, PinOps, CallRecord
  <2> QED
    BY <1>12, <2>1 DEF PinCheck
<1>13. ASSUME NEW q \in CALLS, PinWrite(q) PROVE PinRest'
  <2>1. \A x \in CALLS : Carries(call'[x]) => Carries(call[x]) /\ call'[x].n = call[x].n
    BY <1>0, <1>13 DEF PinWrite, PinShape, CallsNamed, Carries, PinOps, CallRecord
  <2> QED
    BY <1>13, <2>1 DEF PinWrite
<1>14. ASSUME NEW q \in CALLS, PinRead(q) PROVE PinRest'
  <2>1. /\ Carries(call'[q]) => call'[q].n \in PinLens
        /\ \A x \in CALLS \ {q} : call'[x] = call[x]
    <3>1. Digits(hash) \in PinLens
      BY <1>0, DigitsMayBeKept DEF PinShape
    <3> QED
      BY <1>0, <1>14, <3>1 DEF PinRead, PinShape, Carries, PinOps, CallRecord
  <2> QED
    BY <1>14, <2>1 DEF PinRead
<1>15. ASSUME NEW q \in CALLS, call' = [call EXCEPT ![q] = NoCall]
       PROVE  \A x \in CALLS : Carries(call'[x]) => call'[x].n \in PinLens
  BY <1>0, <1>15, CallFreed DEF Carries
<1>16. ASSUME NEW q \in CALLS, LenWrite(q) PROVE PinRest'
  <2>1. call[q].n \in PinLens
    BY <1>16 DEF LenWrite, Carries
  <2> QED
    BY <1>15, <1>16, <2>1 DEF LenWrite
<1>17. ASSUME NEW q \in CALLS, CallFails(q) PROVE PinRest'
  <2>1. steps' \in 0..STEPS
    BY <1>17 DEF CallFails
  <2>2. \A x \in CALLS : Carries(call'[x]) => call'[x].n \in PinLens
    BY <1>15, <1>17 DEF CallFails
  <2>3. slips' \subseteq {"disabled", "overlap", "failed", "timer", "late", "crash", "unread"}
    BY <1>17 DEF CallFails
  <2> QED
    BY <1>17, <2>1, <2>2, <2>3 DEF CallFails
<1>18. ASSUME NEW q \in CALLS, PinRefused(q) \/ Refreshed_(q) \/ Hydrated(q) PROVE PinRest'
  BY <1>0, <1>15, <1>18 DEF PinRefused, Refreshed_, Hydrated, PinShape, CallRecord
<1>19. ASSUME NEW q \in CALLS, SettingsRead(q) PROVE PinRest'
  BY <1>15, <1>19 DEF SettingsRead, Carries
<1>20. ASSUME NEW q \in CALLS, Rejected(q) PROVE PinRest'
  BY <1>15, <1>20 DEF Rejected
<1>21. ASSUME NEW q \in CALLS, PinAnswered(q) PROVE PinRest'
  <2>1. Digits(call[q].new) \in PinLens /\ Digits(call[q].new) \in Lengths
    BY <1>0, DigitsMayBeKept, DigitsCount DEF PinShape, CallRecord
  <2>2. PICK r \in FreeCall :
           Remember(q, Digits(call[q].new), [call EXCEPT ![r] = Command("has", NoPin, NoPin, 0)])
    BY <1>21 DEF PinAnswered
  <2>3. r \in CALLS
    BY <2>2, FreeCallFree
  <2> DEFINE len == Command("len", NoPin, NoPin, Digits(call[q].new))
             has == Command("has", NoPin, NoPin, 0)
  <2>4. len.n = Digits(call[q].new) /\ has.op = "has"
    <3>1. "has" \in Ops /\ NoPin \in PINS \cup {NoPin} /\ 0 \in Lengths
      BY DEF Ops, Lengths
    <3> QED
      BY <2>1, <3>1, LengthSent, CommandAsked
  <2>5. call' = [call EXCEPT ![r] = has, ![q] = len]
    BY <2>2 DEF Remember
  <2> HIDE DEF len, has
  <2>6. \A x \in CALLS : Carries(call'[x]) => call'[x].n \in PinLens
    BY <1>0, <2>1, <2>3, <2>4, <2>5 DEF PinShape, Carries
  <2> QED
    BY <1>21, <2>1, <2>2, <2>6 DEF PinAnswered, Remember
<1>22. ASSUME NEW q \in CALLS, Accepted(q) PROVE PinRest'
  <2>1. call[q].n \in PinLens /\ call[q].n \in Lengths
    BY <1>0, <1>22 DEF Accepted, Carries, PinShape, CallRecord
  <2> DEFINE len == Command("len", NoPin, NoPin, call[q].n)
  <2>2. len.n = call[q].n
    BY <2>1, LengthSent
  <2>3. call' = [call EXCEPT ![q] = len]
    BY <1>22 DEF Accepted, Remember
  <2> HIDE DEF len
  <2>4. \A x \in CALLS : Carries(call'[x]) => call'[x].n \in PinLens
    BY <1>0, <2>1, <2>2, <2>3 DEF PinShape
  <2> QED
    BY <1>22, <2>1, <2>4 DEF Accepted, Remember
<1> QED
  BY <1>1, <1>2, <1>3, <1>4, <1>s, <1>5, <1>6, <1>8, <1>9, <1>10, <1>11, <1>12, <1>13, <1>14, <1>16,
     <1>17, <1>18, <1>19, <1>20, <1>21, <1>22 DEF PinNext

(* A step that starts no verification leaves no more of them.                  *)
LEMMA NoMoreVerified ==
    ASSUME PinInv, PinRest, TimersCounted, Verifying' \subseteq Verifying,
           pad.timers' \in Nat, pad.timers' <= pad.timers, steps' \in Nat, steps <= steps'
    PROVE  TimersCounted'
<1> DEFINE now == Verifying
           next == Verifying'
<1>1. IsFiniteSet(now) /\ next \subseteq now
  BY DEF TimersCounted
<1>2. Cardinality(now) + pad.timers <= steps
  BY DEF TimersCounted
<1>3. pad.timers \in Nat /\ steps \in Nat
  BY PinAssumption DEF PinInv, PinShape, PinRest
<1> HIDE DEF now, next
<1>4. /\ IsFiniteSet(next) /\ Cardinality(next) \in Nat
      /\ Cardinality(now) \in Nat /\ Cardinality(next) <= Cardinality(now)
  BY <1>1, FS_Subset, FS_CardinalityType
<1>5. Cardinality(next) + pad.timers' <= steps'
  BY <1>2, <1>3, <1>4
<1> QED
  BY <1>4, <1>5 DEF TimersCounted, next

(* A verification that is asked is paid for with a step.                       *)
LEMMA OneMoreVerified ==
    ASSUME PinInv, PinRest, TimersCounted, NEW p \in PINS, NEW n \in Lengths, SubmitPad(p, n)
    PROVE  TimersCounted'
<1>1. "verify" \in Ops /\ NoPin \in PINS \cup {NoPin}
  BY DEF Ops
<1>2. Ask_(Command("verify", p, NoPin, n)) /\ PinShape
  BY DEF SubmitPad, PinInv
<1>3. PICK q \in CALLS : \A x \in CALLS \ {q} : call'[x] = call[x]
  BY <1>1, <1>2, AskedSomewhere
<1> DEFINE now == Verifying
           next == Verifying'
<1>4. next \subseteq now \cup {q}
  BY <1>3 DEF Verifying
<1>5. IsFiniteSet(now) /\ Cardinality(now) + pad.timers <= steps
  BY DEF TimersCounted
<1>6. pad.timers \in Nat /\ steps \in Nat /\ steps' = steps + 1 /\ pad.timers' = pad.timers
  BY <1>2, PinAssumption DEF PinShape, PinRest, Ask_, SubmitPad
<1> HIDE DEF now, next
<1>7. /\ IsFiniteSet(now \cup {q}) /\ Cardinality(now) \in Nat
      /\ Cardinality(now \cup {q}) \in Nat /\ Cardinality(now \cup {q}) <= Cardinality(now) + 1
  <2>1. /\ IsFiniteSet(now \cup {q})
        /\ Cardinality(now \cup {q}) = IF q \in now THEN Cardinality(now) ELSE Cardinality(now) + 1
    BY <1>5, FS_AddElement
  <2>2. Cardinality(now) \in Nat
    BY <1>5, FS_CardinalityType
  <2> QED
    BY <2>1, <2>2
<1>8. IsFiniteSet(next) /\ Cardinality(next) \in Nat /\ Cardinality(next) <= Cardinality(now) + 1
  <2>1. IsFiniteSet(next) /\ Cardinality(next) <= Cardinality(now \cup {q})
    BY <1>4, <1>7, FS_Subset
  <2>2. Cardinality(next) \in Nat
    BY <2>1, FS_CardinalityType
  <2> QED
    BY <1>7, <2>1, <2>2
<1>9. Cardinality(next) + pad.timers' <= steps'
  BY <1>5, <1>6, <1>7, <1>8
<1> QED
  BY <1>8, <1>9 DEF TimersCounted, next

(* One that fails leaves its place to a timer.                                 *)
LEMMA TimerForVerified ==
    ASSUME PinInv, PinRest, TimersCounted, NEW q \in CALLS, Rejected(q)
    PROVE  TimersCounted'
<1>1. PinShape
  BY DEF PinInv
<1> DEFINE now == Verifying
           next == Verifying'
<1>2. q \in now /\ next \subseteq now \ {q}
  BY <1>1, CallFreed DEF Rejected, Verifying
<1>3. IsFiniteSet(now) /\ Cardinality(now) + pad.timers <= steps
  BY DEF TimersCounted
<1>4. pad.timers \in Nat /\ steps \in Nat /\ steps' = steps /\ pad.timers' = pad.timers + 1
  BY <1>1, PinAssumption DEF PinShape, PinRest, Rejected
<1> HIDE DEF now, next
<1>5. IsFiniteSet(now \ {q}) /\ Cardinality(now \ {q}) = Cardinality(now) - 1 /\ Cardinality(now) \in Nat
  BY <1>2, <1>3, FS_RemoveElement, FS_CardinalityType
<1>6. IsFiniteSet(next) /\ Cardinality(next) <= Cardinality(now) - 1
  BY <1>2, <1>5, FS_Subset
<1>7. Cardinality(next) \in Nat
  BY <1>6, FS_CardinalityType
<1>8. Cardinality(next) + pad.timers' <= steps'
  BY <1>3, <1>4, <1>5, <1>6, <1>7
<1> QED
  BY <1>6, <1>8 DEF TimersCounted, next

(* Every step keeps the count of the timers.                                   *)
LEMMA TimersCountedStep == PinInv /\ PinRest /\ TimersCounted /\ [PinNext]_pinVars => TimersCounted'
<1> SUFFICES ASSUME PinInv, PinRest, TimersCounted, [PinNext]_pinVars PROVE TimersCounted'
  OBVIOUS
<1>0. PinShape /\ CallsNamed /\ pad.timers \in Nat /\ steps \in Nat
  BY PinAssumption DEF PinInv, PinShape, PinRest
<1>a. UNCHANGED call => Verifying' = Verifying
  BY DEF Verifying
<1>b. ASSUME NEW q \in CALLS, call' = [call EXCEPT ![q] = NoCall] PROVE Verifying' \subseteq Verifying
  BY <1>0, <1>b, CallFreed DEF Verifying
<1>1. CASE UNCHANGED pinVars
  BY <1>0, <1>1, <1>a, NoMoreVerified DEF pinVars
<1>2. ASSUME NEW k \in PinOps, OpenPinDialog(k) PROVE TimersCounted'
  BY <1>0, <1>2, <1>a, NoMoreVerified DEF OpenPinDialog
<1>3. CASE DismissPin
  BY <1>0, <1>3, <1>a, NoMoreVerified DEF DismissPin
<1>4. CASE SubmitPin
  <2>1. PICK cur \in PINS \cup {NoPin}, new \in PINS \cup {NoPin} : Ask_(Command(dialog.kind, cur, new, 0))
    BY <1>4 DEF SubmitPin
  <2>2. dialog.kind \in PinOps /\ dialog.kind \in Ops /\ 0 \in Lengths
    BY <1>0, <1>4 DEF SubmitPin, PinShape, Ops, Lengths
  <2>3. PICK q \in CALLS : call'[q].op = dialog.kind /\ \A x \in CALLS \ {q} : call'[x] = call[x]
    BY <1>0, <2>1, <2>2, AskedSomewhere
  <2>4. Verifying' \subseteq Verifying
    BY <2>2, <2>3 DEF Verifying, PinOps
  <2>5. steps' = steps + 1
    BY <2>1 DEF Ask_
  <2> QED
    BY <1>0, <1>4, <2>4, <2>5, NoMoreVerified DEF SubmitPin
<1>s. CASE OpenSecurity
  <2>1. "has" \in Ops /\ 0 \in Lengths /\ NoPin \in PINS \cup {NoPin}
    BY DEF Ops, Lengths
  <2>2. Ask_(Command("has", NoPin, NoPin, 0))
    BY <1>s DEF OpenSecurity
  <2>3. PICK q \in CALLS : call'[q].op = "has" /\ \A x \in CALLS \ {q} : call'[x] = call[x]
    BY <1>0, <2>1, <2>2, AskedSomewhere
  <2>4. Verifying' \subseteq Verifying
    BY <2>3 DEF Verifying
  <2>5. steps' = steps + 1
    BY <2>2 DEF Ask_
  <2> QED
    BY <1>0, <1>s, <2>4, <2>5, NoMoreVerified DEF OpenSecurity
<1>5. CASE LockCalled
  BY <1>0, <1>5, <1>a, NoMoreVerified DEF LockCalled
<1>6. CASE LockDone
  <2>1. \A q \in CALLS : call'[q].op = call[q].op
    BY <1>0, <1>6 DEF LockDone, PinShape, CallRecord
  <2>2. Verifying' \subseteq Verifying
    BY <2>1 DEF Verifying
  <2> QED
    BY <1>0, <1>6, <2>2, NoMoreVerified DEF LockDone
<1>7. ASSUME NEW p \in PINS, NEW n \in 4..PinLen(p), Typed(p, n) PROVE TimersCounted'
  <2>1. n \in Lengths
    BY PinAssumption DEF Lengths
  <2>2. CASE SubmitPad(p, n)
    BY <2>1, <2>2, OneMoreVerified
  <2>3. CASE UNCHANGED <<call, steps>> /\ pad' = [pad EXCEPT !.pin = p, !.n = n, !.status = "idle"]
    <3>1. pad.timers' = pad.timers
      BY <1>0, <2>3 DEF PinShape
    <3> QED
      BY <1>0, <1>a, <2>3, <3>1, NoMoreVerified
  <2> QED
    BY <1>7, <2>2, <2>3 DEF Typed
<1>8. CASE PressEnter
  BY <1>0, <1>8, OneMoreVerified DEF PressEnter, PinShape
<1>9. CASE TimerFires
  <2>1. pad.timers' = pad.timers - 1 /\ pad.timers > 0
    BY <1>0, <1>9 DEF TimerFires, PinShape
  <2>2. pad.timers' \in Nat /\ pad.timers' <= pad.timers
    BY <1>0, <2>1
  <2> QED
    BY <1>0, <1>9, <1>a, <2>2, NoMoreVerified DEF TimerFires
<1>10. CASE Restart
  <2>1. Verifying' = {}
    BY <1>10, BootedNone DEF Restart, Verifying
  <2>2. pad.timers' = 0 /\ steps' = steps + 1
    BY <1>10 DEF Restart, FreshPad
  <2> QED
    BY <1>0, <2>1, <2>2, NoMoreVerified
<1>11. ASSUME NEW q \in CALLS, PinCheck(q) PROVE TimersCounted'
  <2>1. \A x \in CALLS : call'[x].op = call[x].op
    BY <1>0, <1>11 DEF PinCheck, PinShape, CallRecord
  <2>2. Verifying' \subseteq Verifying
    BY <2>1 DEF Verifying
  <2> QED
    BY <1>0, <1>11, <2>2, NoMoreVerified DEF PinCheck
<1>12. ASSUME NEW q \in CALLS, PinWrite(q) PROVE TimersCounted'
  <2>1. \A x \in CALLS : call'[x].op = call[x].op
    BY <1>0, <1>12 DEF PinWrite, PinShape, CallRecord
  <2>2. Verifying' \subseteq Verifying
    BY <2>1 DEF Verifying
  <2> QED
    BY <1>0, <1>12, <2>2, NoMoreVerified DEF PinWrite
<1>13. ASSUME NEW q \in CALLS, PinRead(q) PROVE TimersCounted'
  <2>1. \A x \in CALLS : call'[x].op = call[x].op
    BY <1>0, <1>13 DEF PinRead, PinShape, CallRecord
  <2>2. Verifying' \subseteq Verifying
    BY <2>1 DEF Verifying
  <2> QED
    BY <1>0, <1>13, <2>2, NoMoreVerified DEF PinRead
<1>14. ASSUME NEW q \in CALLS, LenWrite(q) \/ PinRefused(q) \/ Refreshed_(q) \/ Hydrated(q) \/ SettingsRead(q)
       PROVE  TimersCounted'
  BY <1>0, <1>b, <1>14, NoMoreVerified DEF LenWrite, PinRefused, Refreshed_, Hydrated, SettingsRead
<1>15. ASSUME NEW q \in CALLS, CallFails(q) PROVE TimersCounted'
  <2>1. call' = [call EXCEPT ![q] = NoCall] /\ steps' = steps + 1 /\ UNCHANGED pad
    BY <1>15 DEF CallFails
  <2>2. Verifying' \subseteq Verifying
    BY <1>b, <2>1
  <2>3. pad.timers' = pad.timers /\ steps' \in Nat /\ steps <= steps'
    BY <1>0, <2>1
  <2>4. pad.timers' \in Nat /\ pad.timers' <= pad.timers
    BY <1>0, <2>3
  <2> QED
    BY <2>2, <2>3, <2>4, NoMoreVerified
<1>16. ASSUME NEW q \in CALLS, PinAnswered(q) PROVE TimersCounted'
  <2>1. Digits(call[q].new) \in Lengths
    BY <1>0, DigitsCount DEF PinShape, CallRecord
  <2>2. PICK r \in FreeCall :
           Remember(q, Digits(call[q].new), [call EXCEPT ![r] = Command("has", NoPin, NoPin, 0)])
    BY <1>16 DEF PinAnswered
  <2>3. r \in CALLS
    BY <2>2, FreeCallFree
  <2> DEFINE len == Command("len", NoPin, NoPin, Digits(call[q].new))
             has == Command("has", NoPin, NoPin, 0)
  <2>4. len.op = "len" /\ has.op = "has"
    <3>1. "has" \in Ops /\ NoPin \in PINS \cup {NoPin} /\ 0 \in Lengths
      BY DEF Ops, Lengths
    <3> QED
      BY <2>1, <3>1, LengthSent, CommandAsked
  <2>5. call' = [call EXCEPT ![r] = has, ![q] = len]
    BY <2>2 DEF Remember
  <2> HIDE DEF len, has
  <2>6. Verifying' \subseteq Verifying
    BY <1>0, <2>3, <2>4, <2>5 DEF PinShape, Verifying
  <2> QED
    BY <1>0, <1>16, <2>6, NoMoreVerified DEF PinAnswered
<1>17. ASSUME NEW q \in CALLS, Accepted(q) PROVE TimersCounted'
  <2>1. call[q].n \in Lengths
    BY <1>0 DEF PinShape, CallRecord
  <2> DEFINE len == Command("len", NoPin, NoPin, call[q].n)
  <2>2. len.op = "len"
    BY <2>1, LengthSent
  <2>3. call' = [call EXCEPT ![q] = len]
    BY <1>17 DEF Accepted, Remember
  <2> HIDE DEF len
  <2>4. Verifying' \subseteq Verifying
    BY <1>0, <2>2, <2>3 DEF PinShape, Verifying
  <2>5. pad.timers' = pad.timers /\ steps' = steps
    BY <1>17 DEF Accepted, FreshPad
  <2> QED
    BY <1>0, <2>4, <2>5, NoMoreVerified
<1>18. ASSUME NEW q \in CALLS, Rejected(q) PROVE TimersCounted'
  BY <1>18, TimerForVerified
<1> QED
  BY <1>1, <1>2, <1>3, <1>4, <1>s, <1>5, <1>6, <1>7, <1>8, <1>9, <1>10, <1>11, <1>12, <1>13, <1>14,
     <1>15, <1>16, <1>17, <1>18 DEF PinNext

(* Types: no more timers run than verifications were asked, and only lengths   *)
(* of PINs are remembered, in the store and in the table.                      *)
THEOREM PinTyped == PinSpec => []PinTypeOK
BY PinInvariant, PinTypesFollow, PinTypesInit, PinRestStep, TimersCountedStep, PTL DEF PinSpec

----------------------------------------------------------------------------
(* Launch: the invariant *)

(* A record of settings. *)
Keyed(f) == f = [k \in Keys |-> f[k]] /\ f["seen"] \in Nat

SettingsShape ==
    /\ Keyed(row) /\ Keyed(store) /\ Keyed(boot.was)
    /\ wish = [k \in {"auto", "close"} |-> wish[k]]
    /\ \A w \in writes : w[1] \in Keys /\ (w[1] = "seen" => w[2] \in Nat)
    /\ version \in VERSIONS

(* Left at its default by a hydrate() that failed. *)
Unset(k) == unread /\ store[k] = Defaults[k]

(* Releases that the table may record as seen. *)
Seen == told \cup skipped

(* Once the settings are read, what is on its way for a key is what the store
   holds, and with nothing on its way the row holds it. *)
InStep == Ready => \A k \in Keys \ lost :
    /\ \A w \in writes : w[1] = k => w[2] = store[k]
    /\ Pending(k) \/ row[k] = store[k] \/ Unset(k)

(* Until then nothing is on its way for it, the store has its default, and what
   was read is in the row. *)
Untouched == ~Ready => ~unread /\ \A k \in Keys \ lost :
    /\ ~Pending(k) /\ store[k] = Defaults[k]
    /\ boot.st = "read" => boot.was[k] = row[k]

SnapshotKept == Ready => store["tabs"] = IF emptied THEN <<>> ELSE Snapshot(tabs)

(* A remembered choice is in the row or on its way there, and in the store once
   that has been read. *)
Wished == \A k \in {"auto", "close"} \ lost : wish[k] # "unsaved" =>
    /\ Pending(k) \/ row[k] = wish[k]
    /\ \A w \in writes : w[1] = k => w[2] = wish[k]
    /\ Ready => store[k] = wish[k] \/ Unset(k)

(* Wherever a release is recorded as seen, its news have been shown. *)
Told ==
    /\ UpTo(row["seen"]) \subseteq Seen /\ UpTo(store["seen"]) \subseteq Seen
    /\ UpTo(boot.was["seen"]) \subseteq Seen
    /\ \A w \in writes : w[1] = "seen" => UpTo(w[2]) \subseteq Seen
    /\ news = "shown" => UpTo(version) \subseteq Seen

SettingsInv ==
    SettingsShape /\ InStep /\ Untouched /\ SnapshotKept /\ Wished /\ Told

----------------------------------------------------------------------------
(* Launch: the steps *)

(* Every release is later than 0. *)
LEMMA NothingBeforeFirst ==
    UpTo(0) = {} /\ VERSIONS \subseteq Nat /\ {0} \cup VERSIONS \subseteq Nat
BY LaunchAssumption DEF UpTo

(* The defaults are settings. *)
LEMMA DefaultsKeyed == Keyed(Defaults) /\ Defaults["seen"] = 0
BY DEF Keyed, Defaults, Keys

(* SetAll: the store has the fields of f over s, each of them is on its way,
   and it is not lost unless another was, or the settings are not read. *)
LEMMA SetAllWrites ==
    ASSUME NEW s, NEW f, SetAll(s, f)
    PROVE  /\ store' = [k \in Keys |-> store'[k]]
           /\ \A k \in Keys : store'[k] = IF k \in DOMAIN f THEN f[k] ELSE s[k]
           /\ \A w \in writes' : w \in writes \/ (w[1] \in DOMAIN f /\ w[2] = f[w[1]])
           /\ \A w \in writes : w \in writes'
           /\ \A k \in DOMAIN f : <<k, f[k]>> \in writes'
           /\ \A k \in DOMAIN f : k \notin lost' => ~Pending(k) /\ Ready'
           /\ \A k : k \notin DOMAIN f => (k \in lost' <=> k \in lost)
<1>1. store' = [k \in Keys |-> IF k \in DOMAIN f THEN f[k] ELSE s[k]]
  BY DEF SetAll
<1>2. writes' = writes \cup {<<k, f[k]>> : k \in DOMAIN f}
  BY DEF SetAll
<1>3. lost' = (lost \ DOMAIN f) \cup {k \in DOMAIN f : Pending(k) \/ ~Ready'}
  BY DEF SetAll
<1>4. /\ \A k \in DOMAIN f : k \notin lost' => ~Pending(k) /\ Ready'
      /\ \A k : k \notin DOMAIN f => (k \in lost' <=> k \in lost)
  BY <1>3
<1> QED
  BY <1>1, <1>2, <1>4

(* A step that changes settings, by SetAll on top of the store. *)
LEMMA StoreKeeps ==
    ASSUME SettingsInv, NEW f, DOMAIN f \subseteq Keys, SetAll(store, f),
           row' = row, boot' = boot, version' = version, unread' = unread,
           "tabs" \in DOMAIN f => f["tabs"] = IF emptied' THEN <<>> ELSE Snapshot(tabs'),
           "tabs" \in DOMAIN f \/ (tabs' = tabs /\ emptied' = emptied) \/ ~Ready,
           wish' = [k \in {"auto", "close"} |-> wish'[k]],
           \A k \in {"auto", "close"} : wish'[k] = IF k \in DOMAIN f THEN f[k] ELSE wish[k],
           "seen" \in DOMAIN f => f["seen"] \in Nat,
           "seen" \in DOMAIN f => UpTo(f["seen"]) \subseteq Seen',
           Seen \subseteq Seen',
           news' = "shown" => UpTo(version) \subseteq Seen'
    PROVE  SettingsInv'
<1>1. /\ store' = [k \in Keys |-> store'[k]]
      /\ \A k \in Keys : store'[k] = IF k \in DOMAIN f THEN f[k] ELSE store[k]
      /\ \A w \in writes' : w \in writes \/ (w[1] \in DOMAIN f /\ w[2] = f[w[1]])
      /\ \A w \in writes : w \in writes'
      /\ \A k \in DOMAIN f : <<k, f[k]>> \in writes'
      /\ \A k \in DOMAIN f : k \notin lost' => ~Pending(k) /\ Ready'
      /\ \A k : k \notin DOMAIN f => (k \in lost' <=> k \in lost)
  BY SetAllWrites
<1>2. Ready' = Ready /\ SettingsShape /\ "seen" \in Keys /\ "tabs" \in Keys
  BY DEF Ready, SettingsInv, Keys
<1>3. SettingsShape'
  BY <1>1, <1>2 DEF SettingsShape, Keyed
<1>p. \A k \in Keys : Pending(k) \/ k \in DOMAIN f => Pending(k)'
  <2> SUFFICES ASSUME NEW k \in Keys, Pending(k) \/ k \in DOMAIN f PROVE Pending(k)'
    OBVIOUS
  <2>1. <<k, f[k]>>[1] = k
    OBVIOUS
  <2> QED
    BY <1>1, <2>1 DEF Pending
<1>4. InStep'
  <2> SUFFICES ASSUME Ready, NEW k \in Keys, k \notin lost'
               PROVE  /\ \A w \in writes' : w[1] = k => w[2] = store'[k]
                      /\ Pending(k)' \/ row[k] = store'[k] \/ Unset(k)'
    BY <1>2 DEF InStep
  <2>1. CASE k \in DOMAIN f
    <3>1. \A w \in writes : w[1] # k
      BY <1>1, <2>1 DEF Pending
    <3>2. \A w \in writes' : w[1] = k => w[2] = store'[k]
      BY <1>1, <2>1, <3>1
    <3> QED
      BY <1>p, <2>1, <3>2
  <2>2. CASE k \notin DOMAIN f
    <3>1. /\ \A w \in writes : w[1] = k => w[2] = store[k]
          /\ Pending(k) \/ row[k] = store[k] \/ Unset(k)
      BY <1>1, <2>2 DEF SettingsInv, InStep
    <3>2. store'[k] = store[k] /\ (Unset(k) => Unset(k)')
      BY <1>1, <2>2 DEF Unset
    <3> QED
      BY <1>1, <1>p, <2>2, <3>1, <3>2
  <2> QED
    BY <2>1, <2>2
<1>5. Untouched'
  <2> SUFFICES ASSUME ~Ready
               PROVE  ~unread /\ \A k \in Keys \ lost' :
                         /\ ~Pending(k)' /\ store'[k] = Defaults[k]
                         /\ boot.st = "read" => boot.was[k] = row[k]
    BY <1>2 DEF Untouched, Defaults
  <2>1. ~unread
    BY DEF SettingsInv, Untouched
  <2>2. ASSUME NEW k \in Keys \ lost'
        PROVE  /\ ~Pending(k)' /\ store'[k] = Defaults[k]
               /\ boot.st = "read" => boot.was[k] = row[k]
    <3>1. k \notin DOMAIN f /\ k \notin lost
      BY <1>1, <1>2, <2>2
    <3>2. ~Pending(k) /\ store[k] = Defaults[k] /\ (boot.st = "read" => boot.was[k] = row[k])
      BY <3>1 DEF SettingsInv, Untouched
    <3> QED
      BY <1>1, <3>1, <3>2 DEF Pending
  <2> QED
    BY <2>1, <2>2
<1>6. SnapshotKept'
  <2> SUFFICES ASSUME Ready
               PROVE  store'["tabs"] = IF emptied' THEN <<>> ELSE Snapshot(tabs')
    BY <1>2 DEF SnapshotKept
  <2>1. CASE "tabs" \in DOMAIN f
    BY <1>1, <1>2, <2>1
  <2>2. CASE "tabs" \notin DOMAIN f
    BY <1>1, <1>2, <2>2 DEF SettingsInv, SnapshotKept
  <2> QED
    BY <2>1, <2>2
<1>7. Wished'
  <2> SUFFICES ASSUME NEW k \in {"auto", "close"}, k \notin lost', wish'[k] # "unsaved"
               PROVE  /\ Pending(k)' \/ row[k] = wish'[k]
                      /\ \A w \in writes' : w[1] = k => w[2] = wish'[k]
                      /\ Ready => store'[k] = wish'[k] \/ Unset(k)'
    BY <1>2 DEF Wished
  <2>1. k \in Keys
    BY DEF Keys
  <2>2. CASE k \in DOMAIN f
    <3>1. \A w \in writes : w[1] # k
      BY <1>1, <2>2 DEF Pending
    <3> QED
      BY <1>1, <1>p, <2>1, <2>2, <3>1
  <2>3. CASE k \notin DOMAIN f
    <3>1. wish'[k] = wish[k] /\ store'[k] = store[k] /\ (Unset(k) => Unset(k)')
      BY <1>1, <2>1, <2>3 DEF Unset
    <3>2. /\ Pending(k) \/ row[k] = wish[k]
          /\ \A w \in writes : w[1] = k => w[2] = wish[k]
          /\ Ready => store[k] = wish[k] \/ Unset(k)
      BY <1>1, <2>3, <3>1 DEF SettingsInv, Wished
    <3> QED
      BY <1>1, <1>p, <2>1, <2>3, <3>1, <3>2
  <2> QED
    BY <2>2, <2>3
<1>8. Told'
  BY <1>1, <1>2 DEF SettingsInv, Told, UpTo
<1> QED
  BY <1>3, <1>4, <1>5, <1>6, <1>7, <1>8 DEF SettingsInv

(* A step that changes no setting. *)
LEMMA QuietKeeps ==
    ASSUME SettingsInv,
           UNCHANGED <<row, store, writes, boot, version, tabs, wish, lost, unread, emptied>>,
           Seen \subseteq Seen', news' = "shown" => UpTo(version) \subseteq Seen'
    PROVE  SettingsInv'
<1>1. SettingsShape' /\ SnapshotKept'
  BY DEF SettingsInv, SettingsShape, Keyed, SnapshotKept, Ready
<1>2. InStep' /\ Untouched' /\ Wished'
  BY DEF SettingsInv, InStep, Untouched, Wished, Ready, Pending, Unset, Defaults
<1>3. Told'
  BY DEF SettingsInv, Told, UpTo
<1> QED
  BY <1>1, <1>2, <1>3 DEF SettingsInv

(* A row is written. *)
LEMMA WriteRunsKeeps == ASSUME SettingsInv, NEW w \in writes, WriteRuns(w) PROVE SettingsInv'
<1>1. /\ row' = [row EXCEPT ![w[1]] = w[2]] /\ writes' = writes \ {w}
      /\ UNCHANGED <<store, boot, version, tabs, news, wish, told, skipped, lost, unread, emptied>>
  BY DEF WriteRuns, histories
<1>2. SettingsShape /\ w[1] \in Keys /\ Ready' = Ready /\ Keyed(row)
  BY <1>1 DEF SettingsInv, SettingsShape, Ready
<1>3. /\ row' = [k \in Keys |-> row'[k]]
      /\ row'[w[1]] = w[2] /\ \A k \in Keys : k # w[1] => row'[k] = row[k]
  BY <1>1, <1>2 DEF Keyed
<1>4. SettingsShape'
  <2>1. row'["seen"] \in Nat
    BY <1>2, <1>3 DEF SettingsShape, Keyed, Keys
  <2> QED
    BY <1>1, <1>2, <1>3, <2>1 DEF SettingsShape, Keyed
<1>5. InStep'
  <2> SUFFICES ASSUME Ready, NEW k \in Keys, k \notin lost
               PROVE  /\ \A x \in writes' : x[1] = k => x[2] = store[k]
                      /\ Pending(k)' \/ row'[k] = store[k] \/ Unset(k)
    BY <1>1, <1>2 DEF InStep, Unset, Defaults
  <2>1. /\ \A x \in writes : x[1] = k => x[2] = store[k]
        /\ Pending(k) \/ row[k] = store[k] \/ Unset(k)
    BY DEF SettingsInv, InStep
  <2>2. CASE w[1] = k
    BY <1>1, <1>3, <2>1, <2>2
  <2>3. CASE w[1] # k
    BY <1>1, <1>3, <2>1, <2>3 DEF Pending
  <2> QED
    BY <2>2, <2>3
<1>6. Untouched'
  BY <1>1, <1>2, <1>3 DEF SettingsInv, Untouched, Pending, Defaults
<1>7. SnapshotKept'
  BY <1>1, <1>2 DEF SettingsInv, SnapshotKept
<1>8. Wished'
  <2> SUFFICES ASSUME NEW k \in {"auto", "close"}, k \notin lost, wish[k] # "unsaved"
               PROVE  /\ Pending(k)' \/ row'[k] = wish[k]
                      /\ \A x \in writes' : x[1] = k => x[2] = wish[k]
                      /\ Ready => store[k] = wish[k] \/ Unset(k)
    BY <1>1, <1>2 DEF Wished, Unset, Defaults
  <2>1. /\ Pending(k) \/ row[k] = wish[k]
        /\ \A x \in writes : x[1] = k => x[2] = wish[k]
        /\ Ready => store[k] = wish[k] \/ Unset(k)
    BY DEF SettingsInv, Wished
  <2>2. k \in Keys
    BY DEF Keys
  <2>3. CASE w[1] = k
    BY <1>1, <1>3, <2>1, <2>3
  <2>4. CASE w[1] # k
    BY <1>1, <1>3, <2>1, <2>2, <2>4 DEF Pending
  <2> QED
    BY <2>3, <2>4
<1>9. Told'
  BY <1>1, <1>2, <1>3 DEF SettingsInv, Told, UpTo, Keys, Seen
<1> QED
  BY <1>4, <1>5, <1>6, <1>7, <1>8, <1>9 DEF SettingsInv

(* A write is lost. *)
LEMMA WriteFailsKeeps == ASSUME SettingsInv, NEW w \in writes, WriteFails(w) PROVE SettingsInv'
<1>1. /\ writes' = writes \ {w} /\ lost' = lost \cup {w[1]}
      /\ UNCHANGED <<row, store, boot, version, tabs, news, wish, told, skipped, unread, emptied>>
  BY DEF WriteFails
<1>2. Ready' = Ready
  BY <1>1 DEF Ready
<1>3. SettingsShape' /\ SnapshotKept'
  BY <1>1, <1>2 DEF SettingsInv, SettingsShape, SnapshotKept, Keyed
<1>4. InStep' /\ Untouched'
  BY <1>1, <1>2 DEF SettingsInv, InStep, Untouched, Pending, Unset, Defaults
<1>5. Wished' /\ Told'
  BY <1>1, <1>2 DEF SettingsInv, Wished, Told, UpTo, Pending, Unset, Defaults, Seen
<1> QED
  BY <1>3, <1>4, <1>5 DEF SettingsInv

(* hydrate() reads the table. *)
LEMMA SettingsAreReadKeeps == SettingsInv /\ SettingsAreRead => SettingsInv'
<1> SUFFICES ASSUME SettingsInv, SettingsAreRead PROVE SettingsInv'
  OBVIOUS
<1>1. /\ boot' = [st |-> "read", was |-> row] /\ ~Ready /\ ~Ready'
      /\ UNCHANGED <<row, store, writes, version, tabs, news, wish, told, skipped, lost, unread, emptied>>
  BY DEF SettingsAreRead, Ready, histories
<1>2. boot'.st = "read" /\ boot'.was = row
  BY <1>1
<1>3. SettingsShape' /\ SnapshotKept' /\ InStep'
  BY <1>1, <1>2 DEF SettingsInv, SettingsShape, SnapshotKept, InStep, Keyed
<1>4. Untouched' /\ Wished'
  BY <1>1, <1>2 DEF SettingsInv, Untouched, Wished, Pending, Defaults
<1>5. Told'
  BY <1>1, <1>2 DEF SettingsInv, Told, UpTo, Seen
<1> QED
  BY <1>3, <1>4, <1>5 DEF SettingsInv

(* The effects that run when the settings have been read leave them settings. *)
LEMMA EffectsShape ==
    ASSUME SettingsInv, NEW s, Keyed(s), Effects(s)
    PROVE  SettingsShape' /\ Ready'
<1>1. /\ UNCHANGED <<row, version, wish>> /\ SetAll(s, [tabs |-> Snapshot(tabs)])
      /\ boot' = [st |-> "done", was |-> Defaults]
  BY DEF Effects
<1>2. Ready' /\ boot'.was = Defaults
  BY <1>1 DEF Ready
<1> DEFINE f == [tabs |-> Snapshot(tabs)]
<1>3. DOMAIN f = {"tabs"}
  OBVIOUS
<1>4. SetAll(s, f)
  BY <1>1
<1> HIDE DEF f
<1>5. /\ store' = [k \in Keys |-> store'[k]]
      /\ \A k \in Keys : store'[k] = IF k \in DOMAIN f THEN f[k] ELSE s[k]
      /\ \A w \in writes' : w \in writes \/ (w[1] \in DOMAIN f /\ w[2] = f[w[1]])
  BY <1>4, SetAllWrites
<1>6. store'["seen"] \in Nat
  BY <1>3, <1>5 DEF Keyed, Keys
<1>7. \A w \in writes' : w[1] \in Keys /\ (w[1] = "seen" => w[2] \in Nat)
  BY <1>3, <1>5 DEF SettingsInv, SettingsShape, Keys
<1> QED
  BY <1>1, <1>2, <1>5, <1>6, <1>7, DefaultsKeyed DEF SettingsInv, SettingsShape, Keyed

(* What they leave, when the store has taken s: the values of the table, or, if
   they could not be read, the defaults. *)
LEMMA EffectsKeep ==
    ASSUME SettingsInv, ~Ready, NEW s, Keyed(s), Effects(s),
           \/ unread' = unread /\ s = boot.was /\ boot.st = "read"
           \/ unread' = TRUE /\ s = store
    PROVE  SettingsInv'
<1> DEFINE f == [tabs |-> Snapshot(tabs)]
<1>1. /\ UNCHANGED <<row, version, tabs, wish, told, skipped>> /\ news' = "version"
      /\ SetAll(s, f) /\ emptied' = FALSE
      /\ boot' = [st |-> "done", was |-> Defaults]
  BY DEF Effects
<1>2. DOMAIN f = {"tabs"} /\ f["tabs"] = Snapshot(tabs)
  OBVIOUS
<1> HIDE DEF f
<1>3. SettingsShape' /\ Ready'
  BY EffectsShape
<1>4. /\ \A k \in Keys : store'[k] = IF k \in DOMAIN f THEN f[k] ELSE s[k]
      /\ \A w \in writes' : w \in writes \/ (w[1] \in DOMAIN f /\ w[2] = f[w[1]])
      /\ \A w \in writes : w \in writes'
      /\ \A k \in DOMAIN f : <<k, f[k]>> \in writes'
      /\ \A k \in DOMAIN f : k \notin lost' => ~Pending(k) /\ Ready'
      /\ \A k : k \notin DOMAIN f => (k \in lost' <=> k \in lost)
  BY <1>1, SetAllWrites
<1>5. ASSUME NEW k \in Keys, k # "tabs", k \notin lost'
      PROVE  /\ k \notin lost /\ ~Pending(k)'
             /\ row[k] = store'[k] \/ Unset(k)'
  <2>1. k \notin lost /\ k \notin DOMAIN f
    BY <1>2, <1>4, <1>5
  <2>2. /\ ~Pending(k) /\ store[k] = Defaults[k]
        /\ boot.st = "read" => boot.was[k] = row[k]
    BY <2>1 DEF SettingsInv, Untouched
  <2>3. store'[k] = s[k]
    BY <1>4, <2>1
  <2>4. ~Pending(k)'
    BY <1>4, <2>1, <2>2 DEF Pending
  <2> QED
    BY <2>1, <2>2, <2>3, <2>4 DEF Unset, Defaults
<1>6. InStep'
  <2> SUFFICES ASSUME NEW k \in Keys, k \notin lost'
               PROVE  /\ \A w \in writes' : w[1] = k => w[2] = store'[k]
                      /\ Pending(k)' \/ row[k] = store'[k] \/ Unset(k)'
    BY <1>1 DEF InStep
  <2>1. CASE k = "tabs"
    <3>1. \A w \in writes : w[1] # k
      BY <1>2, <1>4, <2>1 DEF Pending
    <3>2. <<k, f[k]>> \in writes' /\ <<k, f[k]>>[1] = k
      BY <1>2, <1>4, <2>1
    <3>3. Pending(k)'
      BY <3>2 DEF Pending
    <3> QED
      BY <1>2, <1>4, <2>1, <3>1, <3>3
  <2>2. CASE k # "tabs"
    BY <1>5, <2>2 DEF Pending
  <2> QED
    BY <2>1, <2>2
<1>7. Untouched'
  BY <1>3 DEF Untouched
<1>8. SnapshotKept'
  BY <1>1, <1>2, <1>4 DEF SnapshotKept, Keys
<1>9. Wished'
  <2> SUFFICES ASSUME NEW k \in {"auto", "close"}, k \notin lost', wish[k] # "unsaved"
               PROVE  /\ row[k] = wish[k] /\ ~Pending(k)'
                      /\ store'[k] = wish[k] \/ Unset(k)'
    BY <1>1 DEF Wished, Pending
  <2>1. k \in Keys /\ k # "tabs"
    BY DEF Keys
  <2>2. k \notin lost /\ ~Pending(k)' /\ (row[k] = store'[k] \/ Unset(k)')
    BY <1>5, <2>1
  <2>3. ~Pending(k)
    BY <2>1, <2>2 DEF SettingsInv, Untouched
  <2> QED
    BY <2>2, <2>3 DEF SettingsInv, Wished
<1>10. Told'
  <2>1. boot'.was["seen"] = 0 /\ UpTo(0) \subseteq Seen
    BY <1>1, DefaultsKeyed, NothingBeforeFirst
  <2>2. store'["seen"] = s["seen"]
    BY <1>2, <1>4 DEF Keys
  <2>3. \A w \in writes' : w[1] = "seen" => w \in writes
    BY <1>2, <1>4
  <2>4. UpTo(s["seen"]) \subseteq Seen
    BY DEF SettingsInv, Told
  <2>5. Seen' = Seen
    BY <1>1 DEF Seen
  <2> QED
    BY <1>1, <2>1, <2>2, <2>3, <2>4, <2>5 DEF SettingsInv, Told, UpTo
<1> QED
  BY <1>3, <1>6, <1>7, <1>8, <1>9, <1>10 DEF SettingsInv

(* The settings are there. *)
LEMMA HydrationDoneKeeps == SettingsInv /\ HydrationDone => SettingsInv'
BY EffectsKeep DEF HydrationDone, Ready, SettingsInv, SettingsShape

(* They could not be read. *)
LEMMA HydrationFailsKeeps == SettingsInv /\ HydrationFails => SettingsInv'
BY EffectsKeep DEF HydrationFails, Ready, SettingsInv, SettingsShape

(* The news of the running release are shown, or have been. *)
LEMMA NewsCheckKeeps == SettingsInv /\ NewsCheck => SettingsInv'
<1> SUFFICES ASSUME SettingsInv, NewsCheck PROVE SettingsInv'
  OBVIOUS
<1>1. UNCHANGED <<row, boot, version, tabs, wish, unread, emptied>>
  BY DEF NewsCheck
<1>2. /\ version \in Nat /\ store["seen"] \in Nat
      /\ wish' = [k \in {"auto", "close"} |-> wish'[k]]
  BY <1>1, NothingBeforeFirst DEF SettingsInv, SettingsShape, Keyed
<1>3. UpTo(store["seen"]) \subseteq Seen
  BY DEF SettingsInv, Told
<1> DEFINE f == [seen |-> version]
<1>4. DOMAIN f = {"seen"} /\ f["seen"] = version /\ DOMAIN f \subseteq Keys
  BY DEF Keys
<1>w. WhatsNewSince(store.seen) = {n \in UpTo(version) : n > store["seen"]}
  BY DEF WhatsNewSince
<1>5. \A n \in UpTo(version) : n \in UpTo(store["seen"]) \/ n \in WhatsNewSince(store.seen)
  BY <1>2, <1>w, LaunchAssumption DEF UpTo
<1>6. CASE store.seen = 0
  <2>1. SetAll(store, f) /\ news' = "none" /\ Seen' = Seen \cup UpTo(version)
    BY <1>6 DEF NewsCheck, Seen
  <2> HIDE DEF f
  <2> QED
    BY <1>1, <1>2, <1>4, <2>1, StoreKeeps
<1>7. CASE store.seen # 0 /\ store.seen # version /\ WhatsNewSince(store.seen) # {}
  <2>1. Seen' = Seen \cup WhatsNewSince(store.seen) /\ UNCHANGED <<store, writes, lost>>
    BY <1>7 DEF NewsCheck, Seen
  <2>2. UpTo(version) \subseteq Seen'
    BY <1>3, <1>5, <2>1
  <2> QED
    BY <1>1, <2>1, <2>2, QuietKeeps
<1>8. CASE store.seen # 0 /\ store.seen = version
  <2>1. news' = "none" /\ Seen' = Seen /\ UNCHANGED <<store, writes, lost>>
    BY <1>8 DEF NewsCheck, WhatsNewSince, UpTo, Seen
  <2> QED
    BY <1>1, <2>1, QuietKeeps
<1>9. CASE store.seen # 0 /\ store.seen # version /\ WhatsNewSince(store.seen) = {}
  <2>1. SetAll(store, f) /\ news' = "none" /\ Seen' = Seen
    BY <1>9 DEF NewsCheck, Seen
  <2>2. UpTo(version) \subseteq Seen'
    BY <1>3, <1>5, <1>9, <2>1
  <2> HIDE DEF f
  <2> QED
    BY <1>1, <1>2, <1>4, <2>1, <2>2, StoreKeeps
<1> QED
  BY <1>6, <1>7, <1>8, <1>9

(* The dialog with the news is closed. *)
LEMMA CloseWhatsNewKeeps == SettingsInv /\ CloseWhatsNew => SettingsInv'
<1> SUFFICES ASSUME SettingsInv, CloseWhatsNew PROVE SettingsInv'
  OBVIOUS
<1> DEFINE f == [seen |-> version]
<1>1. /\ UNCHANGED <<row, boot, version, tabs, wish, unread, emptied>> /\ Seen' = Seen
      /\ news = "shown" /\ news' = "none" /\ SetAll(store, f)
  BY DEF CloseWhatsNew, Seen
<1>2. version \in Nat /\ wish' = [k \in {"auto", "close"} |-> wish'[k]]
  BY <1>1, NothingBeforeFirst DEF SettingsInv, SettingsShape
<1>3. UpTo(version) \subseteq Seen
  BY <1>1 DEF SettingsInv, Told
<1>4. DOMAIN f = {"seen"} /\ f["seen"] = version /\ DOMAIN f \subseteq Keys
  BY DEF Keys
<1> HIDE DEF f
<1> QED
  BY <1>1, <1>2, <1>3, <1>4, StoreKeeps

(* The tabs become others, and the automatic restoring may be changed with them. *)
LEMMA TabsBecomeKeeps ==
    ASSUME SettingsInv, NEW t, NEW f, TabsBecome(t, f),
           row' = row, boot' = boot, version' = version, unread' = unread, Seen' = Seen,
           news' = news, DOMAIN f \subseteq {"auto"},
           wish' = [k \in {"auto", "close"} |-> wish'[k]],
           \A k \in {"auto", "close"} : wish'[k] = IF k \in DOMAIN f THEN f[k] ELSE wish[k]
    PROVE  SettingsInv'
<1>1. news' = "shown" => UpTo(version) \subseteq Seen'
  BY DEF SettingsInv, Told
<1>2. CASE Ready
  <2> DEFINE g == With(f, Snapshot(t))
  <2>1. SetAll(store, g)
    BY <1>2 DEF TabsBecome
  <2>2. /\ DOMAIN g = DOMAIN f \cup {"tabs"} /\ \A k \in DOMAIN f : g[k] = f[k]
        /\ g["tabs"] = Snapshot(t)
    BY DEF With
  <2>e. tabs' = t /\ emptied' = FALSE
    BY <1>2 DEF TabsBecome
  <2> HIDE DEF g
  <2>3. DOMAIN g \subseteq Keys /\ "seen" \notin DOMAIN g /\ "tabs" \in DOMAIN g
    BY <2>2 DEF Keys
  <2>4. \A k \in {"auto", "close"} : wish'[k] = IF k \in DOMAIN g THEN g[k] ELSE wish[k]
    BY <2>2
  <2>5. g["tabs"] = IF emptied' THEN <<>> ELSE Snapshot(tabs')
    BY <2>2, <2>e
  <2> QED
    BY <1>1, <2>1, <2>3, <2>4, <2>5, StoreKeeps
<1>3. CASE ~Ready
  <2>1. SetAll(store, f)
    BY <1>3 DEF TabsBecome
  <2>2. DOMAIN f \subseteq Keys /\ "seen" \notin DOMAIN f
    BY DEF Keys
  <2> QED
    BY <1>1, <1>3, <2>1, <2>2, StoreKeeps
<1> QED
  BY <1>2, <1>3

(* The snapshot is emptied. *)
LEMMA ForgottenKeeps ==
    ASSUME SettingsInv, NEW f, Forgotten(f),
           row' = row, boot' = boot, version' = version, unread' = unread, Seen' = Seen,
           news' = news, DOMAIN f \subseteq {"auto"},
           wish' = [k \in {"auto", "close"} |-> wish'[k]],
           \A k \in {"auto", "close"} : wish'[k] = IF k \in DOMAIN f THEN f[k] ELSE wish[k]
    PROVE  SettingsInv'
<1> DEFINE g == With(f, <<>>)
<1>1. news' = "shown" => UpTo(version) \subseteq Seen'
  BY DEF SettingsInv, Told
<1>2. SetAll(store, g) /\ tabs' = tabs /\ emptied' = TRUE
  BY DEF Forgotten
<1>3. /\ DOMAIN g = DOMAIN f \cup {"tabs"} /\ \A k \in DOMAIN f : g[k] = f[k]
      /\ g["tabs"] = <<>>
  BY DEF With
<1> HIDE DEF g
<1>4. DOMAIN g \subseteq Keys /\ "seen" \notin DOMAIN g
  BY <1>3 DEF Keys
<1>5. \A k \in {"auto", "close"} : wish'[k] = IF k \in DOMAIN g THEN g[k] ELSE wish[k]
  BY <1>3
<1> QED
  BY <1>1, <1>2, <1>3, <1>4, <1>5, StoreKeeps

(* The tabs change by themselves. *)
LEMMA TabsAloneKeeps ==
    ASSUME SettingsInv, NEW t, TabsBecome(t, <<>>),
           UNCHANGED <<row, boot, version, unread, told, skipped, news, wish>>
    PROVE  SettingsInv'
<1>1. DOMAIN << >> = {}
  OBVIOUS
<1>2. wish' = [k \in {"auto", "close"} |-> wish'[k]]
  BY DEF SettingsInv, SettingsShape
<1> DEFINE f == << >>
<1>3. DOMAIN f = {} /\ TabsBecome(t, f) /\ Seen' = Seen
  BY <1>1 DEF Seen
<1> HIDE DEF f
<1> QED
  BY <1>2, <1>3, TabsBecomeKeeps

(* What restoring does without asking. *)
LEMMA RestoreDecidedKeeps == SettingsInv /\ RestoreDecided => SettingsInv'
<1> SUFFICES ASSUME SettingsInv, RestoreDecided PROVE SettingsInv'
  OBVIOUS
<1>1. /\ UNCHANGED <<row, boot, version, news, wish, told, skipped, unread>> /\ Seen' = Seen
      /\ wish' = [k \in {"auto", "close"} |-> wish'[k]]
  BY DEF RestoreDecided, SettingsInv, SettingsShape, Seen
<1>2. CASE restore.auto = "yes"
  BY <1>1, <1>2, TabsAloneKeeps DEF RestoreDecided
<1>3. CASE restore.auto = "no"
  <2> DEFINE f == << >>
  <2>1. DOMAIN f = {} /\ Forgotten(f)
    BY <1>3 DEF RestoreDecided
  <2> HIDE DEF f
  <2> QED
    BY <1>1, <2>1, ForgottenKeeps
<1>4. CASE restore.auto # "yes" /\ restore.auto # "no"
  <2>1. UNCHANGED <<tabs, store, writes, lost, emptied>>
    BY <1>4 DEF RestoreDecided
  <2>2. news = "shown" => UpTo(version) \subseteq Seen
    BY DEF SettingsInv, Told
  <2> QED
    BY <1>1, <2>1, <2>2, QuietKeeps
<1> QED
  BY <1>2, <1>3, <1>4

(* The restore dialog is answered. *)
LEMMA PromptAnsweredKeeps ==
    ASSUME SettingsInv, NEW remember \in BOOLEAN, PromptAnswered(remember)
    PROVE  SettingsInv'
<1>1. /\ UNCHANGED <<row, boot, version, news, unread>> /\ Seen' = Seen
      /\ wish = [k \in {"auto", "close"} |-> wish[k]]
  BY DEF PromptAnswered, SettingsInv, SettingsShape, Seen
<1>2. CASE ~remember
  <2> DEFINE f == << >>
  <2>1. DOMAIN f = {} /\ wish' = wish
    BY <1>2 DEF PromptAnswered
  <2>2. TabsBecome(Restored(store.tabs, known), f) \/ Forgotten(f)
    BY <1>2 DEF PromptAnswered
  <2> HIDE DEF f
  <2> QED
    BY <1>1, <2>1, <2>2, TabsBecomeKeeps, ForgottenKeeps
<1>3. ASSUME NEW v \in {"yes", "no"}, remember, wish' = [wish EXCEPT !.auto = v],
             TabsBecome(Restored(store.tabs, known), [auto |-> v]) \/ Forgotten([auto |-> v])
      PROVE  SettingsInv'
  <2> DEFINE f == [auto |-> v]
  <2>1. DOMAIN f = {"auto"} /\ f["auto"] = v
    OBVIOUS
  <2>2. TabsBecome(Restored(store.tabs, known), f) \/ Forgotten(f)
    BY <1>3
  <2> HIDE DEF f
  <2>3. /\ wish' = [k \in {"auto", "close"} |-> wish'[k]]
        /\ \A k \in {"auto", "close"} : wish'[k] = IF k \in DOMAIN f THEN f[k] ELSE wish[k]
    BY <1>1, <1>3, <2>1
  <2> QED
    BY <1>1, <2>1, <2>2, <2>3, TabsBecomeKeeps, ForgottenKeeps
<1> QED
  BY <1>2, <1>3 DEF PromptAnswered

(* A choice is made, for the key k. *)
LEMMA ChoiceKeeps ==
    ASSUME SettingsInv, NEW f, NEW k \in {"auto", "close"}, NEW v, DOMAIN f = {k}, f[k] = v,
           SetAll(store, f), wish' = [wish EXCEPT ![k] = v],
           UNCHANGED <<row, boot, version, tabs, news, unread, emptied>>, Seen' = Seen
    PROVE  SettingsInv'
<1>1. wish = [x \in {"auto", "close"} |-> wish[x]]
  BY DEF SettingsInv, SettingsShape
<1>2. /\ wish' = [x \in {"auto", "close"} |-> wish'[x]]
      /\ \A x \in {"auto", "close"} : wish'[x] = IF x \in DOMAIN f THEN f[x] ELSE wish[x]
  BY <1>1
<1>3. news' = "shown" => UpTo(version) \subseteq Seen'
  BY DEF SettingsInv, Told
<1>4. DOMAIN f \subseteq Keys /\ "seen" \notin DOMAIN f /\ "tabs" \notin DOMAIN f
  BY DEF Keys
<1> QED
  BY <1>2, <1>3, <1>4, StoreKeeps

(* In the settings ... *)
LEMMA ConfigureKeeps == ASSUME SettingsInv, NEW k \in {"auto", "close"}, NEW v, Configure(k, v)
                        PROVE  SettingsInv'
<1> DEFINE f == [x \in {k} |-> v]
<1>1. DOMAIN f = {k} /\ f[k] = v
  OBVIOUS
<1>2. /\ SetAll(store, f) /\ wish' = [wish EXCEPT ![k] = v]
      /\ UNCHANGED <<row, boot, version, tabs, news, unread, emptied>> /\ Seen' = Seen
  BY DEF Configure, Seen
<1> HIDE DEF f
<1> QED
  BY <1>1, <1>2, ChoiceKeeps

(* ... and in the dialog of the window's cross. *)
LEMMA CloseChosenKeeps ==
    ASSUME SettingsInv, NEW action, NEW remember \in BOOLEAN, CloseChosen(action, remember)
    PROVE  SettingsInv'
<1>1. UNCHANGED <<row, boot, version, tabs, news, unread, emptied>> /\ Seen' = Seen
  BY DEF CloseChosen, Seen
<1>2. CASE remember
  <2> DEFINE f == [close |-> action]
  <2>1. DOMAIN f = {"close"} /\ f["close"] = action
    OBVIOUS
  <2>2. SetAll(store, f) /\ wish' = [wish EXCEPT !["close"] = action]
    BY <1>2 DEF CloseChosen
  <2> HIDE DEF f
  <2> QED
    BY <1>1, <2>1, <2>2, ChoiceKeeps
<1>3. CASE ~remember
  <2>1. UNCHANGED <<store, writes, lost, wish>>
    BY <1>3 DEF CloseChosen
  <2>2. news = "shown" => UpTo(version) \subseteq Seen
    BY DEF SettingsInv, Told
  <2> QED
    BY <1>1, <2>1, <2>2, QuietKeeps
<1> QED
  BY <1>2, <1>3

(* The process ends and starts again: what is remembered is what the rows hold. *)
LEMMA RestartedKeeps == SettingsInv /\ Restarted => SettingsInv'
<1> SUFFICES ASSUME SettingsInv, Restarted PROVE SettingsInv'
  OBVIOUS
<1>1. /\ UNCHANGED <<row, told, skipped>> /\ store' = Defaults /\ writes' = {}
      /\ boot' = [st |-> "asked", was |-> Defaults] /\ version' \in VERSIONS /\ news' = "none"
      /\ lost' = {} /\ unread' = FALSE
      /\ wish' = [k \in {"auto", "close"} |-> IF k \in lost \/ Pending(k) THEN "unsaved" ELSE wish[k]]
  BY DEF Restarted, Starts
<1>2. ~Ready' /\ boot'.st = "asked" /\ boot'.was = Defaults
  BY <1>1 DEF Ready
<1>3. SettingsShape'
  BY <1>1, <1>2, DefaultsKeyed DEF SettingsInv, SettingsShape
<1>4. InStep' /\ SnapshotKept' /\ Untouched'
  BY <1>1, <1>2 DEF InStep, SnapshotKept, Untouched, Pending, Defaults
<1>5. Wished'
  <2> SUFFICES ASSUME NEW k \in {"auto", "close"}, wish'[k] # "unsaved"
               PROVE  row[k] = wish'[k]
    BY <1>1, <1>2 DEF Wished
  <2>1. k \notin lost /\ ~Pending(k) /\ wish'[k] = wish[k]
    BY <1>1
  <2> QED
    BY <2>1 DEF SettingsInv, Wished
<1>6. Told'
  <2>1. store'["seen"] = 0 /\ boot'.was["seen"] = 0 /\ UpTo(0) = {}
    BY <1>1, <1>2, DefaultsKeyed, NothingBeforeFirst
  <2>2. UpTo(row["seen"]) \subseteq Seen
    BY DEF SettingsInv, Told
  <2>3. (UpTo(row["seen"]) \subseteq Seen)'
    BY <1>1, <2>2 DEF UpTo, Seen
  <2>4. UpTo(0)' = {}
    BY <2>1 DEF UpTo
  <2> QED
    BY <1>1, <2>1, <2>3, <2>4 DEF Told, UpTo
<1> QED
  BY <1>3, <1>4, <1>5, <1>6 DEF SettingsInv

(* The invariant holds at the first start. *)
LEMMA SettingsInitInv == LaunchInit => SettingsInv
<1> SUFFICES ASSUME LaunchInit PROVE SettingsInv
  OBVIOUS
<1>1. /\ store = Defaults /\ writes = {} /\ boot = [st |-> "asked", was |-> Defaults]
      /\ version \in VERSIONS /\ news = "none" /\ told = UpTo(row["seen"]) /\ lost = {}
      /\ ~unread
      /\ row \in [tabs : Snapshots, auto : Autos, close : {"ask"}, seen : {0} \cup VERSIONS]
      /\ wish = [auto |-> row.auto, close |-> row.close]
  BY DEF LaunchInit
<1>2. Keyed(row) /\ wish = [k \in {"auto", "close"} |-> wish[k]]
  <2>1. row = [k \in Keys |-> row[k]]
    BY <1>1 DEF Keys
  <2>2. row["seen"] \in Nat
    <3>1. row["seen"] \in {0} \cup VERSIONS
      BY <1>1
    <3> QED
      BY <3>1, NothingBeforeFirst
  <2>3. wish = [k \in {"auto", "close"} |-> wish[k]]
    BY <1>1
  <2> QED
    BY <2>1, <2>2, <2>3 DEF Keyed
<1>3. boot.st = "asked" /\ boot.was = Defaults /\ ~Ready
  BY <1>1 DEF Ready
<1>4. SettingsShape
  BY <1>1, <1>2, <1>3, DefaultsKeyed DEF SettingsShape
<1>5. InStep /\ Untouched /\ SnapshotKept
  BY <1>1, <1>3 DEF InStep, Untouched, SnapshotKept, Pending
<1>6. Wished
  BY <1>1, <1>3 DEF Wished
<1>7. Told
  BY <1>1, <1>3, DefaultsKeyed, NothingBeforeFirst DEF Told, Seen
<1> QED
  BY <1>4, <1>5, <1>6, <1>7 DEF SettingsInv

(* Every step keeps the invariant. *)
LEMMA SettingsStepInv == SettingsInv /\ [LaunchNext]_launchVars => SettingsInv'
<1> SUFFICES ASSUME SettingsInv, [LaunchNext]_launchVars PROVE SettingsInv'
  OBVIOUS
<1>n. news = "shown" => UpTo(version) \subseteq Seen
  BY DEF SettingsInv, Told
<1>1. CASE UNCHANGED launchVars
  BY <1>1, <1>n, QuietKeeps DEF launchVars, Seen
<1>2. ASSUME NEW w \in writes, WriteRuns(w) \/ WriteFails(w) PROVE SettingsInv'
  BY <1>2, WriteRunsKeeps, WriteFailsKeeps
<1>3. CASE SettingsAreRead \/ HydrationDone \/ HydrationFails \/ NewsCheck \/ CloseWhatsNew
           \/ RestoreDecided \/ Restarted
  BY <1>3, SettingsAreReadKeeps, HydrationDoneKeeps, HydrationFailsKeeps, NewsCheckKeeps,
     CloseWhatsNewKeeps, RestoreDecidedKeeps, RestartedKeeps
<1>4. CASE HostsAnswer
  BY <1>4, <1>n, QuietKeeps DEF HostsAnswer, histories, Seen
<1>5. CASE CloseRequested
  BY <1>5, <1>n, QuietKeeps DEF CloseRequested, histories, Seen
<1>6. CASE CloseCancelled
  BY <1>6, <1>n, QuietKeeps DEF CloseCancelled, histories, Seen
<1>7. ASSUME NEW x, OpenTab_(x) PROVE SettingsInv'
  BY <1>7, TabsAloneKeeps DEF OpenTab_
<1>8. ASSUME NEW i, CloseTab_(i) PROVE SettingsInv'
  BY <1>8, TabsAloneKeeps DEF CloseTab_
<1>9. CASE ReopenTab
  BY <1>9, TabsAloneKeeps DEF ReopenTab
<1>10. ASSUME NEW remember \in BOOLEAN, PromptAnswered(remember) PROVE SettingsInv'
  BY <1>10, PromptAnsweredKeeps
<1>11. ASSUME NEW k \in {"auto", "close"}, NEW v, Configure(k, v) PROVE SettingsInv'
  BY <1>11, ConfigureKeeps
<1>12. ASSUME NEW action, NEW remember \in BOOLEAN, CloseChosen(action, remember) PROVE SettingsInv'
  BY <1>12, CloseChosenKeeps
<1> QED
  BY <1>1, <1>2, <1>3, <1>4, <1>5, <1>6, <1>7, <1>8, <1>9, <1>10, <1>11, <1>12 DEF LaunchNext

----------------------------------------------------------------------------
(* Launch: theorems *)

(* The invariant holds in every state of every behaviour. *)
THEOREM SettingsInvariant == LaunchSpec => []SettingsInv
BY SettingsInitInv, SettingsStepInv, PTL DEF LaunchSpec

(* A crash at rest loses no setting and no tab: the table holds what the store
   holds, except a key whose command was lost, overtaken or early, or a default
   left by a failed read; and the snapshot holds the open tabs, or nothing since
   restoring was declined. *)
THEOREM SettingsAlwaysSurvive == LaunchSpec => []SettingsSurvive
<1>1. SettingsInv => SettingsSurvive
  BY DEF SettingsInv, InStep, SnapshotKept, SettingsSurvive, Unset
<1> QED
  BY <1>1, SettingsInvariant, PTL

(* A choice the user asked to remember outlives every restart, if its command ran. *)
THEOREM ChoicesAlwaysKept == LaunchSpec => []ChoicesKept
<1>1. SettingsInv => ChoicesKept
  BY DEF SettingsInv, Wished, ChoicesKept, Unset
<1> QED
  BY <1>1, SettingsInvariant, PTL

(* No release is recorded as seen before its news have been shown, except by a
   start that took itself for a first run. *)
THEOREM NewsAlwaysShown == LaunchSpec => []NewsNotSkipped
<1>1. SettingsInv => NewsNotSkipped
  BY DEF SettingsInv, Told, NewsNotSkipped, Seen
<1> QED
  BY <1>1, SettingsInvariant, PTL

Scopes == {PaneHost(p) : p \in PANES} \cup {Anywhere}
Keystrokes == {"text"} \cup Controls

Jobs == [st : {"free", "asked", "written", "done"},
         op : {"none", "send", "extract", "render", "list", "clear"},
         snip : SNIPPETS \cup {None}, pane : PANES \cup {None}, key : Keystrokes, text : Lines,
         ret : BOOLEAN, scope : Scopes, found : SUBSET Lines, asked : BOOLEAN]

(* What the fields of a job say about one another. *)
JobStages(c) ==
    /\ c.st = "free" => c.op = "none"
    /\ c.st = "written" => c.op = "send"
    /\ c.op = "send" => c.pane \in PANES
    /\ c.op \in {"extract", "render"} => c.snip \in SNIPPETS

JobShape == job \in [JOBS -> Jobs] /\ \A j \in JOBS : JobStages(job[j])

DataShape ==
    /\ leaves \subseteq PANES /\ live \subseteq PANES /\ stray \subseteq PANES
    /\ front \in Tabs \cup {None} /\ focus \in PANES \cup {None}
    /\ vars \in Custom \cup {None} /\ hist \in BOOLEAN /\ listed \subseteq Lines
    /\ rows \subseteq Scopes \X Lines /\ ran \subseteq Scopes \X Lines
    /\ guessed \subseteq Scopes \X Lines
    /\ line \in [PANES -> Lines] /\ draft \in [PANES -> Lines]

CmdShape == JobShape /\ DataShape

(* Of a pane that has not gone astray, the capture buffer is what the shell has
   received, but for the one write that it has not been fed with. *)
Follows(p) ==
    p \notin stray =>
        /\ InFlight(p) = {} => draft[p] = line[p]
        /\ \A j, k \in InFlight(p) : j = k
        /\ \A j \in InFlight(p) :
              /\ line[p] = Fed(draft[p], job[j])
              /\ job[j].ret => <<PaneHost(p), Trim(draft[p] \o job[j].text)>> \in ran

Handed(j) == <<PaneHost(job[j].pane), Trim(job[j].text)>> \in ran \cup guessed

Captured ==
    /\ rows \subseteq ran \cup guessed
    /\ \A p \in PANES : Follows(p)
    /\ \A j \in JOBS : job[j].st = "done" /\ job[j].op = "send" => Handed(j)

----------------------------------------------------------------------------
(* Lemmas about the operators *)

(* The order of the naturals is a well-founded relation. *)
LEMMA OrderIsWellFounded ==
    \E R : IsWellFoundedOn(R, Nat) /\ \A x, y \in Nat : <<x, y>> \in R <=> x < y
<1>1. \A x, y \in Nat : <<x, y>> \in OpToRel(<, Nat) <=> x < y
  BY DEF OpToRel
<1> WITNESS OpToRel(<, Nat)
<1> QED
  BY <1>1, NatLessThanWellFounded, Zenon

(* Of some numbers one is the least. *)
LEMMA LeastNumber ==
    ASSUME NEW nums, nums \subseteq Nat, nums # {}
    PROVE  \E p \in nums : \A q \in nums : p <= q
<1>1. PICK R : IsWellFoundedOn(R, Nat) /\ \A x, y \in Nat : <<x, y>> \in R <=> x < y
  BY OrderIsWellFounded
<1>2. IsWellFoundedOn(R, Nat)
  BY <1>1
<1>3. \E p \in nums : \A q \in nums : ~(<<q, p>> \in R)
  BY <1>2, WFMin
<1>4. PICK p \in nums : \A q \in nums : ~(<<q, p>> \in R)
  BY <1>3
<1>5. ASSUME NEW q \in nums PROVE p <= q
  <2>1. p \in Nat /\ q \in Nat
    OBVIOUS
  <2>2. ~(q < p)
    BY <1>1, <1>4, <2>1, Zenon
  <2> QED
    BY <2>1, <2>2
<1> QED
  BY <1>5

(* Of some numbers up to n one is the greatest. *)
LEMMA GreatestNumber ==
    ASSUME NEW n \in Nat, NEW nums, nums \subseteq 1..n, nums # {}
    PROVE  \E p \in nums : \A q \in nums : q <= p
<1> DEFINE below == {n - i : i \in nums}
<1>0. \A i \in nums : i \in 1..n /\ n - i \in Nat
  OBVIOUS
<1>1. below \subseteq Nat /\ below # {}
  BY <1>0
<1>2. PICK m \in below : \A k \in below : m <= k
  BY <1>1, LeastNumber
<1>3. PICK p \in nums : m = n - p
  OBVIOUS
<1>4. ASSUME NEW q \in nums PROVE q <= p
  <2>1. n - q \in below /\ p \in 1..n /\ q \in 1..n
    OBVIOUS
  <2>2. n - p <= n - q
    BY <1>2, <1>3, <2>1
  <2> QED
    BY <2>1, <2>2
<1> QED
  BY <1>4

(* The active terminal is a pane of the tab in front, if there is one. *)
LEMMA ActiveIsLeaf ==
    ASSUME DataShape, ActiveTerminal # None
    PROVE  ActiveTerminal \in leaves /\ TabOf(ActiveTerminal) = front
<1> DEFINE candidates == {p \in leaves : TabOf(p) = front}
<1>1. candidates # {} /\ candidates \subseteq Nat
  BY CommandsAssumption DEF ActiveTerminal, DataShape
<1>2. \E p \in candidates : \A q \in candidates : p <= q
  BY <1>1, LeastNumber
<1>3. ActiveTerminal = IF focus \in candidates THEN focus
                       ELSE CHOOSE p \in candidates : \A q \in candidates : p <= q
  BY <1>1 DEF ActiveTerminal
<1>4. ActiveTerminal \in candidates
  BY <1>2, <1>3
<1> QED
  BY <1>4

(* The scope of the history dialog is a host that is known. *)
LEMMA ScopeIsKnown == DataShape => Scope \in Scopes /\ ActiveTerminal \in PANES \cup {None}
BY ActiveIsLeaf DEF Scope, Scopes, DataShape

(* Lines are made of characters. *)
LEMMA LinesOfChunks ==
    /\ <<>> \in Lines /\ <<KEY>> \in Lines /\ <<Blank>> \in Lines
    /\ \A s \in SNIPPETS : <<s>> \in Lines
    /\ \A a, b \in Lines : a \o b \in Lines
BY DEF Lines

(* Backspace leaves a line. *)
LEMMA ShorterIsLine == ASSUME NEW t \in Lines PROVE Shorter(t) \in Lines
<1>1. CASE t = <<>>
  BY <1>1, LinesOfChunks DEF Shorter
<1>2. CASE t # <<>>
  <2>1. t \in Seq(SNIPPETS \cup {KEY, Blank}) /\ Len(t) \in Nat /\ Len(t) > 0
    BY <1>2 DEF Lines
  <2>2. SubSeq(t, 1, Len(t) - 1) \in Seq(SNIPPETS \cup {KEY, Blank})
    BY <2>1
  <2> QED
    BY <1>2, <2>2 DEF Shorter, Lines
<1> QED
  BY <1>1, <1>2

(* So does trimming. *)
LEMMA TrimIsLine == ASSUME NEW t \in Lines PROVE Trim(t) \in Lines
<1> DEFINE ink == {i \in 1..Len(t) : t[i] # Blank}
           first == CHOOSE i \in ink : \A k \in ink : i <= k
           last == CHOOSE i \in ink : \A k \in ink : k <= i
<1>1. CASE ink = {}
  BY <1>1, LinesOfChunks DEF Trim
<1>2. CASE ink # {}
  <2>1. t \in Seq(SNIPPETS \cup {KEY, Blank}) /\ Len(t) \in Nat
    BY DEF Lines
  <2>2. ink \subseteq Nat /\ ink \subseteq 1..Len(t)
    BY <2>1
  <2>3. first \in ink
    <3>1. \E i \in ink : \A k \in ink : i <= k
      BY <1>2, <2>2, LeastNumber
    <3> QED
      BY <3>1
  <2>4. last \in ink
    <3>1. \E i \in ink : \A k \in ink : k <= i
      BY <1>2, <2>1, <2>2, GreatestNumber
    <3> QED
      BY <3>1
  <2>5. Trim(t) = SubSeq(t, first, last)
    BY <1>2 DEF Trim
  <2>6. first \in 1..Len(t) /\ last \in 1..Len(t)
    BY <2>3, <2>4
  <2> HIDE DEF first, last
  <2>7. SubSeq(t, first, last) \in Seq(SNIPPETS \cup {KEY, Blank})
    BY <2>1, <2>6
  <2> QED
    BY <2>5, <2>7 DEF Lines
<1> QED
  BY <1>1, <1>2

(* What a keystroke makes of a line or of a buffer is a line. *)
LEMMA KeystrokeMakesLines ==
    ASSUME NEW t \in Lines, NEW c, c.text \in Lines, NEW past, past \subseteq Lines
    PROVE  Fed(t, c) \in Lines /\ ShellLines(t, c, past) \subseteq Lines
<1>1. Shorter(t) \in Lines /\ <<>> \in Lines /\ t \o c.text \in Lines /\ t \o <<KEY>> \in Lines
  BY ShorterIsLine, LinesOfChunks
<1> QED
  BY <1>1 DEF Fed, ShellLines

(* The shell and the buffer make the same of a line, an edit of the shell's and
   Ctrl-D after something apart. *)
LEMMA SameEffect ==
    ASSUME NEW t, NEW c, c.key \in Keystrokes, NEW past, NEW u \in ShellLines(t, c, past),
           c.key # "other", c.key = "end" => t = <<>>
    PROVE  u = Fed(t, c)
BY DEF ShellLines, Fed, Keystrokes, Controls

(* What is started is a job. *)
LEMMA FreeIsJob == FreeJob \in Jobs /\ JobStages(FreeJob)
BY LinesOfChunks DEF FreeJob, Jobs, JobStages, Scopes, Keystrokes

(* A write to a terminal is a job. *)
LEMMA SendIsJob ==
    ASSUME NEW p \in PANES, NEW key \in Keystrokes, NEW text \in Lines, NEW ret \in BOOLEAN
    PROVE  Send(p, key, text, ret) \in Jobs /\ JobStages(Send(p, key, text, ret))
BY DEF Send, FreeJob, Jobs, JobStages, Scopes

(* So is the rendering of a snippet. *)
LEMMA RenderingIsJob ==
    ASSUME NEW s \in SNIPPETS, NEW ret \in BOOLEAN
    PROVE  Rendering(s, ret) \in Jobs /\ JobStages(Rendering(s, ret))
BY LinesOfChunks DEF Rendering, FreeJob, Jobs, JobStages, Scopes, Keystrokes

(* A job moves on as a job. *)
LEMMA JobMovesOn ==
    ASSUME NEW c \in Jobs, JobStages(c)
    PROVE  /\ c.op = "send" => [c EXCEPT !.st = "written"] \in Jobs /\ JobStages([c EXCEPT !.st = "written"])
           /\ \A text \in Lines : /\ [c EXCEPT !.st = "done", !.text = text] \in Jobs
                                  /\ JobStages([c EXCEPT !.st = "done", !.text = text])
           /\ \A found \in SUBSET Lines : /\ [c EXCEPT !.st = "done", !.found = found] \in Jobs
                                          /\ JobStages([c EXCEPT !.st = "done", !.found = found])
           /\ [c EXCEPT !.st = "done"] \in Jobs /\ JobStages([c EXCEPT !.st = "done"])
<1> USE DEF Jobs, JobStages
<1>1. c.op = "send" => [c EXCEPT !.st = "written"] \in Jobs /\ JobStages([c EXCEPT !.st = "written"])
  OBVIOUS
<1>2. ASSUME NEW text \in Lines
      PROVE  /\ [c EXCEPT !.st = "done", !.text = text] \in Jobs
             /\ JobStages([c EXCEPT !.st = "done", !.text = text])
  OBVIOUS
<1>3. ASSUME NEW found \in SUBSET Lines
      PROVE  /\ [c EXCEPT !.st = "done", !.found = found] \in Jobs
             /\ JobStages([c EXCEPT !.st = "done", !.found = found])
  OBVIOUS
<1>4. [c EXCEPT !.st = "done"] \in Jobs /\ JobStages([c EXCEPT !.st = "done"])
  OBVIOUS
<1> HIDE DEF Jobs, JobStages
<1> QED
  BY <1>1, <1>2, <1>3, <1>4

(* The shape holds at first. *)
LEMMA ShapeInit == CmdInit => CmdShape
BY FreeIsJob, LinesOfChunks DEF CmdInit, CmdShape, JobShape, DataShape, Tabs, Scopes

(* A job that moves on keeps the shape of all. *)
LEMMA OneKeepsShape ==
    ASSUME JobShape, NEW j \in JOBS, NEW c \in Jobs, JobStages(c), job' = [job EXCEPT ![j] = c]
    PROVE  JobShape'
BY DEF JobShape

(* So does one that starts. *)
LEMMA StartKeepsShape ==
    ASSUME JobShape, NEW c \in Jobs, JobStages(c), Start(c)
    PROVE  JobShape'
<1>1. PICK j \in JOBS : job' = [job EXCEPT ![j] = c]
  BY DEF Start
<1> QED
  BY <1>1, OneKeepsShape

(* Every step keeps the shape of the jobs. *)
LEMMA JobShapeStep == CmdShape /\ [CmdNext]_cmdVars => JobShape'
<1> SUFFICES ASSUME JobShape, DataShape, [CmdNext]_cmdVars PROVE JobShape'
  BY DEF CmdShape
<1>1. UNCHANGED job => JobShape'
  BY DEF JobShape
<1>2. ASSUME NEW p \in PANES,
            FocusPane(p) \/ PaneEnds(p) \/ PaneGoes(p) \/ PaneComes(p) \/ CloseForgets(p)
      PROVE  JobShape'
  BY <1>1, <1>2 DEF FocusPane, PaneEnds, PaneGoes, PaneComes, CloseForgets
<1>3. ASSUME NEW t \in Tabs \cup {None}, ActivateTab(t) PROVE JobShape'
  BY <1>1, <1>3 DEF ActivateTab
<1>4. ASSUME NEW p \in PANES, NEW key \in {"text"} \cup Controls,
            NEW text \in {<<>>, <<KEY>>, <<Blank>>}, NEW ret \in BOOLEAN, TypeKey(p, key, text, ret)
      PROVE  JobShape'
  <2>1. Send(p, key, text, ret) \in Jobs /\ JobStages(Send(p, key, text, ret))
    BY LinesOfChunks, SendIsJob DEF Keystrokes
  <2> QED
    BY <1>4, <2>1, StartKeepsShape DEF TypeKey
<1>5. ASSUME NEW s \in SNIPPETS, RunSnippet(s) PROVE JobShape'
  <2> DEFINE c == [FreeJob EXCEPT !.st = "asked", !.op = "extract", !.snip = s]
  <2>1. c \in Jobs /\ JobStages(c)
    BY LinesOfChunks DEF FreeJob, Jobs, JobStages, Scopes, Keystrokes
  <2>2. Start(c)
    BY <1>5 DEF RunSnippet
  <2> HIDE DEF c
  <2> QED
    BY <2>1, <2>2, StartKeepsShape
<1>6. CASE ConfirmVars
  <2>1. Rendering(vars, TRUE) \in Jobs /\ JobStages(Rendering(vars, TRUE))
    BY <1>6, RenderingIsJob, CommandsAssumption DEF ConfirmVars, DataShape
  <2> QED
    BY <1>6, <2>1, StartKeepsShape DEF ConfirmVars
<1>7. CASE DismissVars \/ CloseHistory
  BY <1>1, <1>7 DEF DismissVars, CloseHistory
<1>8. CASE OpenHistory
  <2> DEFINE c == [FreeJob EXCEPT !.st = "asked", !.op = "list", !.scope = Scope]
  <2>1. c \in Jobs /\ JobStages(c)
    BY ScopeIsKnown, LinesOfChunks DEF FreeJob, Jobs, JobStages, Scopes, Keystrokes
  <2>2. Start(c)
    BY <1>8 DEF OpenHistory
  <2> HIDE DEF c
  <2> QED
    BY <2>1, <2>2, StartKeepsShape
<1>9. CASE ClearHistory
  <2> DEFINE c == [FreeJob EXCEPT !.st = "asked", !.op = "clear", !.scope = Scope]
  <2>1. c \in Jobs /\ JobStages(c)
    BY ScopeIsKnown, LinesOfChunks DEF FreeJob, Jobs, JobStages, Scopes, Keystrokes
  <2>2. Start(c)
    BY <1>9 DEF ClearHistory
  <2> HIDE DEF c
  <2> QED
    BY <2>1, <2>2, StartKeepsShape
<1>10. ASSUME NEW text \in listed, ChooseLine(text) PROVE JobShape'
  <2>1. ActiveTerminal \in PANES /\ text \in Lines
    BY <1>10, ActiveIsLeaf DEF ChooseLine, DataShape
  <2>2. Send(ActiveTerminal, "text", text, FALSE) \in Jobs
        /\ JobStages(Send(ActiveTerminal, "text", text, FALSE))
    BY <2>1, SendIsJob DEF Keystrokes
  <2> QED
    BY <1>10, <2>2, StartKeepsShape DEF ChooseLine
<1>11. ASSUME NEW j \in JOBS, SendWrites(j) PROVE JobShape'
  <2>1. job[j] \in Jobs /\ JobStages(job[j]) /\ job[j].op = "send"
    BY <1>11 DEF JobShape, SendWrites
  <2> QED
    BY <1>11, <2>1, JobMovesOn, OneKeepsShape DEF SendWrites
<1>12. ASSUME NEW j \in JOBS, SendFeeds(j) PROVE JobShape'
  <2>1. job[j] \in Jobs /\ JobStages(job[j])
    BY DEF JobShape
  <2> DEFINE whole == draft[job[j].pane] \o job[j].text
  <2>2. job[j].pane \in PANES /\ job[j].text \in Lines
    BY <1>12, <2>1 DEF SendFeeds, Jobs, JobStages
  <2>3. whole \in Lines
    BY <2>2, LinesOfChunks DEF DataShape
  <2>4. job' = [job EXCEPT ![j] = [job[j] EXCEPT !.st = "done", !.text = whole]]
        \/ job' = [job EXCEPT ![j] = FreeJob]
    BY <1>12 DEF SendFeeds, HandsOver
  <2> QED
    BY <2>1, <2>3, <2>4, JobMovesOn, FreeIsJob, OneKeepsShape
<1>13. ASSUME NEW j \in JOBS, Recorded(j) \/ CommandFails(j) \/ Listed(j) PROVE JobShape'
  BY <1>13, FreeIsJob, OneKeepsShape DEF Recorded, CommandFails, Listed
<1>14. ASSUME NEW j \in JOBS, Extracted(j) PROVE JobShape'
  <2>1. job[j] \in Jobs /\ JobStages(job[j])
    BY DEF JobShape
  <2>2. Rendering(job[j].snip, FALSE) \in Jobs /\ JobStages(Rendering(job[j].snip, FALSE))
    BY <1>14, <2>1, RenderingIsJob DEF Extracted, JobStages
  <2> QED
    BY <1>14, <2>2, FreeIsJob, OneKeepsShape DEF Extracted
<1>15. ASSUME NEW j \in JOBS, Rendered(j) PROVE JobShape'
  <2>1. job[j] \in Jobs /\ JobStages(job[j])
    BY DEF JobShape
  <2> DEFINE c == Send(ActiveTerminal, "text", <<job[j].snip>>, TRUE)
  <2>2. ActiveTerminal # None => c \in Jobs /\ JobStages(c)
    BY <1>15, <2>1, ActiveIsLeaf, SendIsJob, LinesOfChunks DEF Rendered, JobStages, DataShape, Keystrokes
  <2> HIDE DEF c
  <2>3. IF ActiveTerminal = None THEN job' = [job EXCEPT ![j] = FreeJob] ELSE job' = [job EXCEPT ![j] = c]
    BY <1>15 DEF Rendered, c
  <2> QED
    BY <2>2, <2>3, FreeIsJob, OneKeepsShape
<1>16. ASSUME NEW j \in JOBS, ListRuns(j) PROVE JobShape'
  <2>1. job[j] \in Jobs /\ JobStages(job[j])
    BY DEF JobShape
  <2>2. Recent(job[j].scope) \in SUBSET Lines
    BY DEF Recent, DataShape
  <2>3. job' = [job EXCEPT ![j] = [job[j] EXCEPT !.st = "done", !.found = Recent(job[j].scope)]]
    BY <1>16 DEF ListRuns
  <2> QED
    BY <2>1, <2>2, <2>3, JobMovesOn, OneKeepsShape
<1>17. ASSUME NEW j \in JOBS, ClearRuns(j) PROVE JobShape'
  <2>1. job[j] \in Jobs /\ JobStages(job[j])
    BY DEF JobShape
  <2>2. job' = [job EXCEPT ![j] = [job[j] EXCEPT !.st = "done"]]
    BY <1>17 DEF ClearRuns
  <2> QED
    BY <2>1, <2>2, JobMovesOn, OneKeepsShape
<1>18. CASE UNCHANGED cmdVars
  BY <1>1, <1>18 DEF cmdVars
<1> QED
  BY <1>2, <1>3, <1>4, <1>5, <1>6, <1>7, <1>8, <1>9, <1>10, <1>11, <1>12, <1>13, <1>14,
     <1>15, <1>16, <1>17, <1>18 DEF CmdNext

(* What a job holds, by field. *)
LEMMA JobFields ==
    ASSUME JobShape, NEW j \in JOBS
    PROVE  /\ job[j].text \in Lines /\ job[j].found \subseteq Lines /\ job[j].scope \in Scopes
           /\ job[j].snip \in SNIPPETS \cup {None} /\ job[j].ret \in BOOLEAN
           /\ job[j].key \in Keystrokes
           /\ job[j].st \in {"written"} => job[j].op = "send"
           /\ job[j].op = "send" => job[j].pane \in PANES
BY DEF JobShape, Jobs, JobStages

(* Steps of the panes keep the shape of the rest. *)
LEMMA TerminalsKeepShape ==
    ASSUME DataShape, NEW shown, NEW open, NEW tab, NEW pane, Terminals(shown, open, tab, pane),
           shown \subseteq PANES, open \subseteq PANES, tab \in Tabs \cup {None},
           pane \in PANES \cup {None}, stray' \subseteq PANES,
           ran' \subseteq Scopes \X Lines, guessed' \subseteq Scopes \X Lines,
           line' \in [PANES -> Lines], draft' \in [PANES -> Lines]
    PROVE  DataShape'
BY DEF Terminals, DataShape

(* Every step keeps the shape of the rest. *)
LEMMA DataShapeStep == CmdShape /\ [CmdNext]_cmdVars => DataShape'
<1> SUFFICES ASSUME JobShape, DataShape, [CmdNext]_cmdVars PROVE DataShape'
  BY DEF CmdShape
<1> USE DEF DataShape
<1>0. UNCHANGED buffers => /\ stray' \subseteq PANES /\ ran' \subseteq Scopes \X Lines
                           /\ guessed' \subseteq Scopes \X Lines
                           /\ line' \in [PANES -> Lines] /\ draft' \in [PANES -> Lines]
  BY DEF buffers
<1>1. ASSUME NEW p \in PANES, FocusPane(p) PROVE DataShape'
  BY <1>0, <1>1, TerminalsKeepShape DEF FocusPane
<1>2. ASSUME NEW p \in PANES, PaneEnds(p) PROVE DataShape'
  <2>1. PICK shown : Terminals(shown, live \ {p}, front, focus) /\ shown \subseteq leaves
    BY <1>2 DEF PaneEnds
  <2> QED
    BY <1>0, <1>2, <2>1, TerminalsKeepShape DEF PaneEnds
<1>3. ASSUME NEW p \in PANES, PaneGoes(p) PROVE DataShape'
  <2>1. PICK open \in {live, live \ {p}} : Terminals(leaves \ {p}, open, front, focus)
    BY <1>3 DEF PaneGoes
  <2> QED
    BY <1>0, <1>3, <2>1, TerminalsKeepShape DEF PaneGoes
<1>4. ASSUME NEW p \in PANES, PaneComes(p) PROVE DataShape'
  <2>1. PICK open, tab, pane :
            /\ Terminals(leaves \cup {p}, open, tab, pane)
            /\ open \subseteq live \cup {p} /\ tab \in {TabOf(p), front} /\ pane \in {None, focus}
    BY <1>4 DEF PaneComes
  <2>2. /\ line' \in [PANES -> Lines] /\ draft' \in [PANES -> Lines]
        /\ stray' \subseteq PANES /\ UNCHANGED <<ran, guessed>>
    BY <1>4, LinesOfChunks DEF PaneComes
  <2>3. tab \in Tabs \cup {None}
    BY <2>1 DEF Tabs
  <2> QED
    BY <2>1, <2>2, <2>3, TerminalsKeepShape
<1>5. ASSUME NEW p \in PANES, CloseForgets(p) PROVE DataShape'
  <2>1. draft' \in [PANES -> Lines] /\ stray' \subseteq PANES
    BY <1>5, LinesOfChunks DEF CloseForgets
  <2> QED
    BY <1>5, <2>1 DEF CloseForgets, terminals
<1>6. ASSUME NEW t \in Tabs \cup {None}, ActivateTab(t) PROVE DataShape'
  BY <1>0, <1>6, TerminalsKeepShape DEF ActivateTab
<1>7. ASSUME NEW p \in PANES, NEW key, NEW text, NEW ret, TypeKey(p, key, text, ret)
      PROVE  DataShape'
  BY <1>0, <1>7, TerminalsKeepShape DEF TypeKey
<1>8. ASSUME NEW s \in SNIPPETS, RunSnippet(s) PROVE DataShape'
  BY <1>0, <1>8 DEF RunSnippet, terminals
<1>9. CASE ConfirmVars \/ DismissVars \/ OpenHistory \/ CloseHistory \/ ClearHistory
  BY <1>0, <1>9 DEF ConfirmVars, DismissVars, OpenHistory, CloseHistory, ClearHistory, terminals
<1>10. ASSUME NEW text \in listed, ChooseLine(text) PROVE DataShape'
  BY <1>0, <1>10 DEF ChooseLine, terminals
<1>11. ASSUME NEW j \in JOBS, SendWrites(j) PROVE DataShape'
  <2> DEFINE p == job[j].pane
             r == <<PaneHost(p), Trim(line[p] \o job[j].text)>>
  <2>1. p \in PANES /\ job[j].text \in Lines /\ line[p] \in Lines
    BY <1>11, JobFields DEF SendWrites
  <2>2. Past(p) \subseteq Lines
    BY DEF Past
  <2>3. PICK t \in ShellLines(line[p], job[j], Past(p)) : line' = [line EXCEPT ![p] = t]
    BY <1>11 DEF SendWrites
  <2>4. t \in Lines
    BY <2>1, <2>2, <2>3, KeystrokeMakesLines
  <2>5. r \in Scopes \X Lines
    <3>1. Trim(line[p] \o job[j].text) \in Lines
      BY <2>1, LinesOfChunks, TrimIsLine
    <3> QED
      BY <2>1, <3>1 DEF Scopes
  <2> HIDE DEF r
  <2>6. ran' = ran \/ ran' = ran \cup {r}
    BY <1>11, Zenon DEF SendWrites, r
  <2>7. stray' \subseteq PANES
    BY <1>11, <2>1 DEF SendWrites
  <2> QED
    BY <1>11, <2>3, <2>4, <2>5, <2>6, <2>7 DEF SendWrites, terminals
<1>12. ASSUME NEW j \in JOBS, SendFeeds(j) PROVE DataShape'
  <2> DEFINE p == job[j].pane
             r == <<PaneHost(p), Trim(draft[p] \o job[j].text)>>
  <2>1. p \in PANES /\ job[j].text \in Lines /\ draft[p] \in Lines
    BY <1>12, JobFields DEF SendFeeds
  <2>2. Fed(draft[p], job[j]) \in Lines
    BY <2>1, KeystrokeMakesLines
  <2>3. draft' \in [PANES -> Lines]
    BY <1>12, <2>2 DEF SendFeeds
  <2>4. r \in Scopes \X Lines
    <3>1. Trim(draft[p] \o job[j].text) \in Lines
      BY <2>1, LinesOfChunks, TrimIsLine
    <3> QED
      BY <2>1, <3>1 DEF Scopes
  <2> HIDE DEF r
  <2>5. guessed' = guessed \/ guessed' = guessed \cup {r}
    BY <1>12, Zenon DEF SendFeeds, HandsOver, r
  <2>6. stray' \subseteq PANES
    BY <1>12 DEF SendFeeds, HandsOver
  <2> QED
    BY <1>12, <2>3, <2>4, <2>5, <2>6 DEF SendFeeds, HandsOver, terminals
<1>13. ASSUME NEW j \in JOBS, Recorded(j) PROVE DataShape'
  <2> DEFINE r == <<PaneHost(job[j].pane), Trim(job[j].text)>>
  <2>1. r \in Scopes \X Lines
    BY <1>13, JobFields, TrimIsLine DEF Recorded, Scopes
  <2> HIDE DEF r
  <2>2. rows' = rows \/ rows' = rows \cup {r}
    BY <1>13, Zenon DEF Recorded, r
  <2> QED
    BY <1>0, <1>13, <2>1, <2>2 DEF Recorded, terminals
<1>14. ASSUME NEW j \in JOBS, CommandFails(j) \/ Extracted(j) \/ Rendered(j) PROVE DataShape'
  BY <1>0, <1>14 DEF CommandFails, Extracted, Rendered, terminals
<1>15. ASSUME NEW j \in JOBS, ListRuns(j) \/ Listed(j) \/ ClearRuns(j) PROVE DataShape'
  BY <1>0, <1>15, JobFields DEF ListRuns, Listed, ClearRuns, terminals
<1>16. CASE UNCHANGED cmdVars
  BY <1>16 DEF cmdVars, terminals, buffers
<1> QED
  BY <1>1, <1>2, <1>3, <1>4, <1>5, <1>6, <1>7, <1>8, <1>9, <1>10, <1>11, <1>12, <1>13, <1>14,
     <1>15, <1>16 DEF CmdNext

(* What the module calls its types follows from the shape. *)
LEMMA ShapeTypes == CmdShape => CmdTypeOK
<1> SUFFICES ASSUME JobShape, DataShape PROVE CmdTypeOK
  BY DEF CmdShape
<1>1. \A j \in JOBS : /\ job[j].pane \in PANES \cup {None} /\ job[j].text \in Lines
                      /\ job[j].op = "send" => job[j].pane \in PANES
  BY JobFields DEF JobShape, Jobs
<1>2. \A r \in rows \cup ran \cup guessed : r[2] \in Lines
  BY DEF DataShape
<1> QED
  BY <1>1, <1>2 DEF CmdTypeOK, DataShape

(* Panes, jobs, dialogs, history and buffers keep their types. *)
THEOREM CommandsTyped == CmdSpec => []CmdTypeOK
<1>1. CmdShape /\ [CmdNext]_cmdVars => CmdShape'
  BY JobShapeStep, DataShapeStep DEF CmdShape
<1> QED
  BY <1>1, ShapeInit, ShapeTypes, PTL DEF CmdSpec

----------------------------------------------------------------------------
(* The capture buffers *)

(* d waits to be fed, or to be recorded, with what c did. *)
SameWrite(c, d) ==
    /\ d.st = "written" <=> c.st = "written"
    /\ c.st = "written" => d = c
    /\ d.st = "done" /\ d.op = "send" => d = c

(* What a buffer has to do with its line depends on the writes to its pane. *)
LEMMA FollowsKept ==
    ASSUME NEW p \in PANES, Follows(p), \A k \in JOBS : SameWrite(job[k], job'[k]),
           line'[p] = line[p], draft'[p] = draft[p], ran \subseteq ran',
           p \in stray => p \in stray'
    PROVE  Follows(p)'
<1>1. InFlight(p)' = InFlight(p)
  BY DEF InFlight, SameWrite
<1>2. \A j \in InFlight(p) : job'[j] = job[j]
  BY DEF InFlight, SameWrite
<1> QED
  BY <1>1, <1>2 DEF Follows

(* Steps that neither write to a terminal nor feed a buffer. *)
LEMMA CapturedKept ==
    ASSUME Captured, \A k \in JOBS : SameWrite(job[k], job'[k]),
           UNCHANGED buffers, rows' \subseteq ran \cup guessed
    PROVE  Captured'
<1>0. UNCHANGED <<line, draft, ran, stray, guessed>>
  BY DEF buffers
<1>1. \A p \in PANES : Follows(p)'
  BY <1>0, FollowsKept DEF Captured
<1>2. \A j \in JOBS : job'[j].st = "done" /\ job'[j].op = "send" => Handed(j)'
  BY <1>0 DEF Captured, SameWrite, Handed
<1> QED
  BY <1>0, <1>1, <1>2 DEF Captured

(* A step of one job leaves the writes of the others. *)
LEMMA OneSameWrite ==
    ASSUME JobShape, NEW j \in JOBS, NEW c, SameWrite(job[j], c), job' = [job EXCEPT ![j] = c]
    PROVE  \A k \in JOBS : SameWrite(job[k], job'[k])
<1>1. \A k \in JOBS : job'[k] = IF k = j THEN c ELSE job[k]
  BY DEF JobShape
<1> QED
  BY <1>1 DEF SameWrite

(* A job that starts has written nothing. *)
LEMMA StartSameWrite ==
    ASSUME JobShape, NEW c, Start(c), c.st = "asked"
    PROVE  \A k \in JOBS : SameWrite(job[k], job'[k])
<1>1. PICK j \in JOBS : job[j].st = "free" /\ job' = [job EXCEPT ![j] = c]
  BY DEF Start
<1>2. SameWrite(job[j], c)
  BY <1>1 DEF SameWrite
<1> QED
  BY <1>1, <1>2, OneSameWrite

(* Every step keeps what the buffers have to do with the lines. *)
LEMMA CapturedStep == CmdShape /\ Captured /\ [CmdNext]_cmdVars => Captured'
<1> SUFFICES ASSUME JobShape, DataShape, Captured, [CmdNext]_cmdVars PROVE Captured'
  BY DEF CmdShape
<1>r. rows \subseteq ran \cup guessed
  BY DEF Captured
<1>s. UNCHANGED job => \A k \in JOBS : SameWrite(job[k], job'[k])
  BY DEF SameWrite
<1>1. ASSUME NEW p \in PANES, FocusPane(p) \/ PaneEnds(p) \/ PaneGoes(p) PROVE Captured'
  <2>1. UNCHANGED <<job, buffers, rows>>
    BY <1>1 DEF FocusPane, PaneEnds, PaneGoes, Terminals
  <2> QED
    BY <2>1, <1>r, <1>s, CapturedKept
<1>2. ASSUME NEW t \in Tabs \cup {None}, ActivateTab(t) PROVE Captured'
  <2>1. UNCHANGED <<job, buffers, rows>>
    BY <1>2 DEF ActivateTab, Terminals
  <2> QED
    BY <2>1, <1>r, <1>s, CapturedKept
<1>3. ASSUME NEW p \in PANES, PaneComes(p) PROVE Captured'
  <2>1. /\ UNCHANGED <<job, rows, ran, guessed>> /\ stray' = stray \ {p}
        /\ line' = [line EXCEPT ![p] = <<>>] /\ draft' = [draft EXCEPT ![p] = <<>>]
        /\ \A j \in JOBS : job[j].pane # p
    BY <1>3 DEF PaneComes, Terminals
  <2>2. ASSUME NEW q \in PANES, q = p PROVE Follows(q)'
    <3>1. InFlight(q)' = {}
      BY <2>1, <2>2 DEF InFlight
    <3>2. line'[q] = <<>> /\ draft'[q] = <<>>
      BY <2>1, <2>2 DEF DataShape
    <3> QED
      BY <3>1, <3>2 DEF Follows
  <2>3. ASSUME NEW q \in PANES, q # p PROVE Follows(q)'
    <3>1. line'[q] = line[q] /\ draft'[q] = draft[q] /\ Follows(q) /\ (q \in stray => q \in stray')
      BY <2>1, <2>3 DEF DataShape, Captured
    <3> QED
      BY <1>s, <2>1, <3>1, FollowsKept
  <2> QED
    BY <2>1, <2>2, <2>3 DEF Captured, Handed
<1>4. ASSUME NEW p \in PANES, CloseForgets(p) PROVE Captured'
  <2>1. /\ UNCHANGED <<job, rows, line, ran, guessed>> /\ draft' = [draft EXCEPT ![p] = <<>>]
        /\ stray \subseteq stray' /\ (p \notin stray' => line[p] = <<>> /\ InFlight(p) = {})
    BY <1>4 DEF CloseForgets
  <2>2. ASSUME NEW q \in PANES, q = p PROVE Follows(q)'
    <3>1. InFlight(q)' = InFlight(p) /\ draft'[q] = <<>>
      BY <2>1, <2>2 DEF InFlight, DataShape
    <3> QED
      BY <2>1, <2>2, <3>1 DEF Follows
  <2>3. ASSUME NEW q \in PANES, q # p PROVE Follows(q)'
    <3>1. line'[q] = line[q] /\ draft'[q] = draft[q] /\ Follows(q) /\ (q \in stray => q \in stray')
      BY <2>1, <2>3 DEF DataShape, Captured
    <3> QED
      BY <1>s, <2>1, <3>1, FollowsKept
  <2> QED
    BY <2>1, <2>2, <2>3 DEF Captured, Handed
<1>5. ASSUME NEW p \in PANES, NEW key, NEW text, NEW ret, TypeKey(p, key, text, ret)
      PROVE  Captured'
  <2>1. Send(p, key, text, ret).st = "asked"
    BY DEF Send, FreeJob
  <2>2. Start(Send(p, key, text, ret)) /\ UNCHANGED <<buffers, rows>>
    BY <1>5 DEF TypeKey, Terminals
  <2> QED
    BY <2>1, <2>2, <1>r, StartSameWrite, CapturedKept
<1>6. ASSUME NEW s \in SNIPPETS, RunSnippet(s) PROVE Captured'
  <2> DEFINE c == [FreeJob EXCEPT !.st = "asked", !.op = "extract", !.snip = s]
  <2>1. c.st = "asked"
    BY DEF FreeJob
  <2>2. Start(c) /\ UNCHANGED <<buffers, rows>>
    BY <1>6 DEF RunSnippet
  <2> HIDE DEF c
  <2> QED
    BY <2>1, <2>2, <1>r, StartSameWrite, CapturedKept
<1>7. CASE ConfirmVars
  <2>1. Rendering(vars, TRUE).st = "asked"
    BY DEF Rendering, FreeJob
  <2>2. Start(Rendering(vars, TRUE)) /\ UNCHANGED <<buffers, rows>>
    BY <1>7 DEF ConfirmVars
  <2> QED
    BY <2>1, <2>2, <1>r, StartSameWrite, CapturedKept
<1>8. CASE DismissVars \/ CloseHistory
  <2>1. UNCHANGED <<job, buffers, rows>>
    BY <1>8 DEF DismissVars, CloseHistory
  <2> QED
    BY <2>1, <1>r, <1>s, CapturedKept
<1>9. ASSUME NEW op, Start([FreeJob EXCEPT !.st = "asked", !.op = op, !.scope = Scope]),
            UNCHANGED <<buffers, rows>>
      PROVE  Captured'
  <2> DEFINE c == [FreeJob EXCEPT !.st = "asked", !.op = op, !.scope = Scope]
  <2>1. c.st = "asked"
    BY DEF FreeJob
  <2> HIDE DEF c
  <2> QED
    BY <1>9, <2>1, <1>r, StartSameWrite, CapturedKept DEF c
<1>10. CASE OpenHistory \/ ClearHistory
  BY <1>9, <1>10 DEF OpenHistory, ClearHistory
<1>11. ASSUME NEW text \in listed, ChooseLine(text) PROVE Captured'
  <2>1. Send(ActiveTerminal, "text", text, FALSE).st = "asked"
    BY DEF Send, FreeJob
  <2>2. Start(Send(ActiveTerminal, "text", text, FALSE)) /\ UNCHANGED <<buffers, rows>>
    BY <1>11 DEF ChooseLine
  <2> QED
    BY <2>1, <2>2, <1>r, StartSameWrite, CapturedKept
<1>12. ASSUME NEW j \in JOBS, SendWrites(j) PROVE Captured'
  <2> DEFINE p == job[j].pane
             c == [job[j] EXCEPT !.st = "written"]
             r == <<PaneHost(p), Trim(line[p] \o job[j].text)>>
  <2>1. /\ job[j] \in Jobs /\ p \in PANES /\ job[j].st = "asked" /\ job[j].op = "send"
        /\ job[j].key \in Keystrokes
    BY <1>12, JobFields DEF SendWrites, JobShape
  <2>2. /\ job' = [job EXCEPT ![j] = c] /\ UNCHANGED <<draft, rows, guessed>>
        /\ ran' = (IF job[j].ret THEN ran \cup {r} ELSE ran)
        /\ stray \subseteq stray'
        /\ p \notin stray' => /\ InFlight(p) = {} /\ job[j].key # "other"
                              /\ job[j].key = "end" => line[p] = <<>>
    BY <1>12 DEF SendWrites
  <2>3. PICK t \in ShellLines(line[p], job[j], Past(p)) : line' = [line EXCEPT ![p] = t]
    BY <1>12 DEF SendWrites
  <2>4. c.st = "written" /\ c.pane = p /\ c.text = job[j].text /\ c.ret = job[j].ret /\ c.key = job[j].key
    BY <2>1 DEF Jobs
  <2>5. \A k \in JOBS : job'[k] = IF k = j THEN c ELSE job[k]
    BY <2>2 DEF JobShape
  <2>6. ran \subseteq ran' /\ (job[j].ret => r \in ran')
    BY <2>2
  <2> HIDE DEF c, r
  <2>7. ASSUME NEW q \in PANES, q = p, q \notin stray' PROVE Follows(q)'
    <3>0. InFlight(q) = {}
      BY <2>2, <2>7
    <3>1. InFlight(q)' = {j}
      <4>1. \A k \in JOBS : k # j => ~(job[k].st = "written" /\ job[k].pane = q) /\ job'[k] = job[k]
        BY <2>5, <3>0 DEF InFlight
      <4>2. job'[j].st = "written" /\ job'[j].pane = q
        BY <2>4, <2>5, <2>7
      <4> QED
        BY <4>1, <4>2 DEF InFlight
    <3>2. draft[q] = line[q]
      BY <2>1, <2>2, <2>7, <3>0 DEF Captured, Follows
    <3>3. line'[q] = t /\ draft'[q] = draft[q]
      BY <2>1, <2>2, <2>3, <2>7 DEF DataShape
    <3>4. t = Fed(line[q], job[j])
      BY <2>1, <2>2, <2>3, <2>7, SameEffect
    <3>5. Fed(line[q], job[j]) = Fed(line[q], c)
      BY <2>4 DEF Fed
    <3>6. c.ret => <<PaneHost(q), Trim(draft[q] \o c.text)>> \in ran'
      BY <2>4, <2>6, <2>7, <3>2 DEF r
    <3>7. job'[j] = c
      BY <2>5
    <3> HIDE DEF p
    <3> QED
      BY <3>1, <3>2, <3>3, <3>4, <3>5, <3>6, <3>7 DEF Follows
  <2>8. ASSUME NEW q \in PANES, q # p PROVE Follows(q)'
    <3>1. InFlight(q)' = InFlight(q) /\ j \notin InFlight(q)
      BY <2>1, <2>4, <2>5, <2>8 DEF InFlight
    <3>2. line'[q] = line[q] /\ draft'[q] = draft[q] /\ Follows(q) /\ (q \in stray => q \in stray')
      BY <2>1, <2>2, <2>3, <2>8 DEF DataShape, Captured
    <3>3. \A k \in InFlight(q) : job'[k] = job[k]
      BY <2>5, <3>1 DEF InFlight
    <3> QED
      BY <2>6, <3>1, <3>2, <3>3 DEF Follows
  <2>9. ASSUME NEW k \in JOBS, job'[k].st = "done", job'[k].op = "send" PROVE Handed(k)'
    <3>1. job'[k] = job[k] /\ Handed(k)
      BY <2>4, <2>5, <2>9 DEF Captured
    <3> QED
      BY <2>2, <2>6, <3>1 DEF Handed
  <2>10. \A q \in PANES : q = p => Follows(q)'
    <3> HIDE DEF p
    <3> QED
      BY <2>7 DEF Follows
  <2>11. \A q \in PANES : Follows(q)'
    BY <2>8, <2>10
  <2> QED
    BY <1>r, <2>2, <2>6, <2>9, <2>11 DEF Captured, Handed
<1>13. ASSUME NEW j \in JOBS, SendFeeds(j) PROVE Captured'
  <2> DEFINE p == job[j].pane
             whole == draft[p] \o job[j].text
             d == [job[j] EXCEPT !.st = "done", !.text = whole]
             r == <<PaneHost(p), Trim(whole)>>
  <2>1. /\ UNCHANGED <<line, rows, ran>> /\ job[j].st = "written"
        /\ draft' = [draft EXCEPT ![p] = Fed(draft[p], job[j])]
        /\ guessed' = (IF job[j].ret /\ p \in stray THEN guessed \cup {r} ELSE guessed)
        /\ stray' = (IF draft'[p] = <<>> /\ line[p] = <<>> /\ InFlight(p) = {j}
                     THEN stray \ {p} ELSE stray)
    BY <1>13 DEF SendFeeds, HandsOver
  <2>2. job' = [job EXCEPT ![j] = IF job[j].ret /\ whole # <<>> THEN d ELSE FreeJob]
    BY <1>13 DEF SendFeeds, HandsOver
  <2>3. job[j] \in Jobs /\ p \in PANES /\ j \in InFlight(p)
    BY <2>1, JobFields DEF JobShape, InFlight
  <2>4. p \notin stray => InFlight(p) = {j} /\ line[p] = Fed(draft[p], job[j])
    BY <2>3 DEF Captured, Follows
  <2>5. p \notin stray => (job[j].ret => r \in ran)
    BY <2>3 DEF Captured, Follows
  <2>6. d.st = "done" /\ d.pane = p /\ d.text = whole
    BY <2>3 DEF Jobs
  <2>7. \A k \in JOBS : k # j => job'[k] = job[k]
    BY <2>2 DEF JobShape
  <2>8. job'[j] = IF job[j].ret /\ whole # <<>> THEN d ELSE FreeJob
    BY <2>2 DEF JobShape
  <2>9. job'[j].st # "written"
    BY <2>6, <2>8 DEF FreeJob
  <2>10. draft'[p] = Fed(draft[p], job[j])
    BY <2>1, <2>3 DEF DataShape
  <2>11. job[j].ret => r \in ran' \cup guessed'
    BY <2>1, <2>5
  <2>12. guessed \subseteq guessed'
    BY <2>1
  <2>13. ASSUME NEW q \in PANES, q = p, q \notin stray' PROVE Follows(q)'
    <3>1. InFlight(q) = {j} /\ draft'[q] = line'[q]
      BY <2>1, <2>4, <2>10, <2>13
    <3>2. InFlight(q)' = {}
      BY <2>7, <2>9, <3>1 DEF InFlight
    <3> HIDE DEF p
    <3> QED
      BY <3>1, <3>2 DEF Follows
  <2>14. ASSUME NEW q \in PANES, q # p PROVE Follows(q)'
    <3>1. InFlight(q)' = InFlight(q) /\ j \notin InFlight(q)
      BY <2>7, <2>9, <2>14 DEF InFlight
    <3>2. line'[q] = line[q] /\ draft'[q] = draft[q] /\ Follows(q) /\ (q \in stray => q \in stray')
      BY <2>1, <2>14 DEF DataShape, Captured
    <3>3. \A k \in InFlight(q) : job'[k] = job[k]
      BY <2>7, <3>1 DEF InFlight
    <3>4. ran' = ran
      BY <2>1
    <3> HIDE DEF p, whole, d, r
    <3> QED
      BY <3>1, <3>2, <3>3, <3>4 DEF Follows
  <2>15. ASSUME NEW k \in JOBS, job'[k].st = "done", job'[k].op = "send" PROVE Handed(k)'
    <3>1. CASE k = j
      <4>1. job[j].ret /\ job'[j] = d
        BY <2>8, <2>15, <3>1 DEF FreeJob
      <4> QED
        BY <2>6, <2>11, <3>1, <4>1 DEF Handed
    <3>2. CASE k # j
      <4>1. job'[k] = job[k] /\ Handed(k)
        BY <2>7, <2>15, <3>2 DEF Captured
      <4> QED
        BY <2>1, <2>12, <4>1 DEF Handed
    <3> QED
      BY <3>1, <3>2
  <2>16. \A q \in PANES : q = p => Follows(q)'
    <3> HIDE DEF p
    <3> QED
      BY <2>13 DEF Follows
  <2>17. \A q \in PANES : Follows(q)'
    BY <2>14, <2>16
  <2>18. rows' \subseteq ran' \cup guessed'
    BY <1>r, <2>1, <2>12
  <2> QED
    BY <2>15, <2>17, <2>18 DEF Captured
<1>14. ASSUME NEW j \in JOBS, Recorded(j) PROVE Captured'
  <2> DEFINE r == <<PaneHost(job[j].pane), Trim(job[j].text)>>
  <2>1. job[j] \in Jobs /\ job[j].st = "done" /\ job[j].op = "send" /\ r \in ran \cup guessed
    BY <1>14 DEF Recorded, JobShape, Captured, Handed
  <2>2. job' = [job EXCEPT ![j] = FreeJob] /\ UNCHANGED buffers
    BY <1>14 DEF Recorded
  <2>3. SameWrite(job[j], FreeJob)
    BY <2>1 DEF SameWrite, FreeJob
  <2> HIDE DEF r
  <2>4. rows' = rows \/ rows' = rows \cup {r}
    BY <1>14, Zenon DEF Recorded, r
  <2>5. rows' \subseteq ran \cup guessed
    BY <1>r, <2>1, <2>4
  <2> QED
    BY <2>2, <2>3, <2>5, OneSameWrite, CapturedKept
<1>15. ASSUME NEW j \in JOBS, CommandFails(j) \/ Listed(j) PROVE Captured'
  <2>1. job[j].st # "written"
    BY <1>15 DEF CommandFails, Listed
  <2>2. job' = [job EXCEPT ![j] = FreeJob] /\ UNCHANGED <<buffers, rows>>
    BY <1>15 DEF CommandFails, Listed
  <2>3. SameWrite(job[j], FreeJob)
    BY <2>1 DEF SameWrite, FreeJob
  <2> QED
    BY <2>2, <2>3, <1>r, OneSameWrite, CapturedKept
<1>16. ASSUME NEW j \in JOBS, Extracted(j) PROVE Captured'
  <2>1. job[j].st # "written"
    BY <1>16 DEF Extracted, JobShape, JobStages
  <2>2. \/ job' = [job EXCEPT ![j] = FreeJob]
        \/ job' = [job EXCEPT ![j] = Rendering(job[j].snip, FALSE)]
    BY <1>16, Zenon DEF Extracted
  <2>3. SameWrite(job[j], FreeJob) /\ SameWrite(job[j], Rendering(job[j].snip, FALSE))
    BY <2>1 DEF SameWrite, Rendering, FreeJob
  <2>4. UNCHANGED <<buffers, rows>>
    BY <1>16 DEF Extracted
  <2> QED
    BY <2>2, <2>3, <2>4, <1>r, OneSameWrite, CapturedKept
<1>17. ASSUME NEW j \in JOBS, Rendered(j) PROVE Captured'
  <2> DEFINE c == Send(ActiveTerminal, "text", <<job[j].snip>>, TRUE)
  <2>1. job[j].st # "written"
    BY <1>17 DEF Rendered, JobShape, JobStages
  <2>2. job' = [job EXCEPT ![j] = FreeJob] \/ job' = [job EXCEPT ![j] = c]
    BY <1>17, Zenon DEF Rendered
  <2>3. SameWrite(job[j], FreeJob) /\ SameWrite(job[j], c)
    BY <2>1 DEF SameWrite, Send, FreeJob
  <2>4. UNCHANGED <<buffers, rows>>
    BY <1>17 DEF Rendered
  <2> HIDE DEF c
  <2> QED
    BY <2>2, <2>3, <2>4, <1>r, OneSameWrite, CapturedKept
<1>18. ASSUME NEW j \in JOBS, ListRuns(j) PROVE Captured'
  <2> DEFINE c == [job[j] EXCEPT !.st = "done", !.found = Recent(job[j].scope)]
  <2>1. job[j] \in Jobs /\ job[j].st = "asked" /\ job[j].op = "list"
    BY <1>18 DEF ListRuns, JobShape
  <2>2. job' = [job EXCEPT ![j] = c] /\ UNCHANGED <<buffers, rows>>
    BY <1>18 DEF ListRuns
  <2>3. SameWrite(job[j], c)
    BY <2>1 DEF SameWrite, Jobs
  <2> HIDE DEF c
  <2> QED
    BY <2>2, <2>3, <1>r, OneSameWrite, CapturedKept
<1>19. ASSUME NEW j \in JOBS, ClearRuns(j) PROVE Captured'
  <2> DEFINE c == [job[j] EXCEPT !.st = "done"]
  <2>1. job[j] \in Jobs /\ job[j].st = "asked" /\ job[j].op = "clear"
    BY <1>19 DEF ClearRuns, JobShape
  <2>2. job' = [job EXCEPT ![j] = c] /\ UNCHANGED buffers /\ rows' \subseteq rows
    BY <1>19 DEF ClearRuns
  <2>3. SameWrite(job[j], c)
    BY <2>1 DEF SameWrite, Jobs
  <2> HIDE DEF c
  <2> QED
    BY <2>2, <2>3, <1>r, OneSameWrite, CapturedKept
<1>20. CASE UNCHANGED cmdVars
  BY <1>20, <1>r, <1>s, CapturedKept DEF cmdVars, buffers
<1> QED
  BY <1>1, <1>2, <1>3, <1>4, <1>5, <1>6, <1>7, <1>8, <1>10, <1>11, <1>12, <1>13, <1>14,
     <1>15, <1>16, <1>17, <1>18, <1>19, <1>20 DEF CmdNext

(* At first nothing has been written. *)
LEMMA CapturedInit == CmdInit => Captured
BY DEF CmdInit, Captured, Follows, InFlight, FreeJob

(* What the history holds was run, or was handed over by a buffer that had gone
   astray in one of the four named ways and not met its line again since. *)
THEOREM HistoryWasRun == CmdSpec => []HistoryIsWhatRan
<1>1. CmdShape /\ Captured /\ [CmdNext]_cmdVars => (CmdShape /\ Captured)'
  BY CapturedStep, JobShapeStep, DataShapeStep DEF CmdShape
<1>2. Captured => HistoryIsWhatRan
  BY DEF Captured, HistoryIsWhatRan
<1> QED
  BY <1>1, <1>2, ShapeInit, CapturedInit, PTL DEF CmdSpec

----------------------------------------------------------------------------
(* Launch: types *)

(* The table kept[i] of Only, for the first n elements of t. *)
KeptUpTo(g, t, S, n) ==
    g = [i \in 0..n |-> IF i = 0 THEN <<>>
                        ELSE IF t[i] \in S THEN Append(g[i - 1], t[i]) ELSE g[i - 1]]

(* The recursion of filter() is well defined: each of its tables extends the
   one before. *)
LEMMA KeptExists ==
    ASSUME NEW t, NEW S, NEW n \in Nat
    PROVE  \E g : KeptUpTo(g, t, S, n)
<1> DEFINE bad == {m \in Nat : ~ \E g : KeptUpTo(g, t, S, m)}
<1>1. SUFFICES ASSUME bad # {} PROVE FALSE
  OBVIOUS
<1>2. PICK m \in bad : \A k \in bad : m <= k
  <2>1. bad \subseteq Nat
    OBVIOUS
  <2> HIDE DEF bad
  <2> QED
    BY <1>1, <2>1, LeastNumber
<1>3. m # 0
  <2>1. PICK g : g = [i \in 0..0 |-> <<>>]
    OBVIOUS
  <2>2. KeptUpTo(g, t, S, 0)
    BY <2>1 DEF KeptUpTo
  <2> QED
    BY <1>2, <2>2
<1>4. PICK g : KeptUpTo(g, t, S, m - 1)
  <2>1. m - 1 \in Nat /\ ~(m <= m - 1)
    BY <1>2, <1>3
  <2> QED
    BY <1>2, <2>1
<1>5. PICK h : h = [i \in 0..m |-> IF i = m THEN IF t[m] \in S THEN Append(g[m - 1], t[m]) ELSE g[m - 1]
                                   ELSE g[i]]
  OBVIOUS
<1>6. KeptUpTo(h, t, S, m)
  <2>1. /\ DOMAIN h = 0..m /\ h = [i \in 0..m |-> h[i]]
        /\ h[m] = IF t[m] \in S THEN Append(h[m - 1], t[m]) ELSE h[m - 1]
    BY <1>2, <1>3, <1>5
  <2>2. ASSUME NEW i \in 0..m, i # m
        PROVE  h[i] = IF i = 0 THEN <<>> ELSE IF t[i] \in S THEN Append(h[i - 1], t[i]) ELSE h[i - 1]
    <3>1. i \in 0..(m - 1) /\ h[i] = g[i] /\ (i # 0 => h[i - 1] = g[i - 1])
      BY <1>2, <1>3, <1>5, <2>2
    <3> QED
      BY <1>4, <3>1 DEF KeptUpTo
  <2> QED
    BY <1>2, <1>3, <2>1, <2>2 DEF KeptUpTo
<1> QED
  BY <1>2, <1>6

(* filter() returns a sequence of elements that pass, whatever it is given. *)
LEMMA OnlyTyped ==
    ASSUME NEW t, NEW S, Len(t) \in Nat
    PROVE  Only(t, S) \in Seq(S)
<1>1. \E g : KeptUpTo(g, t, S, Len(t))
  BY KeptExists
<1>2. PICK g : KeptUpTo(g, t, S, Len(t)) /\ Only(t, S) = g[Len(t)]
  BY <1>1 DEF KeptUpTo, Only
<1> DEFINE bad == {m \in 0..Len(t) : g[m] \notin Seq(S)}
<1>3. SUFFICES ASSUME bad # {} PROVE FALSE
  BY <1>2
<1>4. PICK m \in bad : \A k \in bad : m <= k
  <2>1. bad \subseteq Nat
    OBVIOUS
  <2> HIDE DEF bad
  <2> QED
    BY <1>3, <2>1, LeastNumber
<1>5. m # 0
  BY <1>2, <1>4 DEF KeptUpTo
<1>6. g[m - 1] \in Seq(S)
  <2>1. m - 1 \in 0..Len(t) /\ ~(m <= m - 1)
    BY <1>4, <1>5
  <2> QED
    BY <1>4, <2>1
<1>7. g[m] = IF t[m] \in S THEN Append(g[m - 1], t[m]) ELSE g[m - 1]
  BY <1>2, <1>4, <1>5 DEF KeptUpTo
<1>8. g[m] \in Seq(S)
  BY <1>6, <1>7
<1> QED
  BY <1>4, <1>8

(* What each key of the settings holds. *)
Worth(k, v) ==
    /\ k \in Keys
    /\ k = "tabs" => v \in Seq(PLACES)
    /\ k = "auto" => v \in Autos
    /\ k = "close" => v \in Actions \cup {"ask"}
    /\ k = "seen" => v \in {0} \cup VERSIONS

Changes(f) == \A k \in DOMAIN f : Worth(k, f[k])
Settings(s) == s = [k \in Keys |-> s[k]] /\ Changes(s)

(* The invariant behind the types: what is on its way fits its key, and what
   the restore effect holds is a snapshot. *)
StoreFits ==
    /\ Settings(store) /\ lost \subseteq Keys
    /\ \A w \in writes : Worth(w[1], w[2])

RestoreFits ==
    /\ restore = [st |-> restore.st, tabs |-> restore.tabs, known |-> restore.known, auto |-> restore.auto]
    /\ restore.st \in {"none", "refreshing", "prompt", "done"}
    /\ restore.tabs \in Seq(PLACES) /\ restore.known \in {{}, PLACES}

TabsFit == tabs \in Seq(PLACES \cup {LocalTab}) /\ emptied \in BOOLEAN

RestFits ==
    /\ Settings(row) /\ Settings(boot.was) /\ boot.st \in {"asked", "read", "done"}
    /\ version \in VERSIONS /\ known \in {{}, PLACES} /\ news \in {"none", "version", "shown"}
    /\ ask \in BOOLEAN /\ exiting \in BOOLEAN /\ unread \in BOOLEAN
    /\ told \subseteq NEWS /\ skipped \subseteq NEWS

LaunchFits == StoreFits /\ RestoreFits /\ TabsFit /\ RestFits

(* The defaults fit. *)
LEMMA DefaultsFit == Settings(Defaults)
<1>1. PICK s : s = Defaults
  OBVIOUS
<1>2. s = [k \in Keys |-> s[k]]
  BY <1>1 DEF Defaults, Keys
<1>3. /\ s["tabs"] = <<>> /\ s["auto"] \in Autos
      /\ s["close"] = "ask" /\ s["seen"] = 0
  BY <1>1 DEF Defaults, Autos
<1>4. <<>> \in Seq(PLACES)
  OBVIOUS
<1>5. \A k \in Keys : Worth(k, s[k])
  BY <1>3, <1>4 DEF Worth, Keys
<1>6. DOMAIN s = Keys
  BY <1>2
<1> QED
  BY <1>1, <1>2, <1>5, <1>6 DEF Settings, Changes

(* The invariant implies the types. *)
LEMMA LaunchTypesFollow == LaunchFits => LaunchTypeOK
<1> SUFFICES ASSUME LaunchFits PROVE LaunchTypeOK
  OBVIOUS
<1>1. ASSUME NEW s, Settings(s)
      PROVE  s \in [tabs : Seq(PLACES), auto : Autos, close : Actions \cup {"ask"},
                    seen : {0} \cup VERSIONS]
  <2>1. s = [k \in Keys |-> s[k]] /\ DOMAIN s = Keys
    BY <1>1 DEF Settings
  <2>2. /\ s["tabs"] \in Seq(PLACES) /\ s["auto"] \in Autos
        /\ s["close"] \in Actions \cup {"ask"} /\ s["seen"] \in {0} \cup VERSIONS
    BY <1>1, <2>1 DEF Settings, Changes, Worth, Keys
  <2> QED
    BY <2>1, <2>2 DEF Keys
<1>2. \A s \in {row, store, boot.was} : Settings(s)
  BY DEF LaunchFits, StoreFits, RestFits
<1>3. {row, store, boot.was} \subseteq
          [tabs : Seq(PLACES), auto : Autos, close : Actions \cup {"ask"}, seen : {0} \cup VERSIONS]
  BY <1>1, <1>2
<1>4. \A w \in writes : w[1] \in Keys
  BY DEF LaunchFits, StoreFits, Worth
<1> QED
  BY <1>3, <1>4 DEF LaunchTypeOK, LaunchFits, StoreFits, RestoreFits, TabsFit, RestFits

(* SetAll with fitting settings keeps the store, the commands and the history. *)
LEMMA SetAllFits ==
    ASSUME StoreFits, NEW s, Settings(s), NEW f, Changes(f), SetAll(s, f)
    PROVE  StoreFits'
<1>1. DOMAIN f \subseteq Keys
  BY DEF Changes, Worth
<1>2. /\ store' = [k \in Keys |-> store'[k]]
      /\ \A k \in Keys : store'[k] = IF k \in DOMAIN f THEN f[k] ELSE s[k]
      /\ \A w \in writes' : w \in writes \/ (w[1] \in DOMAIN f /\ w[2] = f[w[1]])
      /\ \A k : k \notin DOMAIN f => (k \in lost' <=> k \in lost)
  BY SetAllWrites
<1>3. DOMAIN s = Keys
  BY DEF Settings
<1>4. Changes(store)'
  <2>1. DOMAIN store' = Keys
    BY <1>2
  <2>2. ASSUME NEW k \in Keys PROVE Worth(k, store'[k])
    BY <1>2, <1>3 DEF Changes, Settings
  <2> QED
    BY <2>1, <2>2 DEF Changes
<1>5. \A w \in writes' : Worth(w[1], w[2])
  BY <1>2 DEF Changes, StoreFits
<1>6. lost' \subseteq Keys
  BY <1>1, <1>2 DEF StoreFits
<1> QED
  BY <1>2, <1>4, <1>5, <1>6 DEF StoreFits, Settings

(* The snapshot holds hosts only. *)
LEMMA SnapshotFits ==
    ASSUME NEW t, t \in Seq(PLACES \cup {LocalTab})
    PROVE  Snapshot(t) \in Seq(PLACES)
BY OnlyTyped DEF Snapshot

(* The settings f and a snapshot of hosts fit. *)
LEMMA WithFits ==
    ASSUME NEW f, Changes(f), NEW t \in Seq(PLACES)
    PROVE  Changes(With(f, t))
<1>1. PICK g : g = With(f, t)
  OBVIOUS
<1>2. DOMAIN g = DOMAIN f \cup {"tabs"} /\ \A k \in DOMAIN g : g[k] = IF k = "tabs" THEN t ELSE f[k]
  BY <1>1 DEF With
<1>3. ASSUME NEW k \in DOMAIN g PROVE Worth(k, g[k])
  BY <1>2 DEF Changes, Worth, Keys
<1> QED
  BY <1>1, <1>3 DEF Changes

(* No settings, or one. *)
LEMMA FewFit ==
    /\ Changes(<<>>)
    /\ \A v \in Autos : Changes([auto |-> v])
    /\ \A v \in Actions : Changes([close |-> v])
    /\ \A v \in VERSIONS : Changes([seen |-> v])
    /\ \A v \in Seq(PLACES) : Changes([tabs |-> v])
BY DEF Changes, Worth, Keys

(* The tabs change, and the settings with them. *)
LEMMA TabsBecomeFits ==
    ASSUME StoreFits, NEW t, t \in Seq(PLACES \cup {LocalTab}), NEW f, Changes(f), TabsBecome(t, f)
    PROVE  StoreFits' /\ TabsFit'
<1>e. emptied' \in BOOLEAN
  BY DEF TabsBecome
<1>1. tabs' = t /\ SetAll(store, IF Ready THEN With(f, Snapshot(t)) ELSE f)
  BY DEF TabsBecome
<1>2. Changes(With(f, Snapshot(t)))
  BY SnapshotFits, WithFits
<1>3. PICK g : g = IF Ready THEN With(f, Snapshot(t)) ELSE f
  OBVIOUS
<1>4. Changes(g) /\ SetAll(store, g)
  BY <1>1, <1>2, <1>3
<1> QED
  BY <1>1, <1>4, <1>e, SetAllFits DEF TabsFit, StoreFits

(* The snapshot is emptied, and the settings f change. *)
LEMMA ForgottenFits ==
    ASSUME StoreFits, TabsFit, NEW f, Changes(f), Forgotten(f)
    PROVE  StoreFits' /\ TabsFit'
<1>1. PICK g : g = With(f, <<>>)
  OBVIOUS
<1>2. Changes(g)
  <2>1. <<>> \in Seq(PLACES)
    OBVIOUS
  <2> QED
    BY <1>1, <2>1, WithFits
<1>3. SetAll(store, g) /\ UNCHANGED tabs /\ emptied' = TRUE
  BY <1>1 DEF Forgotten
<1> QED
  BY <1>2, <1>3, SetAllFits DEF TabsFit, StoreFits

(* What is restored comes after the tabs that are open. *)
LEMMA RestoredFits ==
    ASSUME TabsFit, NEW list, list \in Seq(PLACES), NEW hosts, hosts \in {{}, PLACES}
    PROVE  Restored(list, hosts) \in Seq(PLACES \cup {LocalTab})
<1>1. Only(list, hosts) \in Seq(hosts)
  BY OnlyTyped
<1>2. Only(list, hosts) \in Seq(PLACES \cup {LocalTab})
  BY <1>1
<1> QED
  BY <1>2 DEF Restored, TabsFit

(* What is read at the start fits. *)
LEMMA LaunchFitsInit == LaunchInit => LaunchFits
<1> SUFFICES ASSUME LaunchInit PROVE LaunchFits
  OBVIOUS
<1>1. Settings(row)
  <2>1. row \in [tabs : Snapshots, auto : Autos, close : {"ask"}, seen : {0} \cup VERSIONS]
    BY DEF LaunchInit
  <2>2. row = [k \in Keys |-> row[k]] /\ DOMAIN row = Keys
    BY <2>1 DEF Keys
  <2>3. row.tabs \in Seq(PLACES)
    <3>1. PICK n \in 0..OpenTabs : row.tabs \in [1..n -> PLACES]
      BY <2>1 DEF Snapshots
    <3> QED
      BY <3>1, LaunchAssumption
  <2>4. \A k \in Keys : Worth(k, row[k])
    BY <2>1, <2>3 DEF Worth, Keys
  <2> QED
    BY <2>2, <2>4 DEF Settings, Changes
<1>2. told \subseteq NEWS /\ skipped \subseteq NEWS
  BY DEF LaunchInit, UpTo
<1>3. RestoreFits
  BY DEF LaunchInit, RestoreFits, Idle
<1>4. StoreFits
  <2>1. store = Defaults /\ lost = {} /\ writes = {}
    BY DEF LaunchInit
  <2> QED
    BY <2>1, DefaultsFit DEF StoreFits
<1>t. TabsFit
  <2>1. tabs = <<>> /\ emptied = FALSE
    BY DEF LaunchInit
  <2>2. <<>> \in Seq(PLACES \cup {LocalTab})
    OBVIOUS
  <2> QED
    BY <2>1, <2>2 DEF TabsFit
<1>5. RestFits
  BY <1>1, <1>2, DefaultsFit DEF LaunchInit, RestFits
<1> QED
  BY <1>3, <1>4, <1>t, <1>5 DEF LaunchFits

(* A row takes what its command carries. *)
LEMMA RowFits ==
    ASSUME Settings(row), NEW k, NEW v, Worth(k, v), row' = [row EXCEPT ![k] = v]
    PROVE  Settings(row)'
<1>1. k \in Keys /\ DOMAIN row = Keys
  BY DEF Settings, Worth
<1>2. row' = [j \in Keys |-> IF j = k THEN v ELSE row[j]]
  BY <1>1 DEF Settings
<1>3. \A j \in Keys : row'[j] = IF j = k THEN v ELSE row[j]
  BY <1>2
<1>4. DOMAIN row' = Keys
  BY <1>2
<1> QED
  BY <1>1, <1>2, <1>3, <1>4 DEF Settings, Changes

(* The effects that run once the settings s are there. *)
LEMMA EffectsFit ==
    ASSUME LaunchFits, NEW s, Settings(s), Effects(s), unread' \in BOOLEAN
    PROVE  LaunchFits'
<1>1. /\ UNCHANGED <<row, version, tabs, known, ask, exiting, wish, told, skipped>> /\ emptied' = FALSE
      /\ boot' = [st |-> "done", was |-> Defaults] /\ news' = "version"
      /\ SetAll(s, [tabs |-> Snapshot(tabs)])
      /\ restore' = IF s.tabs = <<>> THEN [Idle EXCEPT !.st = "done"]
                    ELSE [st |-> "refreshing", tabs |-> s.tabs, known |-> known, auto |-> s.auto]
  BY DEF Effects
<1>2. StoreFits'
  <2>1. Snapshot(tabs) \in Seq(PLACES)
    BY SnapshotFits DEF LaunchFits, TabsFit
  <2>2. PICK f : f = [tabs |-> Snapshot(tabs)]
    OBVIOUS
  <2>3. Changes(f) /\ SetAll(s, f)
    BY <1>1, <2>1, <2>2, FewFit
  <2> QED
    BY <2>3, SetAllFits DEF LaunchFits
<1>3. RestoreFits'
  <2>1. s.tabs \in Seq(PLACES)
    BY DEF Settings, Changes, Worth, Keys
  <2>2. CASE s.tabs = <<>>
    <3>1. restore' = [st |-> "done", tabs |-> <<>>, known |-> {}, auto |-> "ask"]
      BY <1>1, <2>2 DEF Idle
    <3> QED
      BY <3>1 DEF RestoreFits
  <2>3. CASE s.tabs # <<>>
    BY <1>1, <2>1, <2>3 DEF RestoreFits, LaunchFits, RestFits
  <2> QED
    BY <2>2, <2>3
<1>4. RestFits' /\ TabsFit'
  <2>1. boot'.st = "done" /\ boot'.was = Defaults
    BY <1>1
  <2> QED
    BY <1>1, <2>1, DefaultsFit DEF RestFits, TabsFit, LaunchFits, Settings, Changes
<1> QED
  BY <1>2, <1>3, <1>4 DEF LaunchFits

(* Every step keeps it. *)
LEMMA LaunchFitsStep == LaunchFits /\ [LaunchNext]_launchVars => LaunchFits'
<1> SUFFICES ASSUME LaunchFits, [LaunchNext]_launchVars PROVE LaunchFits'
  OBVIOUS
<1>0. StoreFits /\ RestoreFits /\ TabsFit /\ RestFits /\ Settings(store)
  BY DEF LaunchFits, StoreFits
<1>s. UNCHANGED <<store, writes, lost>> => StoreFits'
  BY <1>0 DEF StoreFits, Settings, Changes
<1>r. UNCHANGED restore => RestoreFits'
  BY <1>0 DEF RestoreFits
<1>t. UNCHANGED <<tabs, emptied>> => TabsFit'
  BY <1>0 DEF TabsFit
<1>b. UNCHANGED <<row, boot, version>> /\ known' \in {{}, PLACES} /\ news' \in {"none", "version", "shown"}
      /\ ask' \in BOOLEAN /\ exiting' \in BOOLEAN /\ UNCHANGED unread /\ told' \subseteq NEWS
      /\ skipped' \subseteq NEWS => RestFits'
  BY <1>0 DEF RestFits, Settings, Changes
<1>o. /\ known \in {{}, PLACES} /\ news \in {"none", "version", "shown"} /\ ask \in BOOLEAN
      /\ exiting \in BOOLEAN /\ told \subseteq NEWS /\ skipped \subseteq NEWS /\ version \in VERSIONS
  BY <1>0 DEF RestFits
<1>1. CASE UNCHANGED launchVars
  BY <1>1, <1>s, <1>r, <1>t, <1>b, <1>o DEF launchVars, LaunchFits
<1>2. ASSUME NEW w \in writes, WriteRuns(w) PROVE LaunchFits'
  <2>1. Worth(w[1], w[2])
    BY <1>0 DEF StoreFits
  <2>2. Settings(row)'
    BY <1>0, <1>2, <2>1, RowFits DEF WriteRuns, RestFits
  <2>3. RestFits'
    BY <1>0, <1>2, <2>2 DEF WriteRuns, RestFits, histories, Settings, Changes
  <2>4. StoreFits'
    BY <1>0, <1>2 DEF WriteRuns, StoreFits, histories, Settings, Changes
  <2>5. UNCHANGED <<tabs, emptied, restore>>
    BY <1>2 DEF WriteRuns, histories
  <2> QED
    BY <2>3, <2>4, <2>5, <1>r, <1>t DEF LaunchFits
<1>3. ASSUME NEW w \in writes, WriteFails(w) PROVE LaunchFits'
  <2>1. StoreFits'
    BY <1>0, <1>3 DEF WriteFails, StoreFits, Settings, Changes, Worth
  <2> QED
    BY <1>3, <2>1, <1>r, <1>t, <1>b, <1>o DEF WriteFails, LaunchFits
<1>4. CASE SettingsAreRead
  <2>1. boot'.st = "read" /\ boot'.was = row /\ UNCHANGED row
    BY <1>4 DEF SettingsAreRead
  <2>2. RestFits'
    BY <1>0, <1>4, <2>1 DEF SettingsAreRead, RestFits, histories, Settings, Changes
  <2> QED
    BY <1>4, <2>2, <1>s, <1>r, <1>t DEF SettingsAreRead, LaunchFits, histories
<1>5. CASE HydrationDone
  BY <1>0, <1>5, EffectsFit DEF HydrationDone, RestFits
<1>6. CASE HydrationFails
  BY <1>0, <1>6, EffectsFit DEF HydrationFails
<1>7. CASE HostsAnswer
  BY <1>7, <1>s, <1>r, <1>t, <1>b, <1>o DEF HostsAnswer, LaunchFits, histories
<1>8. CASE NewsCheck
  <2>1. news' \in {"none", "shown"} /\ told' \subseteq NEWS /\ skipped' \subseteq NEWS
    BY <1>8, <1>o DEF NewsCheck, UpTo, WhatsNewSince
  <2>2. StoreFits'
    <3>1. PICK f : f = [seen |-> version]
      OBVIOUS
    <3>2. Changes(f)
      BY <1>o, <3>1, FewFit
    <3>3. SetAll(store, f) \/ UNCHANGED <<store, writes, lost>>
      BY <1>8, <3>1 DEF NewsCheck
    <3> QED
      BY <1>0, <1>s, <3>2, <3>3, SetAllFits
  <2> QED
    BY <1>8, <2>1, <2>2, <1>r, <1>t, <1>b, <1>o DEF NewsCheck, LaunchFits
<1>9. CASE CloseWhatsNew
  <2>1. StoreFits'
    <3>1. PICK f : f = [seen |-> version]
      OBVIOUS
    <3>2. Changes(f) /\ SetAll(store, f)
      BY <1>9, <1>o, <3>1, FewFit DEF CloseWhatsNew
    <3> QED
      BY <1>0, <3>2, SetAllFits
  <2> QED
    BY <1>9, <2>1, <1>r, <1>t, <1>b, <1>o DEF CloseWhatsNew, LaunchFits
<1>10. ASSUME NEW x \in PLACES \cup {LocalTab}, OpenTab_(x) PROVE LaunchFits'
  <2>1. Append(tabs, x) \in Seq(PLACES \cup {LocalTab})
    BY <1>0 DEF TabsFit
  <2>2. StoreFits' /\ TabsFit'
    BY <1>0, <1>10, <2>1, FewFit, TabsBecomeFits DEF OpenTab_
  <2> QED
    BY <1>10, <2>2, <1>r, <1>b, <1>o DEF OpenTab_, LaunchFits
<1>11. ASSUME NEW i \in 1..Len(tabs), CloseTab_(i) PROVE LaunchFits'
  <2>1. RemoveAt(tabs, i) \in Seq(PLACES \cup {LocalTab})
    BY <1>0 DEF TabsFit, RemoveAt
  <2>2. StoreFits' /\ TabsFit'
    BY <1>0, <1>11, <2>1, FewFit, TabsBecomeFits DEF CloseTab_
  <2> QED
    BY <1>11, <2>2, <1>r, <1>b, <1>o DEF CloseTab_, LaunchFits
<1>12. CASE ReopenTab
  <2>1. Last(store.tabs) \in PLACES
    BY <1>12, <1>o DEF ReopenTab
  <2>2. Append(tabs, Last(store.tabs)) \in Seq(PLACES \cup {LocalTab})
    BY <1>0, <2>1 DEF TabsFit
  <2>3. StoreFits' /\ TabsFit'
    BY <1>0, <1>12, <2>2, FewFit, TabsBecomeFits DEF ReopenTab
  <2> QED
    BY <1>12, <2>3, <1>r, <1>b, <1>o DEF ReopenTab, LaunchFits
<1>13. CASE RestoreDecided
  <2>1. RestoreFits'
    BY <1>0, <1>13 DEF RestoreDecided, RestoreFits
  <2>2. ASSUME restore.auto = "yes" PROVE StoreFits' /\ TabsFit'
    <3>1. PICK t : t = Restored(restore.tabs, restore.known)
      OBVIOUS
    <3>2. t \in Seq(PLACES \cup {LocalTab})
      BY <1>0, <3>1, RestoredFits DEF RestoreFits
    <3>3. TabsBecome(t, <<>>)
      BY <1>13, <2>2, <3>1 DEF RestoreDecided
    <3> QED
      BY <1>0, <3>2, <3>3, FewFit, TabsBecomeFits
  <2>3. ASSUME restore.auto = "no" PROVE StoreFits' /\ TabsFit'
    <3>1. Forgotten(<<>>)
      BY <1>13, <2>3 DEF RestoreDecided
    <3> QED
      BY <1>0, <3>1, FewFit, ForgottenFits
  <2>4. ASSUME restore.auto # "yes", restore.auto # "no" PROVE StoreFits' /\ TabsFit'
    <3>1. UNCHANGED <<tabs, store, writes, lost, emptied>>
      BY <1>13, <2>4 DEF RestoreDecided
    <3> QED
      BY <3>1, <1>s, <1>t
  <2>5. StoreFits' /\ TabsFit'
    BY <2>2, <2>3, <2>4
  <2>6. known' \in {{}, PLACES}
    BY <1>13, <1>o DEF RestoreDecided
  <2> QED
    BY <1>13, <2>1, <2>5, <2>6, <1>b, <1>o DEF RestoreDecided, LaunchFits
<1>14. ASSUME NEW remember \in BOOLEAN, PromptAnswered(remember) PROVE LaunchFits'
  <2>1. RestoreFits'
    BY <1>0, <1>14 DEF PromptAnswered, RestoreFits
  <2>2. PICK f, g : /\ f = (IF remember THEN [auto |-> "yes"] ELSE <<>>)
                    /\ g = (IF remember THEN [auto |-> "no"] ELSE <<>>)
    OBVIOUS
  <2>3. Changes(f) /\ Changes(g)
    BY <2>2, FewFit DEF Autos
  <2>4. TabsBecome(Restored(store.tabs, known), f) \/ Forgotten(g)
    BY <1>14, <2>2 DEF PromptAnswered
  <2>5. Restored(store.tabs, known) \in Seq(PLACES \cup {LocalTab})
    <3>1. store.tabs \in Seq(PLACES)
      BY <1>0 DEF Settings, Changes, Worth, Keys
    <3> QED
      BY <1>0, <1>o, <3>1, RestoredFits
  <2>6. StoreFits' /\ TabsFit'
    BY <1>0, <2>3, <2>4, <2>5, TabsBecomeFits, ForgottenFits
  <2> QED
    BY <1>14, <2>1, <2>6, <1>b, <1>o DEF PromptAnswered, LaunchFits
<1>15. ASSUME NEW k \in {"auto", "close"}, NEW v, Configure(k, v) PROVE LaunchFits'
  <2>1. PICK f : f = [x \in {k} |-> v]
    OBVIOUS
  <2>2. Changes(f) /\ SetAll(store, f)
    BY <1>15, <2>1 DEF Configure, Changes, Worth, Keys, Autos, Actions
  <2>3. StoreFits'
    BY <1>0, <2>2, SetAllFits
  <2> QED
    BY <1>15, <2>3, <1>r, <1>t, <1>b, <1>o DEF Configure, LaunchFits
<1>16. CASE CloseRequested
  BY <1>16, <1>s, <1>r, <1>t, <1>b, <1>o DEF CloseRequested, LaunchFits, histories
<1>17. CASE CloseCancelled
  BY <1>17, <1>s, <1>r, <1>t, <1>b, <1>o DEF CloseCancelled, LaunchFits, histories
<1>18. ASSUME NEW action \in Actions, NEW remember \in BOOLEAN, CloseChosen(action, remember)
       PROVE LaunchFits'
  <2>1. PICK f : f = [close |-> action]
    OBVIOUS
  <2>2. Changes(f) /\ (SetAll(store, f) \/ UNCHANGED <<store, writes, lost>>)
    BY <1>18, <2>1, FewFit DEF CloseChosen
  <2>3. StoreFits'
    BY <1>0, <1>s, <2>2, SetAllFits
  <2> QED
    BY <1>18, <2>3, <1>r, <1>t, <1>b, <1>o DEF CloseChosen, LaunchFits
<1>19. CASE Restarted
  <2>r. RestoreFits'
    <3>1. restore' = [st |-> "none", tabs |-> <<>>, known |-> {}, auto |-> "ask"]
      BY <1>19 DEF Restarted, Starts, Idle
    <3> QED
      BY <3>1 DEF RestoreFits
  <2>t. TabsFit'
    <3>1. tabs' = <<>> /\ emptied' = FALSE
      BY <1>19 DEF Restarted, Starts
    <3>2. <<>> \in Seq(PLACES \cup {LocalTab})
      OBVIOUS
    <3> QED
      BY <3>1, <3>2 DEF TabsFit
  <2>2. lost' \subseteq Keys
    BY <1>19 DEF Restarted, Starts
  <2>3. StoreFits'
    BY <1>19, <2>2, DefaultsFit DEF Restarted, Starts, StoreFits, Settings, Changes
  <2>4. boot'.st = "asked" /\ boot'.was = Defaults
    BY <1>19 DEF Restarted, Starts
  <2>5. RestFits'
    BY <1>0, <1>19, <2>4, DefaultsFit DEF Restarted, Starts, RestFits, Settings, Changes
  <2> QED
    BY <2>r, <2>t, <2>3, <2>5 DEF LaunchFits
<1> QED
  BY <1>1, <1>2, <1>3, <1>4, <1>5, <1>6, <1>7, <1>8, <1>9, <1>10, <1>11, <1>12, <1>13, <1>14, <1>15,
     <1>16, <1>17, <1>18, <1>19 DEF LaunchNext

(* Whatever is remembered, read, lost or restored fits its key. *)
THEOREM LaunchTyped == LaunchSpec => []LaunchTypeOK
BY LaunchFitsInit, LaunchFitsStep, LaunchTypesFollow, PTL DEF LaunchSpec

----------------------------------------------------------------------------
(* The screens side by side *)

(* A step of one is a step of its own, or none, for each of them.          *)
LEMMA ScreensAreFour == ScreensSpec => InvSpec /\ PinSpec /\ LaunchSpec /\ CmdSpec
<1>1. ScreensInit => InvInit /\ PinInit /\ LaunchInit /\ CmdInit
  BY DEF ScreensInit
<1>2. [ScreensNext]_<<unit, ivars, pinVars, launchVars, cmdVars>> =>
        /\ [InvNext]_ivars /\ [PinNext]_pinVars
        /\ [LaunchNext]_launchVars /\ [CmdNext]_cmdVars
  BY DEF ScreensNext
<1> QED
  BY <1>1, <1>2, PTL DEF ScreensSpec, InvSpec, PinSpec, LaunchSpec, CmdSpec

(* The types of all four, in every behaviour of the composition.           *)
THEOREM ScreensTyped == ScreensSpec => []ScreensTypeOK
<1>1. InvTypeOK /\ PinTypeOK /\ LaunchTypeOK /\ CmdTypeOK => ScreensTypeOK
  BY DEF ScreensTypeOK
<1> QED
  BY <1>1, ScreensAreFour, InventoryTypesHold, PinTyped, LaunchTyped, CommandsTyped, PTL
============================================================================
