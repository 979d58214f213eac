------------------------------ MODULE PinLock ------------------------------
(***************************************************************************)
(* The access PIN: its dialogs (components/SecuritySection.tsx), the       *)
(* unlock screen (components/UnlockOverlay.tsx), stores/useVaultStore.ts,  *)
(* the pinLength setting of stores/useSettingsStore.ts and                 *)
(* src-tauri/src/vault/mod.rs.  What lock() closes is in VaultLock; here   *)
(* it takes a while and then sets `locked`.  The program may be killed     *)
(* and restarted at any moment: only the two rows of `settings` survive.   *)
(***************************************************************************)
EXTENDS Naturals, FiniteSets

CONSTANTS PINS, PinLen(_),   \* the PINs in play and how many digits they have
          CALLS,          \* bound: commands on their way at once
          STEPS,          \* bound: calls, locks, failures and restarts of a behaviour
          NoPin

ASSUME PinAssumption ==
    NoPin \notin PINS /\ (\A p \in PINS : PinLen(p) \in 4..12) /\ STEPS \in Nat

VARIABLES
    hash,      \* settings row master_password_hash
    savedLen,  \* settings row pin_length; 0 is null
    hasPin,    \* useVaultStore.hasMaster
    locked,    \* useVaultStore.locked
    pinLen,    \* useSettingsStore.pinLength
    call,      \* [CALLS -> a command on its way]
    dialog,    \* the PIN dialog on screen and whether it is submitting
    pad,       \* the unlock screen: digits typed, of which PIN, status, timers
    locking,   \* how many lock() calls are closing sessions
    steps,
    opened,    \* history: the PIN was given, or chosen, since start or lock
    slips      \* history: the mishaps after which less is promised

pinVars == <<hash, savedLen, hasPin, locked, pinLen, call, dialog, pad, locking, steps,
             opened, slips>>

----------------------------------------------------------------------------
(* State *)

NoCall == [st |-> "free", op |-> "none", cur |-> NoPin, new |-> NoPin, n |-> 0,
           res |-> FALSE, stale |-> FALSE, late |-> FALSE]
NoPinDialog == [kind |-> "none", busy |-> FALSE]
FreshPad == [pin |-> NoPin, n |-> 0, status |-> "idle", timers |-> 0]
Command(op, cur, new, n) ==
    [NoCall EXCEPT !.st = "asked", !.op = op, !.cur = cur, !.new = new, !.n = n]

PinOps == {"set", "change", "disable"}     \* commands that write the hash
Digits(p) == IF p = NoPin THEN 0 ELSE PinLen(p)
Busy(op) == \E q \in CALLS : call[q].st # "free" /\ call[q].op = op
Settled == \A q \in CALLS : call[q].op \in {"none", "verify", "len"}

OneOf(s) == IF s = {} THEN {} ELSE {CHOOSE x \in s : TRUE}   \* calls are interchangeable

(* MainLayout's first effect asks for the settings and whether there is a PIN. *)
Booted(calls) ==
    \E q1 \in OneOf(CALLS) : \E q2 \in OneOf(CALLS \ {q1}) :
       calls = [q \in CALLS |-> IF q = q1 THEN Command("hydrate", NoPin, NoPin, 0)
                                   ELSE IF q = q2 THEN Command("settings", NoPin, NoPin, 0)
                                   ELSE NoCall]

PinInit ==
    /\ hash \in PINS \cup {NoPin}
    /\ savedLen \in {0, Digits(hash)}
    /\ hasPin = FALSE /\ locked = FALSE /\ pinLen = 0
    /\ Booted(call)
    /\ dialog = NoPinDialog /\ pad = FreshPad
    /\ locking = 0 /\ steps = 0 /\ opened = FALSE /\ slips = {}

FreeCall == OneOf({q \in CALLS : call[q].st = "free"})

Ask_(c) ==
    /\ steps < STEPS /\ steps' = steps + 1
    /\ \E q \in FreeCall : call' = [call EXCEPT ![q] = c]

----------------------------------------------------------------------------
(* The PIN dialogs *)

(* "Activer" without a PIN, "Changer" and "Désactiver" with one. *)
OpenPinDialog(kind) ==
    /\ ~locked /\ dialog.kind = "none"
    /\ kind \in IF hasPin THEN {"change", "disable"} ELSE {"set"}
    /\ dialog' = [kind |-> kind, busy |-> FALSE]
    /\ UNCHANGED <<hash, savedLen, hasPin, locked, pinLen, call, pad, locking, steps, opened, slips>>

(* SecuritySection is mounted, and refreshes. *)
OpenSecurity ==
    /\ ~locked
    /\ Ask_(Command("has", NoPin, NoPin, 0))
    /\ UNCHANGED <<hash, savedLen, hasPin, locked, pinLen, dialog, pad, locking, opened, slips>>

(* Escape also closes a dialog that is submitting. *)
DismissPin ==
    /\ ~locked /\ dialog.kind # "none"
    /\ dialog' = NoPinDialog
    /\ UNCHANGED <<hash, savedLen, hasPin, locked, pinLen, call, pad, locking, steps, opened, slips>>

SubmitPin ==
    /\ ~locked /\ dialog.kind # "none" /\ ~dialog.busy
    /\ \E cur \in IF dialog.kind = "set" THEN {NoPin} ELSE PINS,
          new \in IF dialog.kind = "disable" THEN {NoPin} ELSE PINS :
          Ask_(Command(dialog.kind, cur, new, 0))
    /\ dialog' = [dialog EXCEPT !.busy = TRUE]
    /\ UNCHANGED <<hash, savedLen, hasPin, locked, pinLen, pad, locking, opened, slips>>

----------------------------------------------------------------------------
(* vault/mod.rs and the settings table.  set, change and disable check, then
   compute a hash, then write: nothing locks the row in between. *)

PinCheck(q) ==
    LET c == call[q] IN
    /\ c.st = "asked" /\ c.op \in PinOps
    /\ call' = [call EXCEPT ![q].st = IF hash = c.cur THEN "checked" ELSE "failed"]
    /\ UNCHANGED <<hash, savedLen, hasPin, locked, pinLen, dialog, pad, locking, steps, opened, slips>>

(* What other commands have read or written before is outdated. *)
PinWrite(q) ==
    LET c == call[q] IN
    /\ c.st = "checked"
    /\ hash' = c.new
    /\ opened' = (opened \/ hash = NoPin)
    /\ call' = [x \in CALLS |->
          IF x = q THEN [c EXCEPT !.st = "ok"]
          ELSE [call[x] EXCEPT !.stale = @ \/ call[x].st = "ok"]]
    /\ slips' = IF c.op = "disable" /\ (locked \/ locking > 0) THEN slips \cup {"disabled"} ELSE slips
    /\ UNCHANGED <<savedLen, hasPin, locked, pinLen, dialog, pad, locking, steps>>

PinRead(q) ==
    LET c == call[q] IN
    /\ c.st = "asked" /\ c.op \in {"has", "hydrate", "settings", "verify"}
    /\ call' = [call EXCEPT ![q].st = "ok",
                            ![q].n = IF c.op = "settings" THEN savedLen ELSE c.n,
                            ![q].res = CASE c.op = "verify" -> c.cur = hash /\ c.n = Digits(hash)
                                         [] OTHER -> hash # NoPin]
    /\ UNCHANGED <<hash, savedLen, hasPin, locked, pinLen, dialog, pad, locking, steps, opened, slips>>

(* set_setting("pin_length"): its answer is not awaited, nor is its failure. *)
LenWrite(q) ==
    /\ call[q].st = "asked" /\ call[q].op = "len"
    /\ savedLen' = call[q].n
    /\ call' = [call EXCEPT ![q] = NoCall]
    /\ UNCHANGED <<hash, hasPin, locked, pinLen, dialog, pad, locking, steps, opened, slips>>

----------------------------------------------------------------------------
(* The answers *)

(* settings.set("pinLength", n): the store at once, then the command, in q. *)
Remember(q, n, rest) ==
    /\ pinLen' = n
    /\ call' = [rest EXCEPT ![q] = Command("len", NoPin, NoPin, n)]
    /\ slips' = slips \cup (IF call[q].stale \/ Busy("len") \/ Busy("settings")
                            THEN {"overlap"} ELSE {})

(* Mutant: the new length is not recorded. *)
PinAnsweredForgets(q) ==
    LET c == call[q] IN
    /\ c.st = "ok" /\ c.op \in PinOps
    /\ \E r \in FreeCall : call' = [call EXCEPT ![r] = Command("has", NoPin, NoPin, 0), ![q] = NoCall]
    /\ dialog' = IF dialog.kind = c.op THEN NoPinDialog ELSE dialog
    /\ UNCHANGED <<hash, savedLen, hasPin, locked, pinLen, pad, locking, steps, opened, slips>>

(* A dialog's success: pinLength, refresh(), and its dialog closes even if the
   user has closed and reopened it in the meantime. *)
PinAnswered(q) ==
    LET c == call[q] IN
    /\ c.st = "ok" /\ c.op \in PinOps
    /\ \E r \in FreeCall :
          Remember(q, Digits(c.new), [call EXCEPT ![r] = Command("has", NoPin, NoPin, 0)])
    /\ dialog' = IF dialog.kind = c.op THEN NoPinDialog ELSE dialog
    /\ UNCHANGED <<hash, savedLen, hasPin, locked, pad, locking, steps, opened>>

PinRefused(q) ==
    LET c == call[q] IN
    /\ c.st = "failed"
    /\ dialog' = IF dialog.kind = c.op THEN [dialog EXCEPT !.busy = FALSE] ELSE dialog
    /\ call' = [call EXCEPT ![q] = NoCall]
    /\ UNCHANGED <<hash, savedLen, hasPin, locked, pinLen, pad, locking, steps, opened, slips>>

Refreshed_(q) ==
    LET c == call[q] IN
    /\ c.st = "ok" /\ c.op = "has"
    /\ hasPin' = c.res
    /\ call' = [call EXCEPT ![q] = NoCall]
    /\ UNCHANGED <<hash, savedLen, locked, pinLen, dialog, pad, locking, steps, opened, slips>>

(* Mutant: hydrate() only tells whether there is a PIN. *)
HydratedOpen(q) ==
    LET c == call[q] IN
    /\ c.st = "ok" /\ c.op = "hydrate"
    /\ hasPin' = c.res
    /\ slips' = IF c.stale THEN slips \cup {"overlap"} ELSE slips
    /\ call' = [call EXCEPT ![q] = NoCall]
    /\ UNCHANGED <<hash, savedLen, locked, pinLen, dialog, pad, locking, steps, opened>>

(* An answer that comes so late that the screen is already there may take it
   away. *)
Hydrated(q) ==
    LET c == call[q] IN
    /\ c.st = "ok" /\ c.op = "hydrate"
    /\ hasPin' = c.res /\ locked' = c.res
    /\ slips' = slips \cup (IF c.stale THEN {"overlap"} ELSE {})
                    \cup (IF locked /\ ~c.res THEN {"late", "unread"} ELSE {})
    /\ call' = [call EXCEPT ![q] = NoCall]
    /\ UNCHANGED <<hash, savedLen, pinLen, dialog, pad, locking, steps, opened>>

SettingsRead(q) ==
    LET c == call[q] IN
    /\ c.st = "ok" /\ c.op = "settings"
    /\ pinLen' = c.n
    /\ call' = [call EXCEPT ![q] = NoCall]
    /\ UNCHANGED <<hash, savedLen, hasPin, locked, dialog, pad, locking, steps, opened, slips>>

(* Any command may fail; hydrate() and set() swallow it. *)
CallFails(q) ==
    LET c == call[q] IN
    /\ c.st = "asked" /\ c.op # "verify"
    /\ steps < STEPS /\ steps' = steps + 1
    /\ dialog' = IF dialog.kind = c.op THEN [dialog EXCEPT !.busy = FALSE] ELSE dialog
    /\ call' = [call EXCEPT ![q] = NoCall]
    /\ slips' = slips \cup (IF c.op = "len" THEN {"failed"} ELSE {})
                    \cup (IF c.op = "hydrate" THEN {"unread"} ELSE {})
    /\ UNCHANGED <<hash, savedLen, hasPin, locked, pinLen, pad, locking, opened>>

----------------------------------------------------------------------------
(* lock() and the unlock screen *)

(* "Lock now" or the idle timer, another lock() under way or not. *)
LockCalled ==
    /\ hasPin /\ ~locked
    /\ steps < STEPS /\ steps' = steps + 1
    /\ locking' = locking + 1
    /\ slips' = IF hash = NoPin THEN slips \cup {"disabled"} ELSE slips
    /\ UNCHANGED <<hash, savedLen, hasPin, locked, pinLen, call, dialog, pad, opened>>

(* What was already on its way when the screen appears is late. *)
LockDone ==
    /\ locking > 0 /\ locking' = locking - 1
    /\ locked' = TRUE /\ opened' = FALSE
    /\ call' = [q \in CALLS |-> [call[q] EXCEPT !.late = @ \/ (~locked /\ call[q].op = "verify")]]
    /\ slips' = slips \ {"unread"}
    /\ UNCHANGED <<hash, savedLen, hasPin, pinLen, dialog, pad, steps>>

(* Mutant: the status is not looked at. *)
SubmitPadAgain(p, n) ==
    /\ locked
    /\ n >= 4
    /\ Ask_(Command("verify", p, NoPin, n))
    /\ pad' = [pad EXCEPT !.pin = p, !.n = n, !.status = "verifying"]

SubmitPad(p, n) ==
    /\ locked
    /\ pad.status # "verifying"
    /\ n >= 4
    /\ Ask_(Command("verify", p, NoPin, n))
    /\ pad' = [pad EXCEPT !.pin = p, !.n = n, !.status = "verifying"]

(* The field now holds the first n digits of p; it submits itself at the
   remembered length. *)
Typed(p, n) ==
    /\ locked /\ pad.status # "verifying"
    /\ IF pinLen >= 4 /\ n = pinLen THEN SubmitPad(p, n)
       ELSE /\ <<p, n>> # <<pad.pin, pad.n>>
            /\ pad' = [pad EXCEPT !.pin = p, !.n = n, !.status = "idle"]
            /\ UNCHANGED <<call, steps>>
    /\ UNCHANGED <<hash, savedLen, hasPin, locked, pinLen, dialog, locking, opened, slips>>

PressEnter ==
    /\ pad.pin # NoPin
    /\ SubmitPad(pad.pin, pad.n)
    /\ UNCHANGED <<hash, savedLen, hasPin, locked, pinLen, dialog, locking, opened, slips>>

(* The screen goes, for 350 ms with "success" on it, and is reset when it is
   shown again. *)
Accepted(q) ==
    LET c == call[q] IN
    /\ c.st = "ok" /\ c.op = "verify" /\ c.res
    /\ locked' = FALSE /\ opened' = TRUE
    /\ Remember(q, c.n, call)
    /\ pad' = [FreshPad EXCEPT !.timers = pad.timers]
    /\ UNCHANGED <<hash, savedLen, hasPin, dialog, locking, steps>>

(* A wrong PIN is cleared, a failure leaves it; 450 ms later the status is idle
   again, whatever it has become. *)
Rejected(q) ==
    LET c == call[q] IN
    /\ c.op = "verify"
    /\ c.st = "asked" \/ (c.st = "ok" /\ ~c.res)
    /\ pad' = IF ~locked THEN [pad EXCEPT !.timers = @ + 1]
              ELSE [pad EXCEPT !.status = "error", !.timers = @ + 1,
                               !.pin = IF c.st = "ok" THEN NoPin ELSE @,
                               !.n = IF c.st = "ok" THEN 0 ELSE @]
    /\ call' = [call EXCEPT ![q] = NoCall]
    /\ UNCHANGED <<hash, savedLen, hasPin, locked, pinLen, dialog, locking, steps, opened, slips>>

TimerFires ==
    /\ pad.timers > 0
    /\ pad' = [pad EXCEPT !.timers = @ - 1, !.status = "idle"]
    /\ slips' = IF pad.status = "verifying" THEN slips \cup {"timer"} ELSE slips
    /\ UNCHANGED <<hash, savedLen, hasPin, locked, pinLen, call, dialog, locking, steps, opened>>

----------------------------------------------------------------------------

(* Killed and started again. *)
Restart ==
    /\ steps < STEPS /\ steps' = steps + 1
    /\ hasPin' = FALSE /\ locked' = FALSE /\ pinLen' = 0
    /\ Booted(call')
    /\ dialog' = NoPinDialog /\ pad' = FreshPad /\ locking' = 0 /\ opened' = FALSE
    /\ slips' = (slips \ {"timer", "late", "unread"})
                  \cup (IF \E q \in CALLS : \/ call[q].op = "len"
                                         \/ (call[q].op \in PinOps /\ call[q].st = "ok")
                        THEN {"crash"} ELSE {})
    /\ UNCHANGED <<hash, savedLen>>

PinNext ==
    \/ \E kind \in PinOps : OpenPinDialog(kind)
    \/ OpenSecurity \/ DismissPin \/ SubmitPin \/ LockCalled \/ LockDone \/ PressEnter \/ TimerFires \/ Restart
    \/ \E p \in PINS : \E n \in 4..PinLen(p) : Typed(p, n)
    \/ \E q \in CALLS : \/ PinCheck(q) \/ PinWrite(q) \/ PinRead(q) \/ LenWrite(q) \/ CallFails(q)
                        \/ PinAnswered(q) \/ PinRefused(q) \/ Refreshed_(q) \/ Hydrated(q)
                        \/ SettingsRead(q) \/ Accepted(q) \/ Rejected(q)

PinSpec == PinInit /\ [][PinNext]_pinVars

----------------------------------------------------------------------------
(* Properties *)

PinTypeOK ==
    /\ hash \in PINS \cup {NoPin}
    /\ {savedLen, pinLen} \subseteq {0} \cup {PinLen(p) : p \in PINS}
    /\ {hasPin, locked, opened} \subseteq BOOLEAN /\ locking \in Nat
    /\ call \in [CALLS -> [st : {"free", "asked", "checked", "ok", "failed"},
                           op : {"none", "hydrate", "settings", "has", "len", "verify"} \cup PinOps,
                           cur : PINS \cup {NoPin}, new : PINS \cup {NoPin}, n : 0..12,
                           res : BOOLEAN, stale : BOOLEAN, late : BOOLEAN]]
    /\ dialog \in [kind : {"none"} \cup PinOps, busy : BOOLEAN]
    /\ pad.status \in {"idle", "verifying", "error"} /\ pad.timers \in 0..STEPS
    /\ slips \subseteq {"disabled", "overlap", "failed", "timer", "late", "crash", "unread"}

(* "If a PIN is set, the app starts locked": the program is usable with a PIN
   set only if the user gave that PIN, or chose it, since it started or locked.
   What hydrate() leaves open is excepted: until it has answered, and then, if
   it failed or came back so late that it took a lock screen away, until the
   program is locked or started again.  No other command that fails, or meets
   another one, opens anything. *)
StartsLocked ==
    hash # NoPin /\ ~locked => opened \/ Busy("hydrate") \/ "unread" \in slips

(* The user is never locked out: behind the lock screen there is a PIN, and the
   screen does not submit before its last digit can be typed.  A PIN disabled
   while lock() was under way, a length that was read or sent while another one
   was, or came from an outdated answer, one that could not be saved, and a
   crash between the hash and its length are the only ways to lose this. *)
NeverLockedOut ==
    locked /\ Settled /\ slips \subseteq {"timer", "late", "unread"} =>
        hash # NoPin /\ (pinLen = 0 \/ pinLen >= PinLen(hash))

(* The lock screen goes away only for a PIN typed on it: a verification left
   over from an earlier lock does not open it, unless the timer of a failed
   attempt had let two verifications overlap, or a hydrate() came back late and
   had taken the screen away. *)
UnlockIsAnswered ==
    [][locked /\ ~locked' /\ slips' \cap {"timer", "late"} = {} =>
          \/ Restart
          \/ \E q \in CALLS : call[q].op = "verify" /\ ~call[q].late /\ Accepted(q)]_pinVars
=============================================================================
