--------------------------- MODULE GitSyncProofs ---------------------------
(***************************************************************************)
(* Proofs about GitSync.  On a machine where no push and pull have ever    *)
(* been in flight together, what each of them knows at each of its stages  *)
(* is related to the clone, to the row of sync_state and to the database;  *)
(* the relations, stage by stage, are the inductive invariant.             *)
(***************************************************************************)
EXTENDS GitSync, TLAPS

Fetching == {"fetched", "reset", "read", "wiped", "filled"}
Shipping == {"snapped", "written", "committed"}

(* The vault of commit n, and a vault the database has all of, but for     *)
(* what the user deleted.                                                  *)
At(n) == IF n = 0 THEN {} ELSE branch[n]
Kept(vault, d) == vault \ removed[d] \subseteq db[d]

(* The commits a machine knows of are commits of the branch. *)
Bounded(d) ==
  /\ work[d].base \in 0..Len(branch)
  /\ last[d] \in 0..Len(branch)
  /\ pull[d].seen \in 0..Len(branch)
  /\ pull[d].stage \in Fetching => pull[d].fetched \in 1..Len(branch)

Alone(d) == push[d].stage = "idle" \/ pull[d].stage = "idle"

(* A pull that goes on has found a commit newer than the row's. *)
RowRead(d) ==
  /\ pull[d].stage # "idle" => last[d] \in {0, pull[d].seen}
  /\ pull[d].stage \in Fetching => last[d] < pull[d].fetched

(* It carries the vault of that commit from the clone to the database. *)
CloneRead(d) ==
  /\ pull[d].stage \in {"reset", "read", "wiped", "filled"} => work[d].base = pull[d].fetched
  /\ pull[d].stage \in {"reset", "read", "wiped"} => unread[d]
  /\ pull[d].stage = "reset" => work[d].file = At(pull[d].fetched)
  /\ pull[d].stage \in {"read", "wiped"} => pull[d].bundle = At(pull[d].fetched)
  /\ pull[d].stage = "filled" => Kept(At(pull[d].fetched), d)

(* A push carries its snapshot to the branch. *)
SnapShipped(d) ==
  /\ push[d].stage \in Shipping => Kept(push[d].snap, d)
  /\ push[d].stage \in {"written", "committed"} => work[d].file = push[d].snap
  /\ push[d].stage = "written" => work[d].dirty
  /\ push[d].stage = "committed" => work[d].ahead
  /\ push[d].stage = "pushed" => Kept(At(work[d].base), d)

(* What the clone stands at is in the database, or in the snapshot taken of it. *)
Taken(d) ==
  ~unread[d] =>
    /\ push[d].stage \in Shipping => At(work[d].base) \ removed[d] \subseteq push[d].snap
    /\ push[d].stage \notin Shipping => Kept(At(work[d].base), d)

(* What the row names is in the database, while it is the last commit. *)
Applied(d) == last[d] # 0 /\ last[d] = Len(branch) => Kept(At(last[d]), d)

Orderly(d) == /\ Alone(d)
              /\ RowRead(d)
              /\ CloneRead(d)
              /\ SnapShipped(d)
              /\ Taken(d)
              /\ Applied(d)

DeviceInv(d) == Bounded(d) /\ (overlapped[d] \/ Orderly(d))

(* The inductive invariant. *)
SyncInv == SyncTypeOK /\ \A d \in Device : DeviceInv(d)

---------------------------------------------------------------------------
(* How a step changes the branch, and a machine that takes no step. *)
Grows == \/ UNCHANGED branch
         \/ /\ Len(branch) < MaxCommits
            /\ \E vault \in Vault : branch' = Append(branch, vault)

Stays(d) == UNCHANGED <<db[d], work[d], push[d], pull[d], last[d], removed[d],
                        unread[d], overlapped[d]>>

(* The branch keeps its commits. *)
LEMMA BranchGrows ==
  ASSUME SyncTypeOK, Grows
  PROVE  /\ branch' \in Seq(Vault)
         /\ Len(branch') \in Commits
         /\ Len(branch) <= Len(branch')
         /\ \A n \in 1..Len(branch) : branch'[n] = branch[n]
         /\ Len(branch') = Len(branch) => UNCHANGED branch
<1>1. branch \in Seq(Vault) /\ Len(branch) \in Nat /\ Len(branch) <= MaxCommits
  BY DEF SyncTypeOK, Commits
<1>2. CASE UNCHANGED branch
  BY <1>1, <1>2, MaxCommitsAssumption DEF Commits
<1>3. ASSUME NEW vault \in Vault, Len(branch) < MaxCommits, branch' = Append(branch, vault)
      PROVE  /\ branch' \in Seq(Vault)
             /\ Len(branch') = Len(branch) + 1
             /\ \A n \in 1..Len(branch) : branch'[n] = branch[n]
  BY <1>1, <1>3
<1> QED
  BY <1>1, <1>2, <1>3, MaxCommitsAssumption DEF Grows, Commits

(* A machine that takes no step keeps its invariant when the branch grows. *)
LEMMA Elsewhere ==
  ASSUME SyncTypeOK, Grows, NEW d \in Device, DeviceInv(d), Stays(d)
  PROVE  DeviceInv(d)'
<1>1. /\ Len(branch) \in Nat /\ Len(branch') \in Nat /\ Len(branch) <= Len(branch')
      /\ \A n \in 1..Len(branch) : branch'[n] = branch[n]
      /\ Len(branch') = Len(branch) => UNCHANGED branch
  BY BranchGrows DEF SyncTypeOK, Commits
<1>2. Bounded(d) /\ Bounded(d)'
  BY <1>1 DEF DeviceInv, Bounded, Stays
<1>3. ASSUME Orderly(d) PROVE Orderly(d)'
  <2>1. /\ Alone(d) /\ RowRead(d) /\ CloneRead(d) /\ SnapShipped(d) /\ Taken(d) /\ Applied(d)
    BY <1>3 DEF Orderly
  <2>2. Alone(d)' /\ RowRead(d)'
    BY <2>1 DEF Alone, RowRead, Stays
  <2>3. CloneRead(d)'
    BY <1>1, <1>2, <2>1 DEF CloneRead, Bounded, Fetching, At, Kept, Stays
  <2>4. SnapShipped(d)'
    BY <1>1, <1>2, <2>1 DEF SnapShipped, Bounded, At, Kept, Stays
  <2>5. Taken(d)'
    BY <1>1, <1>2, <2>1 DEF Taken, Bounded, At, Kept, Stays
  <2>6. Applied(d)'
    BY <1>1, <1>2, <2>1 DEF Applied, Bounded, At, Kept, Stays
  <2> QED
    BY <2>2, <2>3, <2>4, <2>5, <2>6 DEF Orderly
<1> QED
  BY <1>2, <1>3 DEF DeviceInv, Stays
---------------------------------------------------------------------------
(* A fresh clone stands at the last commit, which counts as unread. *)
LEMMA WorkdirEnsured ==
  ASSUME SyncTypeOK, NEW d \in Device, EnsureWorkdir(d)
  PROVE  /\ work' \in [Device -> WorkRecord] /\ unread' \in [Device -> BOOLEAN]
         /\ \A e \in Device \ {d} : UNCHANGED <<work[e], unread[e]>>
         /\ \/ UNCHANGED <<work[d], unread[d]>>
            \/ /\ work'[d].base = Len(branch)
               /\ IF branch = <<>> THEN UNCHANGED unread[d] ELSE unread'[d]
<1> DEFINE fresh == IF branch = <<>> THEN EmptyRepo
                                    ELSE Clean(branch[Len(branch)], Len(branch))
<1>1. /\ branch \in Seq(Vault) /\ Len(branch) \in Commits
      /\ work \in [Device -> WorkRecord] /\ unread \in [Device -> BOOLEAN]
  BY DEF SyncTypeOK
<1>2. branch # <<>> => branch[Len(branch)] \in Vault
  BY <1>1, MaxCommitsAssumption DEF Commits
<1>3. fresh \in WorkRecord /\ fresh.base = Len(branch)
  BY <1>1, <1>2, MaxCommitsAssumption DEF EmptyRepo, Clean, WorkRecord, Commits, Vault
<1>4. /\ work' = [work EXCEPT ![d] = IF work[d].repo # "clone" THEN fresh ELSE work[d]]
      /\ unread' = [unread EXCEPT ![d] =
                      unread[d] \/ (work[d].repo # "clone" /\ branch # <<>>)]
  BY DEF EnsureWorkdir
<1> HIDE DEF fresh
<1>5. work' \in [Device -> WorkRecord] /\ unread' \in [Device -> BOOLEAN]
  BY <1>1, <1>3, <1>4
<1>6. \A e \in Device \ {d} : UNCHANGED <<work[e], unread[e]>>
  BY <1>1, <1>4
<1>7. CASE work[d].repo # "clone"
  BY <1>1, <1>3, <1>4, <1>7
<1>8. CASE work[d].repo = "clone"
  BY <1>1, <1>4, <1>8
<1> QED
  BY <1>5, <1>6, <1>7, <1>8

(* What a step on machine d does to the invariant. *)
Keeps(d) == /\ SyncTypeOK'
            /\ Grows
            /\ \A e \in Device \ {d} : Stays(e)
            /\ DeviceInv(d)'

(* The user creates or deletes an item.  A deleted one is no longer asked  *)
(* of the database.                                                        *)
LEMMA EditKeeps ==
  ASSUME SyncTypeOK, NEW d \in Device, DeviceInv(d), NEW i \in Item, Create(d, i) \/ Delete(d, i)
  PROVE  Keeps(d)
<1>1. SyncTypeOK'
  <2>1. /\ db' \in [Device -> Vault] /\ created' \in Vault /\ removed' \in [Device -> Vault]
        /\ UNCHANGED <<branch, work, push, pull, last, error, alert, configured, armed,
                       unread, overlapped>>
    BY DEF SyncTypeOK, Create, Delete, Vault, signs
  <2>2. due' \in [Device -> BOOLEAN]
    <3>1. ASSUME NEW shown \in BOOLEAN, Schedule(d, shown) PROVE due' \in [Device -> BOOLEAN]
      BY <3>1 DEF SyncTypeOK, Schedule
    <3>2. (i \in Watched) \in BOOLEAN
      OBVIOUS
    <3>3. Schedule(d, i \in Watched)
      BY DEF Create, Delete
    <3> QED
      BY <3>1, <3>2, <3>3
  <2> QED
    BY <2>1, <2>2 DEF SyncTypeOK
<1>2. /\ UNCHANGED <<branch, work, push, pull, last, unread, overlapped>>
      /\ \A vault \in Vault : Kept(vault, d) => vault \ removed'[d] \subseteq db'[d]
      /\ removed[d] \subseteq removed'[d]
      /\ \A e \in Device \ {d} : UNCHANGED <<db[e], removed[e]>>
  BY DEF SyncTypeOK, Create, Delete, Kept
<1>3. /\ \A n \in 0..Len(branch) : (IF n = 0 THEN {} ELSE branch[n]) \in Vault
      /\ push[d].snap \in Vault
      /\ {work[d].base, last[d]} \subseteq 0..Len(branch)
      /\ pull[d].stage \in Fetching => pull[d].fetched \in 0..Len(branch)
  BY DEF SyncTypeOK, Vault, PushRecord, DeviceInv, Bounded, Fetching
<1>4. Bounded(d)'
  BY <1>2 DEF DeviceInv, Bounded
<1>5. ASSUME Orderly(d) PROVE Orderly(d)'
  <2>1. /\ Alone(d) /\ RowRead(d) /\ CloneRead(d) /\ SnapShipped(d) /\ Taken(d) /\ Applied(d)
    BY <1>5 DEF Orderly
  <2>2. Alone(d)' /\ RowRead(d)'
    BY <1>2, <2>1 DEF Alone, RowRead
  <2>3. CloneRead(d)'
    BY <1>2, <1>3, <2>1 DEF CloneRead, Kept, At, Fetching
  <2>4. SnapShipped(d)'
    BY <1>2, <1>3, <2>1 DEF SnapShipped, Kept, At
  <2>5. Taken(d)'
    BY <1>2, <1>3, <2>1 DEF Taken, Kept, At
  <2>6. Applied(d)'
    BY <1>2, <1>3, <2>1 DEF Applied, Kept, At
  <2> QED
    BY <2>1, <2>2, <2>3, <2>4, <2>5, <2>6 DEF Orderly
<1> QED
  BY <1>1, <1>2, <1>4, <1>5 DEF Keeps, Grows, Stays, DeviceInv

(* What the store has read of a typed state is typed. *)
LEMMA StateRead ==
  ASSUME SyncTypeOK, NEW d \in Device, ReadState(d),
         configured' \in [Device -> BOOLEAN], error' \in [Device -> BOOLEAN]
  PROVE  armed' \in [Device -> BOOLEAN] /\ alert' \in [Device -> BOOLEAN]
BY DEF SyncTypeOK, ReadState

(* Synchronisation is switched on or off, where the row appears or goes, or *)
(* the settings are opened.                                                 *)
LEMMA SwitchKeeps ==
  ASSUME SyncTypeOK, NEW d \in Device, DeviceInv(d),
         Configure(d) \/ Disable(d) \/ OpenCard(d) \/ SavePassword(d)
  PROVE  Keeps(d)
<1>1. SyncTypeOK'
  <2>1. CASE Configure(d) \/ Disable(d) \/ OpenCard(d)
    <3>1. configured' \in [Device -> BOOLEAN] /\ error' \in [Device -> BOOLEAN] /\ ReadState(d)
      BY <2>1 DEF SyncTypeOK, Configure, Disable, OpenCard
    <3>2. armed' \in [Device -> BOOLEAN] /\ alert' \in [Device -> BOOLEAN]
      BY <3>1, StateRead
    <3>3. UNCHANGED <<branch, db, work, push, pull, due, history>>
      BY <2>1 DEF Configure, Disable, OpenCard
    <3>4. last' \in [Device -> Commits]
      BY <2>1, MaxCommitsAssumption DEF SyncTypeOK, Configure, Disable, OpenCard, Commits
    <3> QED
      BY <3>1, <3>2, <3>3, <3>4 DEF SyncTypeOK, history
  <2>2. CASE SavePassword(d)
    BY <2>2 DEF SyncTypeOK, SavePassword, signs, history
  <2> QED
    BY <2>1, <2>2
<1>2. /\ UNCHANGED <<branch, db, work, push, pull, removed, unread, overlapped>>
      /\ last'[d] \in {0, last[d]}
      /\ \A e \in Device \ {d} : UNCHANGED last[e]
  BY DEF SyncTypeOK, Configure, Disable, OpenCard, SavePassword, history
<1>3. Bounded(d)'
  BY <1>2 DEF DeviceInv, Bounded, SyncTypeOK
<1>4. ASSUME Orderly(d) PROVE Orderly(d)'
  BY <1>2, <1>4
     DEF Orderly, Alone, RowRead, CloneRead, SnapShipped, Taken, Applied, Kept, At,
         DeviceInv, Bounded, Fetching
<1> QED
  BY <1>1, <1>2, <1>3, <1>4 DEF Keeps, Grows, Stays, DeviceInv

(* A push starts, by a click or by the timer. *)
LEMMA PushStartKeeps ==
  ASSUME SyncTypeOK, NEW d \in Device, DeviceInv(d), PushStart(d), due' \in [Device -> BOOLEAN]
  PROVE  Keeps(d)
<1>1. push' \in [Device -> PushRecord]
  <2>1. [NoPush EXCEPT !.stage = "ready"] = [stage |-> "ready", snap |-> {}]
    BY DEF NoPush
  <2>2. [stage |-> "ready", snap |-> {}] \in PushRecord
    BY DEF PushRecord, Vault
  <2>3. push' = [push EXCEPT ![d] = [stage |-> "ready", snap |-> {}]]
    BY <2>1 DEF PushStart
  <2> QED
    BY <2>2, <2>3 DEF SyncTypeOK
<1>2. /\ UNCHANGED <<branch, db, pull, last, error, configured, created, removed>>
      /\ push'[d].stage = "ready" /\ push[d].stage = "idle"
      /\ \A e \in Device \ {d} : UNCHANGED <<push[e], overlapped[e]>>
      /\ overlapped' \in [Device -> BOOLEAN]
      /\ overlapped[d] => overlapped'[d]
      /\ pull[d].stage # "idle" => overlapped'[d]
      /\ alert' \in [Device -> BOOLEAN] /\ UNCHANGED armed
  BY DEF PushStart, SyncTypeOK, NoPush, Shows
<1>3. /\ work' \in [Device -> WorkRecord] /\ unread' \in [Device -> BOOLEAN]
      /\ \A e \in Device \ {d} : UNCHANGED <<work[e], unread[e]>>
      /\ \/ UNCHANGED <<work[d], unread[d]>>
         \/ /\ work'[d].base = Len(branch)
            /\ IF branch = <<>> THEN UNCHANGED unread[d] ELSE unread'[d]
  BY WorkdirEnsured DEF PushStart
<1>4. SyncTypeOK'
  BY <1>1, <1>2, <1>3 DEF SyncTypeOK
<1>5. Bounded(d)'
  BY <1>2, <1>3 DEF SyncTypeOK, Commits, DeviceInv, Bounded
<1>6. ASSUME Orderly(d), pull[d].stage = "idle" PROVE Orderly(d)'
  BY <1>2, <1>3, <1>6
     DEF SyncTypeOK, Orderly, Alone, RowRead, CloneRead, SnapShipped, Taken, Applied, Kept, At,
         Fetching, Shipping
<1> QED
  BY <1>2, <1>3, <1>4, <1>5, <1>6 DEF Keeps, Grows, Stays, DeviceInv

(* A pull starts, by a click or with the program; no push is in flight then, *)
(* or the two are known to overlap.                                         *)
LEMMA PullStartKeeps ==
  ASSUME SyncTypeOK, NEW d \in Device, DeviceInv(d), NEW startup \in BOOLEAN, PullStart(d, startup),
         UNCHANGED <<branch, db, last, error, configured, created, removed>>,
         due' \in [Device -> BOOLEAN], armed' \in [Device -> BOOLEAN],
         push' \in [Device -> PushRecord],
         push'[d].stage \in {"idle", push[d].stage},
         overlapped' \in [Device -> BOOLEAN],
         overlapped'[d] = (overlapped[d] \/ push'[d].stage # "idle"),
         \A e \in Device \ {d} : UNCHANGED <<push[e], overlapped[e]>>
  PROVE  Keeps(d)
<1> DEFINE ready == [NoPull EXCEPT !.stage = "ready"]
           asked == [ready EXCEPT !.seen = last[d]]
           called == [asked EXCEPT !.startup = startup]
<1>1. called \in PullRecord /\ called.stage = "ready" /\ called.seen = last[d]
  <2>1. ready \in PullRecord /\ ready.stage = "ready"
    <3>1. NoPull \in PullRecord
      BY MaxCommitsAssumption DEF NoPull, PullRecord, Commits, Vault
    <3> QED
      BY <3>1 DEF PullRecord
  <2> HIDE DEF ready
  <2>2. asked \in PullRecord /\ asked.stage = "ready" /\ asked.seen = last[d]
    BY <2>1 DEF SyncTypeOK, PullRecord
  <2> HIDE DEF asked
  <2> QED
    BY <2>2 DEF PullRecord
<1>2. /\ pull' \in [Device -> PullRecord]
      /\ pull'[d].stage = "ready" /\ pull'[d].seen = last[d]
      /\ \A e \in Device \ {d} : UNCHANGED pull[e]
  <2>1. pull' = [pull EXCEPT ![d] = called]
    BY DEF PullStart
  <2> HIDE DEF called
  <2> QED
    BY <1>1, <2>1 DEF SyncTypeOK
<1> HIDE DEF called
<1>3. /\ work' \in [Device -> WorkRecord] /\ unread' \in [Device -> BOOLEAN]
      /\ \A e \in Device \ {d} : UNCHANGED <<work[e], unread[e]>>
      /\ \/ UNCHANGED <<work[d], unread[d]>>
         \/ /\ work'[d].base = Len(branch)
            /\ IF branch = <<>> THEN UNCHANGED unread[d] ELSE unread'[d]
  BY WorkdirEnsured DEF PullStart
<1>4. SyncTypeOK'
  <2>1. alert' \in [Device -> BOOLEAN]
    BY DEF SyncTypeOK, PullStart, Shows
  <2> QED
    BY <1>2, <1>3, <2>1 DEF SyncTypeOK
<1>5. Bounded(d)'
  BY <1>2, <1>3 DEF SyncTypeOK, Commits, DeviceInv, Bounded, Fetching
<1>6. ASSUME Orderly(d), push'[d].stage = "idle" PROVE Orderly(d)'
  <2>1. /\ Alone(d) /\ SnapShipped(d) /\ Taken(d) /\ Applied(d)
    BY <1>6 DEF Orderly
  <2>2. Alone(d)' /\ RowRead(d)' /\ CloneRead(d)' /\ SnapShipped(d)' /\ Applied(d)'
    BY <1>2, <1>6, <2>1 DEF Alone, RowRead, CloneRead, SnapShipped, Applied, Kept, At,
                            Fetching, Shipping
  <2>3. ~unread[d] => Kept(At(work[d].base), d)
    BY <2>1 DEF SnapShipped, Taken, Kept
  <2>4. Taken(d)'
    BY <1>3, <1>6, <2>3 DEF SyncTypeOK, Taken, Kept, At, Shipping
  <2> QED
    BY <2>2, <2>4 DEF Orderly
<1> QED
  BY <1>2, <1>3, <1>4, <1>5, <1>6 DEF Keeps, Grows, Stays, DeviceInv

(* Whatever the user or the timer does keeps the invariant. *)
LEMMA UserKeeps ==
  ASSUME SyncTypeOK, NEW d \in Device, DeviceInv(d), UserStep(d) \/ TimerFires(d) \/ TimerLapses(d)
  PROVE  Keeps(d)
<1>1. ASSUME NEW i \in Item, Create(d, i) \/ Delete(d, i) PROVE Keeps(d)
  BY <1>1, EditKeeps
<1>2. CASE Configure(d) \/ Disable(d) \/ OpenCard(d) \/ SavePassword(d)
  BY <1>2, SwitchKeeps
<1>3. CASE ClickPush(d) \/ TimerFires(d)
  <2>1. PushStart(d) /\ due' \in [Device -> BOOLEAN]
    BY <1>3 DEF SyncTypeOK, ClickPush, TimerFires
  <2> QED
    BY <2>1, PushStartKeeps
<1>4. CASE ClickPull(d)
  <2>1. /\ PullStart(d, FALSE)
        /\ UNCHANGED <<branch, db, push, last, error, due, configured, armed, created, removed>>
        /\ overlapped' = [overlapped EXCEPT ![d] = overlapped[d] \/ push[d].stage # "idle"]
    BY <1>4 DEF ClickPull, signs, front
  <2>2. /\ due' \in [Device -> BOOLEAN] /\ armed' \in [Device -> BOOLEAN]
        /\ push' \in [Device -> PushRecord]
        /\ overlapped' \in [Device -> BOOLEAN]
        /\ overlapped'[d] = (overlapped[d] \/ push'[d].stage # "idle")
        /\ \A e \in Device \ {d} : UNCHANGED <<push[e], overlapped[e]>>
    BY <2>1 DEF SyncTypeOK
  <2> QED
    BY <2>1, <2>2, PullStartKeeps
<1>5. CASE TimerLapses(d)
  <2>1. SyncTypeOK'
    BY <1>5 DEF SyncTypeOK, TimerLapses, signs, history
  <2>2. UNCHANGED <<branch, db, work, push, pull, last, removed, unread, overlapped>>
    BY <1>5 DEF TimerLapses, history
  <2>3. Grows /\ \A e \in Device : Stays(e)
    BY <2>2 DEF Grows, Stays
  <2> QED
    BY <2>1, <2>3, Elsewhere DEF Keeps
<1> QED
  BY <1>1, <1>2, <1>3, <1>4, <1>5 DEF UserStep

(* A call that ends before it has written anything else, or fails before   *)
(* it has started, leaves no trace but the row's error and the status.     *)
LEMMA EndKeeps ==
  ASSUME SyncTypeOK, NEW d \in Device, DeviceInv(d),
         \/ PushRefused(d) \/ PushFails(d)
         \/ FetchFindsNothing(d) \/ UpToDate(d) \/ PullFails(d) \/ CallUnstarted(d)
  PROVE  Keeps(d)
<1>a. NoPush \in PushRecord /\ NoPush.stage = "idle"
  BY DEF NoPush, PushRecord, Vault
<1>b. NoPull \in PullRecord /\ NoPull.stage = "idle" /\ NoPull.seen = 0
  BY MaxCommitsAssumption DEF NoPull, PullRecord, Commits, Vault
<1>1. /\ \/ push' = [push EXCEPT ![d] = NoPush] /\ UNCHANGED pull
         \/ pull' = [pull EXCEPT ![d] = NoPull] /\ UNCHANGED push
         \/ UNCHANGED <<push, pull>>
      /\ Blame(d) \/ (UNCHANGED error /\ \E failed \in BOOLEAN : Shows(d, failed))
      /\ due' \in {due, [due EXCEPT ![d] = FALSE]}
      /\ UNCHANGED <<branch, db, work, last, configured, armed, created, removed, unread,
                     overlapped>>
  BY DEF PushRefused, PushFails, FetchFindsNothing, UpToDate, PullFails, CallUnstarted, front, history
<1>2. /\ push' \in [Device -> PushRecord] /\ pull' \in [Device -> PullRecord]
      /\ \A e \in Device \ {d} : UNCHANGED <<push[e], pull[e]>>
      /\ \/ push'[d].stage = "idle" /\ UNCHANGED pull[d]
         \/ pull'[d].stage = "idle" /\ pull'[d].seen = 0 /\ UNCHANGED push[d]
         \/ UNCHANGED <<push[d], pull[d]>>
  BY <1>a, <1>b, <1>1 DEF SyncTypeOK
<1>3. SyncTypeOK'
  <2>1. error' \in [Device -> BOOLEAN] /\ alert' \in [Device -> BOOLEAN]
    BY <1>1 DEF SyncTypeOK, Blame, Shows
  <2>2. due' \in [Device -> BOOLEAN]
    BY <1>1 DEF SyncTypeOK
  <2> QED
    BY <1>1, <1>2, <2>1, <2>2 DEF SyncTypeOK
<1>4. Bounded(d)'
  BY <1>1, <1>2 DEF SyncTypeOK, Commits, DeviceInv, Bounded, Fetching
<1>5. ASSUME Orderly(d) PROVE Orderly(d)'
  <2>1. /\ Alone(d) /\ RowRead(d) /\ CloneRead(d) /\ SnapShipped(d) /\ Taken(d) /\ Applied(d)
    BY <1>5 DEF Orderly
  <2>2. Alone(d)' /\ RowRead(d)' /\ CloneRead(d)'
    BY <1>1, <1>2, <2>1 DEF Alone, RowRead, CloneRead, Kept, At, Fetching
  <2>3. SnapShipped(d)' /\ Applied(d)'
    BY <1>1, <1>2, <2>1 DEF SnapShipped, Applied, Kept, At, Shipping
  <2>4. Taken(d)'
    BY <1>1, <1>2, <2>1 DEF Taken, SnapShipped, Kept, At, Shipping
  <2> QED
    BY <2>2, <2>3, <2>4 DEF Orderly
<1> QED
  BY <1>1, <1>2, <1>3, <1>4, <1>5 DEF Keeps, Grows, Stays, DeviceInv

(* The snapshot has all that the clone's commit has, as the database had.  *)
LEMMA SnapshotKeeps ==
  ASSUME SyncTypeOK, NEW d \in Device, DeviceInv(d), Snapshot(d)
  PROVE  Keeps(d)
<1>1. /\ push' = [push EXCEPT ![d] = [stage |-> "snapped", snap |-> db[d]]]
      /\ push[d].stage = "ready"
      /\ UNCHANGED <<branch, db, work, pull, last, error, alert, due, configured, armed,
                     created, removed,
                     unread, overlapped>>
  BY DEF Snapshot, signs, front, history
<1>2. [stage |-> "snapped", snap |-> db[d]] \in PushRecord
  BY DEF SyncTypeOK, PushRecord
<1>3. /\ push' \in [Device -> PushRecord]
      /\ push'[d].stage = "snapped" /\ push'[d].snap = db[d]
      /\ \A e \in Device \ {d} : UNCHANGED push[e]
  BY <1>1, <1>2 DEF SyncTypeOK
<1>4. SyncTypeOK'
  BY <1>1, <1>3 DEF SyncTypeOK
<1>5. Bounded(d)'
  BY <1>1 DEF DeviceInv, Bounded
<1>6. ASSUME Orderly(d) PROVE Orderly(d)'
  BY <1>1, <1>3, <1>6
     DEF Orderly, Alone, RowRead, CloneRead, SnapShipped, Taken, Applied, Kept, At, Shipping
<1> QED
  BY <1>1, <1>3, <1>4, <1>5, <1>6 DEF Keeps, Grows, Stays, DeviceInv

(* The file holds the snapshot, and differs from HEAD ... *)
LEMMA WriteVaultKeeps ==
  ASSUME SyncTypeOK, NEW d \in Device, DeviceInv(d), WriteVault(d)
  PROVE  Keeps(d)
<1>a. push[d] \in PushRecord /\ work[d] \in WorkRecord /\ push[d].snap \in Vault
  BY DEF SyncTypeOK, PushRecord
<1> DEFINE filed == [work[d] EXCEPT !.file = push[d].snap]
<1>1. /\ push'[d] = [push[d] EXCEPT !.stage = "written"]
      /\ work'[d] = [filed EXCEPT !.dirty = TRUE]
      /\ DOMAIN push' = Device /\ DOMAIN work' = Device
      /\ \A e \in Device \ {d} : UNCHANGED <<push[e], work[e]>>
      /\ push' = [e \in Device |-> push'[e]] /\ work' = [e \in Device |-> work'[e]]
      /\ push[d].stage = "snapped"
      /\ UNCHANGED <<branch, db, pull, last, error, alert, due, configured, armed,
                     created, removed,
                     unread, overlapped>>
  BY DEF SyncTypeOK, WriteVault, signs, front, history
<1>2. push'[d] \in PushRecord /\ push'[d].stage = "written" /\ push'[d].snap = push[d].snap
  BY <1>a, <1>1 DEF PushRecord
<1>3. /\ work'[d] \in WorkRecord /\ work'[d].base = work[d].base
      /\ work'[d].file = push[d].snap /\ work'[d].dirty
  <2>1. filed \in WorkRecord /\ filed.base = work[d].base /\ filed.file = push[d].snap
    BY <1>a DEF WorkRecord
  <2> HIDE DEF filed
  <2> QED
    BY <1>1, <2>1 DEF WorkRecord
<1>4. SyncTypeOK'
  <2>1. push' \in [Device -> PushRecord] /\ work' \in [Device -> WorkRecord]
    BY <1>1, <1>2, <1>3 DEF SyncTypeOK
  <2> QED
    BY <1>1, <2>1 DEF SyncTypeOK
<1>5. Bounded(d)'
  BY <1>1, <1>3 DEF DeviceInv, Bounded
<1>6. ASSUME Orderly(d) PROVE Orderly(d)'
  BY <1>1, <1>2, <1>3, <1>6
     DEF Orderly, Alone, RowRead, CloneRead, SnapShipped, Taken, Applied, Kept, At, Shipping
<1> QED
  BY <1>1, <1>4, <1>5, <1>6 DEF Keeps, Grows, Stays, DeviceInv

(* ... until it is committed; a file no push has written leaves nothing to *)
(* commit.                                                                 *)
LEMMA CommitKeeps ==
  ASSUME SyncTypeOK, NEW d \in Device, DeviceInv(d), Commit(d)
  PROVE  Keeps(d)
<1>a. push[d] \in PushRecord /\ work[d] \in WorkRecord /\ NoPush \in PushRecord
  BY DEF SyncTypeOK, PushRecord, NoPush, Vault
<1>b. /\ push[d].stage = "written"
      /\ UNCHANGED <<branch, db, pull, last, error, due, configured, armed, created, removed,
                     unread, overlapped>>
      /\ alert' \in [Device -> BOOLEAN]
  BY DEF SyncTypeOK, Commit, Shows, front, history
<1>1. CASE work[d].dirty
  <2> DEFINE headed == [work[d] EXCEPT !.ahead = TRUE]
  <2>1. /\ push'[d] = [push[d] EXCEPT !.stage = "committed"]
        /\ work'[d] = [headed EXCEPT !.dirty = FALSE]
        /\ \A e \in Device \ {d} : UNCHANGED <<push[e], work[e]>>
        /\ push' = [e \in Device |-> push'[e]] /\ work' = [e \in Device |-> work'[e]]
    BY <1>1 DEF SyncTypeOK, Commit
  <2>2. push'[d] \in PushRecord /\ push'[d].stage = "committed" /\ push'[d].snap = push[d].snap
    BY <1>a, <2>1 DEF PushRecord
  <2>3. /\ work'[d] \in WorkRecord /\ work'[d].base = work[d].base
        /\ work'[d].file = work[d].file /\ work'[d].ahead
    <3>1. /\ headed \in WorkRecord /\ headed.base = work[d].base
          /\ headed.file = work[d].file /\ headed.ahead
      BY <1>a DEF WorkRecord
    <3> HIDE DEF headed
    <3> QED
      BY <2>1, <3>1 DEF WorkRecord
  <2>4. SyncTypeOK'
    <3>1. push' \in [Device -> PushRecord] /\ work' \in [Device -> WorkRecord]
      BY <2>1, <2>2, <2>3 DEF SyncTypeOK
    <3> QED
      BY <1>b, <3>1 DEF SyncTypeOK
  <2>5. Bounded(d)'
    BY <1>b, <2>3 DEF DeviceInv, Bounded
  <2>6. ASSUME Orderly(d) PROVE Orderly(d)'
    BY <1>b, <2>2, <2>3, <2>6
       DEF Orderly, Alone, RowRead, CloneRead, SnapShipped, Taken, Applied, Kept, At, Shipping
  <2> QED
    BY <1>b, <2>1, <2>4, <2>5, <2>6 DEF Keeps, Grows, Stays, DeviceInv
<1>2. CASE ~work[d].dirty
  <2>1. push' = [push EXCEPT ![d] = NoPush] /\ UNCHANGED work
    BY <1>2 DEF Commit
  <2>2. /\ push' \in [Device -> PushRecord] /\ push'[d].stage = "idle"
        /\ \A e \in Device \ {d} : UNCHANGED push[e]
    BY <1>a, <2>1 DEF SyncTypeOK, NoPush
  <2>3. SyncTypeOK'
    BY <1>b, <2>1, <2>2 DEF SyncTypeOK
  <2>4. Bounded(d)'
    BY <1>b, <2>1 DEF DeviceInv, Bounded
  <2>5. ~Orderly(d)
    BY <1>b, <1>2 DEF Orderly, SnapShipped
  <2> QED
    BY <1>b, <2>1, <2>2, <2>3, <2>4, <2>5 DEF Keeps, Grows, Stays, DeviceInv
<1> QED
  BY <1>1, <1>2

(* What git takes becomes the remote's last commit, unless HEAD was that.  *)
LEMMA PushKeeps ==
  ASSUME SyncTypeOK, NEW d \in Device, DeviceInv(d), Push(d)
  PROVE  Keeps(d)
<1>a. /\ push[d] \in PushRecord /\ work[d] \in WorkRecord /\ push[d].snap \in Vault
      /\ branch \in Seq(Vault) /\ Len(branch) \in Nat
  BY DEF SyncTypeOK, PushRecord, Commits
<1>b. /\ push[d].stage = "committed" /\ work[d].base = Len(branch)
      /\ IF work[d].ahead
           THEN Len(branch) < MaxCommits /\ branch' = Append(branch, work[d].file)
           ELSE UNCHANGED branch
      /\ UNCHANGED <<db, pull, last, error, alert, due, configured, armed, created, removed,
                     unread, overlapped>>
  BY DEF Push, signs, front, history
<1>c. Grows
  BY <1>a, <1>b DEF Grows, WorkRecord
<1>d. /\ branch' \in Seq(Vault) /\ Len(branch') \in Commits /\ Len(branch') \in Nat
      /\ Len(branch) <= Len(branch')
      /\ \A n \in 1..Len(branch) : branch'[n] = branch[n]
  BY <1>c, BranchGrows DEF Commits
<1> DEFINE based == [work[d] EXCEPT !.base = Len(branch')]
<1>1. /\ push'[d] = [push[d] EXCEPT !.stage = "pushed"]
      /\ work'[d] = [based EXCEPT !.ahead = FALSE]
      /\ \A e \in Device \ {d} : UNCHANGED <<push[e], work[e]>>
      /\ push' = [e \in Device |-> push'[e]] /\ work' = [e \in Device |-> work'[e]]
  BY DEF SyncTypeOK, Push
<1>2. push'[d] \in PushRecord /\ push'[d].stage = "pushed"
  BY <1>a, <1>1 DEF PushRecord
<1>3. work'[d] \in WorkRecord /\ work'[d].base = Len(branch')
  <2>1. based \in WorkRecord /\ based.base = Len(branch')
    BY <1>a, <1>d DEF WorkRecord
  <2> HIDE DEF based
  <2> QED
    BY <1>1, <2>1 DEF WorkRecord
<1>4. SyncTypeOK'
  <2>1. push' \in [Device -> PushRecord] /\ work' \in [Device -> WorkRecord]
    BY <1>1, <1>2, <1>3 DEF SyncTypeOK
  <2> QED
    BY <1>b, <1>d, <2>1 DEF SyncTypeOK
<1>5. Bounded(d)'
  BY <1>b, <1>d, <1>3 DEF DeviceInv, Bounded, SyncTypeOK, Commits
<1>6. ASSUME Orderly(d) PROVE Orderly(d)'
  <2>1. /\ Alone(d) /\ RowRead(d) /\ SnapShipped(d) /\ Taken(d)
    BY <1>6 DEF Orderly
  <2>2. pull[d].stage = "idle"
    BY <1>b, <2>1 DEF Alone
  <2>3. /\ Len(branch') = Len(branch) + 1 /\ branch'[Len(branch')] = push[d].snap
        /\ Kept(push[d].snap, d)
    BY <1>a, <1>b, <2>1 DEF SnapShipped, Shipping, WorkRecord
  <2>4. Alone(d)' /\ RowRead(d)' /\ CloneRead(d)'
    BY <1>b, <2>2 DEF Alone, RowRead, CloneRead, Fetching
  <2>5. SnapShipped(d)' /\ Taken(d)'
    BY <1>a, <1>b, <1>2, <1>3, <2>3 DEF SnapShipped, Taken, Shipping, Kept, At
  <2>6. Applied(d)'
    BY <1>a, <1>b, <2>3 DEF Applied, DeviceInv, Bounded
  <2> QED
    BY <2>4, <2>5, <2>6 DEF Orderly
<1> QED
  BY <1>b, <1>c, <1>1, <1>4, <1>5, <1>6 DEF Keeps, Stays, DeviceInv

(* The row names the commit the push delivered, if there still is a row.   *)
LEMMA RecordPushedKeeps ==
  ASSUME SyncTypeOK, NEW d \in Device, DeviceInv(d), RecordPushed(d)
  PROVE  Keeps(d)
<1>a. NoPush \in PushRecord /\ NoPush.stage = "idle" /\ work[d].base \in Commits
  BY DEF SyncTypeOK, PushRecord, NoPush, Vault, WorkRecord
<1>1. /\ push' = [push EXCEPT ![d] = NoPush] /\ push[d].stage = "pushed"
      /\ last' = [last EXCEPT ![d] = IF configured[d] THEN work[d].base ELSE last[d]]
      /\ error' = [error EXCEPT ![d] = FALSE] /\ alert' = [alert EXCEPT ![d] = FALSE]
      /\ UNCHANGED <<branch, db, work, pull, due, configured, armed, created, removed, unread,
                     overlapped>>
  BY DEF RecordPushed, Record, Shows, front, history
<1>2. /\ push' \in [Device -> PushRecord] /\ push'[d].stage = "idle"
      /\ last' \in [Device -> Commits] /\ last'[d] \in {last[d], work[d].base}
      /\ error' \in [Device -> BOOLEAN] /\ alert' \in [Device -> BOOLEAN]
      /\ \A e \in Device \ {d} : UNCHANGED <<push[e], last[e]>>
  BY <1>a, <1>1 DEF SyncTypeOK
<1>3. SyncTypeOK'
  BY <1>1, <1>2 DEF SyncTypeOK
<1>4. Bounded(d)'
  BY <1>1, <1>2 DEF DeviceInv, Bounded
<1>5. ASSUME Orderly(d) PROVE Orderly(d)'
  BY <1>1, <1>2, <1>5
     DEF Orderly, Alone, RowRead, CloneRead, SnapShipped, Taken, Applied, Kept, At, Shipping,
         Fetching
<1> QED
  BY <1>1, <1>2, <1>3, <1>4, <1>5 DEF Keeps, Grows, Stays, DeviceInv

(* A fetch finds a commit newer than the row's, as the row's is on the     *)
(* branch.                                                                 *)
LEMMA FetchKeeps ==
  ASSUME SyncTypeOK, NEW d \in Device, DeviceInv(d), Fetch(d)
  PROVE  Keeps(d)
<1>a. /\ pull[d] \in PullRecord /\ Len(branch) \in Commits /\ Len(branch) \in Nat
      /\ branch # <<>> => Len(branch) # 0
  BY DEF SyncTypeOK, Commits
<1> DEFINE moved == [pull[d] EXCEPT !.stage = "fetched"]
<1>1. /\ pull'[d] = [moved EXCEPT !.fetched = Len(branch)]
      /\ \A e \in Device \ {d} : UNCHANGED pull[e]
      /\ pull' = [e \in Device |-> pull'[e]]
      /\ pull[d].stage = "ready" /\ branch # <<>> /\ pull[d].seen # Len(branch)
      /\ UNCHANGED <<branch, db, work, push, last, error, alert, due, configured, armed,
                     created, removed,
                     unread, overlapped>>
  BY DEF SyncTypeOK, Fetch, signs, front, history
<1>2. /\ pull'[d] \in PullRecord /\ pull'[d].stage = "fetched" /\ pull'[d].seen = pull[d].seen
      /\ pull'[d].fetched = Len(branch)
  <2>1. moved \in PullRecord /\ moved.stage = "fetched" /\ moved.seen = pull[d].seen
    BY <1>a DEF PullRecord
  <2> HIDE DEF moved
  <2> QED
    BY <1>a, <1>1, <2>1 DEF PullRecord
<1>3. SyncTypeOK'
  <2>1. pull' \in [Device -> PullRecord]
    BY <1>1, <1>2 DEF SyncTypeOK
  <2> QED
    BY <1>1, <2>1 DEF SyncTypeOK
<1>4. Bounded(d)'
  BY <1>a, <1>1, <1>2 DEF DeviceInv, Bounded
<1>5. ASSUME Orderly(d) PROVE Orderly(d)'
  <2>1. /\ Alone(d) /\ RowRead(d) /\ CloneRead(d) /\ SnapShipped(d) /\ Taken(d) /\ Applied(d)
    BY <1>5 DEF Orderly
  <2>2. RowRead(d)'
    BY <1>a, <1>1, <1>2, <2>1 DEF RowRead, DeviceInv, Bounded
  <2>3. Alone(d)' /\ CloneRead(d)' /\ SnapShipped(d)' /\ Taken(d)' /\ Applied(d)'
    BY <1>1, <1>2, <2>1 DEF Alone, CloneRead, SnapShipped, Taken, Applied, Kept, At
  <2> QED
    BY <2>2, <2>3 DEF Orderly
<1> QED
  BY <1>1, <1>3, <1>4, <1>5 DEF Keeps, Grows, Stays, DeviceInv

(* The clone is moved to that commit, which the database has not taken.    *)
LEMMA ResetKeeps ==
  ASSUME SyncTypeOK, NEW d \in Device, DeviceInv(d), Reset(d)
  PROVE  Keeps(d)
<1>a. /\ pull[d] \in PullRecord /\ work[d] \in WorkRecord
      /\ pull[d].fetched \in 1..Len(branch) /\ branch[pull[d].fetched] \in Vault
      /\ pull[d].fetched \in Commits
  BY DEF SyncTypeOK, Reset, DeviceInv, Bounded, Fetching, PullRecord
<1> DEFINE n == pull[d].fetched
           fresh == Clean(branch[n], n)
           there == [fresh EXCEPT !.repo = work[d].repo]
<1>1. /\ pull'[d] = [pull[d] EXCEPT !.stage = "reset"]
      /\ pull' = [e \in Device |-> pull'[e]]
      /\ \A e \in Device \ {d} : UNCHANGED pull[e]
      /\ pull[d].stage = "fetched"
      /\ unread' = [unread EXCEPT ![d] = TRUE]
      /\ UNCHANGED <<branch, db, push, last, error, alert, due, configured, armed,
                     created, removed, overlapped>>
  BY DEF SyncTypeOK, Reset, signs, front
<1>2. /\ pull'[d] \in PullRecord /\ pull'[d].stage = "reset" /\ pull'[d].seen = pull[d].seen
      /\ pull'[d].fetched = n
  BY <1>a, <1>1 DEF PullRecord
<1>3. there \in WorkRecord /\ there.base = n /\ there.file = branch[n]
  <2>1. fresh \in WorkRecord /\ fresh.base = n /\ fresh.file = branch[n]
    BY <1>a DEF Clean, WorkRecord
  <2> HIDE DEF fresh
  <2> QED
    BY <1>a, <2>1 DEF WorkRecord
<1>4. /\ work'[d].base = n /\ work'[d].file = branch[n] /\ unread'[d]
      /\ work' \in [Device -> WorkRecord] /\ unread' \in [Device -> BOOLEAN]
      /\ \A e \in Device \ {d} : UNCHANGED <<work[e], unread[e]>>
  <2>1. work' = [work EXCEPT ![d] = there]
    BY DEF Reset
  <2> HIDE DEF there
  <2> QED
    BY <1>1, <1>3, <2>1 DEF SyncTypeOK
<1>5. SyncTypeOK'
  <2>1. \A e \in Device : pull'[e] \in PullRecord
    BY <1>1, <1>2 DEF SyncTypeOK
  <2>2. pull' \in [Device -> PullRecord]
    BY <1>1, <2>1
  <2> QED
    BY <1>1, <1>4, <2>2 DEF SyncTypeOK
<1>6. Bounded(d)'
  BY <1>a, <1>1, <1>2, <1>4 DEF DeviceInv, Bounded
<1>7. ASSUME Orderly(d) PROVE Orderly(d)'
  <2>1. /\ Alone(d) /\ RowRead(d) /\ CloneRead(d) /\ SnapShipped(d) /\ Taken(d) /\ Applied(d)
    BY <1>7 DEF Orderly
  <2>2. push[d].stage = "idle"
    BY <1>1, <2>1 DEF Alone
  <2>3. Alone(d)' /\ RowRead(d)' /\ SnapShipped(d)' /\ Taken(d)'
    BY <1>1, <1>2, <1>4, <2>1, <2>2 DEF Alone, RowRead, SnapShipped, Taken, Shipping, Fetching
  <2>4. CloneRead(d)'
    BY <1>a, <1>1, <1>2, <1>4 DEF CloneRead, At
  <2>5. Applied(d)'
    BY <1>1, <2>1 DEF Applied, Kept, At
  <2> QED
    BY <2>3, <2>4, <2>5 DEF Orderly
<1> QED
  BY <1>1, <1>4, <1>5, <1>6, <1>7 DEF Keeps, Grows, Stays, DeviceInv

(* With no push to write the file, a pull reads what it reset it to.       *)
LEMMA ReadVaultKeeps ==
  ASSUME SyncTypeOK, NEW d \in Device, DeviceInv(d), ReadVault(d)
  PROVE  Keeps(d)
<1>a. pull[d] \in PullRecord /\ work[d] \in WorkRecord /\ work[d].file \in Vault
  BY DEF SyncTypeOK, WorkRecord
<1> DEFINE moved == [pull[d] EXCEPT !.stage = "read"]
<1>1. /\ pull'[d] = [moved EXCEPT !.bundle = work[d].file]
      /\ \A e \in Device \ {d} : UNCHANGED pull[e]
      /\ pull' = [e \in Device |-> pull'[e]]
      /\ pull[d].stage = "reset"
      /\ UNCHANGED <<branch, db, work, push, last, error, alert, due, configured, armed,
                     created, removed,
                     unread, overlapped>>
  BY DEF SyncTypeOK, ReadVault, signs, front, history
<1>2. /\ pull'[d] \in PullRecord /\ pull'[d].stage = "read" /\ pull'[d].seen = pull[d].seen
      /\ pull'[d].fetched = pull[d].fetched /\ pull'[d].bundle = work[d].file
  <2>1. /\ moved \in PullRecord /\ moved.stage = "read" /\ moved.seen = pull[d].seen
        /\ moved.fetched = pull[d].fetched
    BY <1>a DEF PullRecord
  <2> HIDE DEF moved
  <2> QED
    BY <1>a, <1>1, <2>1 DEF PullRecord
<1>3. SyncTypeOK'
  <2>1. \A e \in Device : pull'[e] \in PullRecord
    BY <1>1, <1>2 DEF SyncTypeOK
  <2>2. pull' \in [Device -> PullRecord]
    BY <1>1, <2>1
  <2> QED
    BY <1>1, <2>2 DEF SyncTypeOK
<1>4. Bounded(d)'
  BY <1>1, <1>2 DEF DeviceInv, Bounded, Fetching
<1>5. ASSUME Orderly(d) PROVE Orderly(d)'
  BY <1>1, <1>2, <1>5
     DEF Orderly, Alone, RowRead, CloneRead, SnapShipped, Taken, Applied, Kept, At, Fetching
<1> QED
  BY <1>1, <1>3, <1>4, <1>5 DEF Keeps, Grows, Stays, DeviceInv

(* The tables are emptied: the commit the row names is not the last one,   *)
(* and the clone's counts as unread.                                       *)
LEMMA WipeKeeps ==
  ASSUME SyncTypeOK, NEW d \in Device, DeviceInv(d), Wipe(d)
  PROVE  Keeps(d)
<1>a. pull[d] \in PullRecord /\ Len(branch) \in Nat
  BY DEF SyncTypeOK, Commits
<1>1. /\ pull'[d] = [pull[d] EXCEPT !.stage = "wiped"]
      /\ \A e \in Device \ {d} : UNCHANGED <<pull[e], db[e]>>
      /\ pull' = [e \in Device |-> pull'[e]] /\ db' \in [Device -> Vault]
      /\ pull[d].stage = "read"
      /\ UNCHANGED <<branch, work, push, last, error, alert, due, configured, armed,
                     created, removed,
                     unread, overlapped>>
  BY DEF SyncTypeOK, Wipe, Vault, signs, front, history
<1>2. /\ pull'[d] \in PullRecord /\ pull'[d].stage = "wiped" /\ pull'[d].seen = pull[d].seen
      /\ pull'[d].fetched = pull[d].fetched /\ pull'[d].bundle = pull[d].bundle
  BY <1>a, <1>1 DEF PullRecord
<1>3. SyncTypeOK'
  <2>1. \A e \in Device : pull'[e] \in PullRecord
    BY <1>1, <1>2 DEF SyncTypeOK
  <2>2. pull' \in [Device -> PullRecord]
    BY <1>1, <2>1
  <2> QED
    BY <1>1, <2>2 DEF SyncTypeOK
<1>4. Bounded(d)'
  BY <1>1, <1>2 DEF DeviceInv, Bounded, Fetching
<1>5. ASSUME Orderly(d) PROVE Orderly(d)'
  <2>1. /\ Alone(d) /\ RowRead(d) /\ CloneRead(d)
    BY <1>5 DEF Orderly
  <2>2. push[d].stage = "idle" /\ unread[d] /\ last[d] # Len(branch)
    BY <1>a, <1>1, <2>1 DEF Alone, CloneRead, RowRead, Fetching, DeviceInv, Bounded
  <2>3. Alone(d)' /\ RowRead(d)' /\ CloneRead(d)'
    BY <1>1, <1>2, <2>1 DEF Alone, RowRead, CloneRead, Fetching, At
  <2>4. SnapShipped(d)' /\ Taken(d)' /\ Applied(d)'
    BY <1>1, <2>2 DEF SnapShipped, Taken, Applied, Shipping
  <2> QED
    BY <2>3, <2>4 DEF Orderly
<1> QED
  BY <1>1, <1>3, <1>4, <1>5 DEF Keeps, Grows, Stays, DeviceInv

(* The tables are filled with the vault of the commit the clone stands at. *)
LEMMA FillKeeps ==
  ASSUME SyncTypeOK, NEW d \in Device, DeviceInv(d), Fill(d)
  PROVE  Keeps(d)
<1>a. pull[d] \in PullRecord /\ pull[d].bundle \in Vault /\ Len(branch) \in Nat
  BY DEF SyncTypeOK, PullRecord, Commits
<1>1. /\ pull'[d] = [pull[d] EXCEPT !.stage = "filled"]
      /\ db' = [db EXCEPT ![d] = db[d] \cup pull[d].bundle]
      /\ removed' = [removed EXCEPT ![d] = removed[d] \ pull[d].bundle]
      /\ unread' = [unread EXCEPT ![d] = FALSE]
      /\ \A e \in Device \ {d} : UNCHANGED pull[e]
      /\ pull' = [e \in Device |-> pull'[e]]
      /\ pull[d].stage = "wiped"
      /\ UNCHANGED <<branch, work, push, last, error, alert, due, configured, armed,
                     created, overlapped>>
  BY DEF SyncTypeOK, Fill, signs, front
<1>2. /\ pull'[d] \in PullRecord /\ pull'[d].stage = "filled" /\ pull'[d].seen = pull[d].seen
      /\ pull'[d].fetched = pull[d].fetched
  BY <1>a, <1>1 DEF PullRecord
<1>3. /\ db' \in [Device -> Vault] /\ removed' \in [Device -> Vault]
      /\ unread' \in [Device -> BOOLEAN]
      /\ \A e \in Device \ {d} : UNCHANGED <<db[e], removed[e], unread[e]>>
      /\ pull[d].bundle \subseteq db'[d]
  BY <1>a, <1>1 DEF SyncTypeOK, Vault
<1>4. SyncTypeOK'
  <2>1. \A e \in Device : pull'[e] \in PullRecord
    BY <1>1, <1>2 DEF SyncTypeOK
  <2>2. pull' \in [Device -> PullRecord]
    BY <1>1, <2>1
  <2> QED
    BY <1>1, <1>3, <2>2 DEF SyncTypeOK
<1>5. Bounded(d)'
  BY <1>1, <1>2 DEF DeviceInv, Bounded, Fetching
<1>6. ASSUME Orderly(d) PROVE Orderly(d)'
  <2>1. /\ Alone(d) /\ RowRead(d) /\ CloneRead(d)
    BY <1>6 DEF Orderly
  <2>2. push[d].stage = "idle" /\ last[d] # Len(branch)
    BY <1>a, <1>1, <2>1 DEF Alone, RowRead, Fetching, DeviceInv, Bounded
  <2>3. Alone(d)' /\ RowRead(d)'
    BY <1>1, <1>2, <2>1 DEF Alone, RowRead, Fetching
  <2>4. CloneRead(d)' /\ Taken(d)'
    BY <1>1, <1>2, <1>3, <2>1, <2>2 DEF CloneRead, Taken, Shipping, Kept, At
  <2>5. SnapShipped(d)' /\ Applied(d)'
    BY <1>1, <2>2 DEF SnapShipped, Applied, Shipping
  <2> QED
    BY <2>3, <2>4, <2>5 DEF Orderly
<1> QED
  BY <1>1, <1>3, <1>4, <1>5, <1>6 DEF Keeps, Grows, Stays, DeviceInv

(* The row names the commit the database has taken, if there still is one. *)
LEMMA RecordPulledKeeps ==
  ASSUME SyncTypeOK, NEW d \in Device, DeviceInv(d), RecordPulled(d)
  PROVE  Keeps(d)
<1>a. /\ NoPull \in PullRecord /\ NoPull.stage = "idle" /\ NoPull.seen = 0
      /\ pull[d].fetched \in Commits /\ Len(branch) \in Nat
  BY MaxCommitsAssumption DEF SyncTypeOK, PullRecord, NoPull, Vault, Commits
<1>1. /\ pull' = [pull EXCEPT ![d] = NoPull] /\ pull[d].stage = "filled"
      /\ last' = [last EXCEPT ![d] = IF configured[d] THEN pull[d].fetched ELSE last[d]]
      /\ error' = [error EXCEPT ![d] = FALSE] /\ alert' = [alert EXCEPT ![d] = FALSE]
      /\ UNCHANGED <<branch, db, work, push, configured, armed, created, removed, unread,
                     overlapped>>
  BY DEF RecordPulled, Record, Shows, history
<1>2. /\ pull' \in [Device -> PullRecord] /\ pull'[d].stage = "idle" /\ pull'[d].seen = 0
      /\ last' \in [Device -> Commits] /\ last'[d] \in {last[d], pull[d].fetched}
      /\ error' \in [Device -> BOOLEAN] /\ alert' \in [Device -> BOOLEAN]
      /\ due' \in [Device -> BOOLEAN]
      /\ \A e \in Device \ {d} : UNCHANGED <<pull[e], last[e]>>
  BY <1>a, <1>1 DEF SyncTypeOK, RecordPulled, Schedule
<1>3. SyncTypeOK'
  BY <1>1, <1>2 DEF SyncTypeOK
<1>4. Bounded(d)'
  BY <1>a, <1>1, <1>2 DEF DeviceInv, Bounded, Fetching
<1>5. ASSUME Orderly(d) PROVE Orderly(d)'
  BY <1>1, <1>2, <1>5
     DEF Orderly, Alone, RowRead, CloneRead, SnapShipped, Taken, Applied, Kept, At, Shipping,
         Fetching
<1> QED
  BY <1>1, <1>2, <1>3, <1>4, <1>5 DEF Keeps, Grows, Stays, DeviceInv

(* A restart forgets both calls; the clone stays as they left it. *)
LEMMA RestartKeeps ==
  ASSUME SyncTypeOK, NEW d \in Device, DeviceInv(d), Restart(d)
  PROVE  Keeps(d)
<1>a. /\ NoPush \in PushRecord /\ NoPush.stage = "idle"
      /\ NoPull \in PullRecord /\ NoPull.stage = "idle" /\ NoPull.seen = 0
  BY MaxCommitsAssumption DEF NoPush, NoPull, PushRecord, PullRecord, Vault, Commits
<1>1. /\ push' \in [Device -> PushRecord] /\ push'[d].stage = "idle"
      /\ \A e \in Device \ {d} : UNCHANGED push[e]
      /\ UNCHANGED <<branch, db, last, error, configured, created, removed, overlapped>>
  BY <1>a DEF SyncTypeOK, Restart
<1>b. due' \in [Device -> BOOLEAN] /\ armed' \in [Device -> BOOLEAN]
  <2>1. PICK known \in {FALSE, configured[d]} :
          /\ armed' = [armed EXCEPT ![d] = known]
          /\ \E timer \in {FALSE, known} : due' = [due EXCEPT ![d] = timer]
    BY DEF Restart
  <2>2. known \in BOOLEAN
    BY DEF SyncTypeOK
  <2> QED
    BY <2>1, <2>2 DEF SyncTypeOK
<1>2. CASE PullStart(d, TRUE)
  <2>2. /\ overlapped' \in [Device -> BOOLEAN]
        /\ overlapped'[d] = (overlapped[d] \/ push'[d].stage # "idle")
        /\ \A e \in Device \ {d} : UNCHANGED overlapped[e]
    BY <1>1 DEF SyncTypeOK
  <2> QED
    BY <1>1, <1>b, <1>2, <2>2, PullStartKeeps
<1>3. CASE ~PullStart(d, TRUE)
  <2>1. /\ pull' = [pull EXCEPT ![d] = NoPull]
        /\ alert' = [alert EXCEPT ![d] = error[d]]
        /\ UNCHANGED <<work, unread>>
    BY <1>3 DEF Restart, Shows
  <2>2. /\ pull' \in [Device -> PullRecord]
        /\ pull'[d].stage = "idle" /\ pull'[d].seen = 0
        /\ \A e \in Device \ {d} : UNCHANGED pull[e]
    BY <1>a, <2>1 DEF SyncTypeOK
  <2>3. SyncTypeOK'
    BY <1>1, <1>b, <2>1, <2>2 DEF SyncTypeOK
  <2>4. Bounded(d)'
    BY <1>1, <2>1, <2>2 DEF SyncTypeOK, Commits, DeviceInv, Bounded, Fetching
  <2>5. ASSUME Orderly(d) PROVE Orderly(d)'
    <3>1. SnapShipped(d) /\ Taken(d) /\ Applied(d)
      BY <2>5 DEF Orderly
    <3>2. /\ Alone(d)' /\ RowRead(d)' /\ CloneRead(d)' /\ SnapShipped(d)' /\ Applied(d)'
      BY <1>1, <2>1, <2>2, <3>1 DEF Alone, RowRead, CloneRead, SnapShipped, Applied, Fetching,
                                    Shipping, Kept, At
    <3>3. Taken(d)'
      BY <1>1, <2>1, <2>2, <3>1 DEF SnapShipped, Taken, Shipping, Kept, At
    <3> QED
      BY <3>2, <3>3 DEF Orderly
  <2> QED
    BY <1>1, <2>1, <2>2, <2>3, <2>4, <2>5 DEF Keeps, Grows, Stays, DeviceInv
<1> QED
  BY <1>2, <1>3

---------------------------------------------------------------------------
(* Every step of a machine keeps the invariant. *)
LEMMA DeviceKeeps ==
  ASSUME SyncTypeOK, NEW d \in Device, DeviceInv(d), DeviceStep(d)
  PROVE  Keeps(d)
<1>1. CASE UserStep(d) \/ TimerFires(d) \/ TimerLapses(d)
  BY <1>1, UserKeeps
<1>2. CASE PushStep(d)
  BY <1>2, SnapshotKeeps, WriteVaultKeeps, CommitKeeps, PushKeeps, EndKeeps, RecordPushedKeeps
     DEF PushStep
<1>3. CASE PullStep(d)
  BY <1>3, FetchKeeps, EndKeeps, ResetKeeps, ReadVaultKeeps, WipeKeeps, FillKeeps,
     RecordPulledKeeps
     DEF PullStep
<1>4. CASE Mishap(d)
  BY <1>4, EndKeeps, RestartKeeps DEF Mishap
<1> QED
  BY <1>1, <1>2, <1>3, <1>4 DEF DeviceStep

(* A push from a machine outside only lets the branch grow. *)
LEMMA ElsewhereTypes ==
  ASSUME SyncTypeOK, NEW vault \in Vault, PushElsewhere(vault)
  PROVE  SyncTypeOK' /\ Grows /\ \A d \in Device : Stays(d)
<1>1. Grows /\ \A d \in Device : Stays(d)
  BY DEF PushElsewhere, Grows, Stays
<1>2. branch' \in Seq(Vault) /\ Len(branch') \in Commits
  BY <1>1, BranchGrows
<1>3. created' \in Vault
  BY DEF SyncTypeOK, PushElsewhere, Vault
<1>4. UNCHANGED <<db, work, push, pull, last, error, alert, due, configured, armed, removed,
                unread, overlapped>>
  BY DEF PushElsewhere, signs, front
<1> QED
  BY <1>1, <1>2, <1>3, <1>4 DEF SyncTypeOK

(* Every machine is in order at first. *)
LEMMA SyncInvInit == SyncInit => SyncInv
<1> SUFFICES ASSUME SyncInit PROVE SyncInv
  OBVIOUS
<1>1. /\ NoRepo \in WorkRecord /\ NoRepo.base = 0
      /\ NoPush \in PushRecord /\ NoPush.stage = "idle"
      /\ NoPull \in PullRecord /\ NoPull.stage = "idle" /\ NoPull.seen = 0
  <2>1. Clean({}, 0) \in WorkRecord /\ Clean({}, 0).base = 0
    BY MaxCommitsAssumption DEF Clean, WorkRecord, Commits, Vault
  <2>2. NoRepo \in WorkRecord /\ NoRepo.base = 0
    BY <2>1 DEF NoRepo, WorkRecord
  <2> QED
    BY <2>2, MaxCommitsAssumption DEF NoPush, NoPull, PushRecord, PullRecord, Vault, Commits
<1>2. branch = <<>> /\ Len(branch) = 0
  BY DEF SyncInit
<1>3. SyncTypeOK
  BY <1>1, <1>2, MaxCommitsAssumption DEF SyncInit, SyncTypeOK, Vault, Commits
<1>4. ASSUME NEW d \in Device PROVE DeviceInv(d)
  <2>1. /\ work[d].base = 0 /\ push[d].stage = "idle" /\ pull[d].stage = "idle"
        /\ pull[d].seen = 0 /\ last[d] = 0
    BY <1>1 DEF SyncInit
  <2>2. Bounded(d)
    BY <1>2, <2>1 DEF Bounded, Fetching
  <2>3. Orderly(d)
    BY <2>1 DEF Orderly, Alone, RowRead, CloneRead, SnapShipped, Taken, Applied, Kept, At,
                Shipping, Fetching
  <2> QED
    BY <2>2, <2>3 DEF DeviceInv
<1> QED
  BY <1>3, <1>4 DEF SyncInv

(* Every step keeps it, and changes one machine and the branch at most.    *)
LEMMA SyncInvStep == SyncInv /\ [SyncNext]_syncVars => SyncInv'
<1> SUFFICES ASSUME SyncInv, [SyncNext]_syncVars PROVE SyncInv'
  OBVIOUS
<1>a. SyncTypeOK /\ \A d \in Device : DeviceInv(d)
  BY DEF SyncInv
<1>1. ASSUME NEW d \in Device, DeviceStep(d) PROVE SyncInv'
  <2>1. Keeps(d)
    BY <1>a, <1>1, DeviceKeeps
  <2>2. ASSUME NEW e \in Device, e # d PROVE DeviceInv(e)'
    BY <1>a, <2>1, <2>2, Elsewhere DEF Keeps
  <2> QED
    BY <2>1, <2>2 DEF SyncInv, Keeps
<1>2. ASSUME NEW vault \in Vault, PushElsewhere(vault) PROVE SyncInv'
  <2>1. SyncTypeOK' /\ Grows /\ \A d \in Device : Stays(d)
    BY <1>a, <1>2, ElsewhereTypes
  <2> QED
    BY <1>a, <2>1, Elsewhere DEF SyncInv
<1>3. CASE UNCHANGED syncVars
  <2>1. SyncTypeOK'
    BY <1>a, <1>3 DEF syncVars, signs, front, history, SyncTypeOK
  <2>2. Grows /\ \A d \in Device : Stays(d)
    BY <1>3 DEF syncVars, signs, front, history, Grows, Stays
  <2> QED
    BY <1>a, <2>1, <2>2, Elsewhere DEF SyncInv
<1> QED
  BY <1>1, <1>2, <1>3 DEF SyncNext

(* The invariant holds in every behaviour. *)
THEOREM SyncInvariant == SyncSpec => []SyncInv
BY SyncInvInit, SyncInvStep, PTL DEF SyncSpec

---------------------------------------------------------------------------
(* Type correctness: no step names a commit the branch does not have, or   *)
(* makes it longer than its bound.                                         *)
THEOREM SyncTyped == SyncSpec => []SyncTypeOK
<1>1. SyncInv => SyncTypeOK
  BY DEF SyncInv
<1> QED
  BY <1>1, SyncInvariant, PTL

(* "a jour" is true: what the row of sync_state names, while it is the     *)
(* remote's last commit, is in the database, but for what its user deleted. *)
THEOREM UpToDateIsApplied == SyncSpec => []UpToDateMeansApplied
<1>1. ASSUME SyncInv PROVE UpToDateMeansApplied
  <2>1. ASSUME NEW d \in Device, ~overlapped[d], last[d] # 0, last[d] = Len(branch)
        PROVE  Remote \ removed[d] \subseteq db[d]
    <3>1. Kept(At(last[d]), d)
      BY <1>1, <2>1 DEF SyncInv, DeviceInv, Orderly, Applied
    <3>2. At(last[d]) = Remote
      BY <1>1, <2>1 DEF At, Remote, SyncInv, SyncTypeOK
    <3> QED
      BY <3>1, <3>2 DEF Kept
  <2> QED
    BY <2>1 DEF UpToDateMeansApplied
<1> QED
  BY <1>1, SyncInvariant, PTL

(* Only the git push of this machine makes its push a delivered one.       *)
LEMMA OnlyPushDelivers ==
  ASSUME SyncInv, [SyncNext]_syncVars, NEW d \in Device,
         push[d].stage = "committed", push'[d].stage = "pushed"
  PROVE  Push(d)
<1>a. SyncTypeOK /\ \A e \in Device : DeviceInv(e)
  BY DEF SyncInv
<1>1. ASSUME NEW e \in Device, DeviceStep(e) PROVE e = d
  <2>1. Keeps(e)
    BY <1>a, <1>1, DeviceKeeps
  <2> QED
    BY <2>1 DEF Keeps, Stays
<1>2. ASSUME NEW vault \in Vault, PushElsewhere(vault) PROVE FALSE
  BY <1>2 DEF PushElsewhere
<1>3. DeviceStep(d)
  BY <1>1, <1>2 DEF SyncNext, syncVars
<1>4. push \in [Device -> PushRecord] /\ NoPush.stage = "idle"
  BY <1>a DEF SyncTypeOK, NoPush
<1>5. ~UserStep(d) /\ ~TimerFires(d) /\ ~TimerLapses(d)
  BY <1>4 DEF UserStep, Create, Delete, Configure, Disable, OpenCard, SavePassword, ClickPush,
              ClickPull, PullStart, PushStart, TimerFires, TimerLapses
<1>6. ~PullStep(d)
  BY DEF PullStep, Fetch, FetchFindsNothing, UpToDate, Reset, ReadVault, Wipe, Fill, RecordPulled
<1>7. ~Mishap(d)
  BY <1>4 DEF Mishap, PushFails, PullFails, CallUnstarted, Restart
<1> QED
  BY <1>3, <1>4, <1>5, <1>6, <1>7
     DEF DeviceStep, PushStep, Snapshot, WriteVault, Commit, PushRefused, RecordPushed

(* A push takes nothing out of the remote vault but what the user of the   *)
(* machine deleted, when what its clone stands at had been taken and no    *)
(* pull ran beside it.                                                     *)
THEOREM PushTakesOnlyRemoved == SyncSpec => PushKeepsTheRest
<1>1. ASSUME SyncInv, [SyncNext]_syncVars, NEW d \in Device,
             push[d].stage = "committed", push'[d].stage = "pushed", ~unread[d], ~overlapped[d]
      PROVE  Remote \ Remote' \subseteq removed[d]
  <2>1. Push(d)
    BY <1>1, OnlyPushDelivers
  <2>2. /\ work[d].base = Len(branch) /\ work[d].file \in Vault
        /\ branch \in Seq(Vault) /\ Len(branch) \in Nat
    BY <1>1, <2>1 DEF Push, SyncInv, SyncTypeOK, WorkRecord, Commits
  <2>3. /\ At(work[d].base) \ removed[d] \subseteq push[d].snap
        /\ work[d].file = push[d].snap /\ work[d].ahead
    BY <1>1 DEF SyncInv, DeviceInv, Orderly, Taken, SnapShipped, Shipping
  <2>4. At(work[d].base) = Remote
    BY <2>2 DEF At, Remote
  <2>5. Remote' = push[d].snap
    BY <2>1, <2>2, <2>3 DEF Push, Remote
  <2> QED
    BY <2>3, <2>4, <2>5
<1>2. SyncInv /\ [SyncNext]_syncVars
        => [\A d \in Device :
              (push[d].stage = "committed" /\ push'[d].stage = "pushed"
               /\ ~unread[d] /\ ~overlapped[d])
                 => Remote \ Remote' \subseteq removed[d]]_syncVars
  BY <1>1
<1> QED
  BY <1>2, SyncInvariant, PTL DEF SyncSpec, PushKeepsTheRest
============================================================================
