----------------------------- MODULE TenantWallet -----------------------------
(***************************************************************************)
(* One tenant-landlord wallet: tenant-balances.service.ts keeps a balance  *)
(* row and a ledger.  A change locks the row (or finds there is none yet), *)
(* saves the new balance and a ledger entry, and announces itself with the *)
(* event tenant.balance.changed.  With an externalManager all of it runs   *)
(* in the caller's transaction, so the event leaves before the commit.     *)
(***************************************************************************)
EXTENDS Integers, Sequences

CONSTANTS
  Changes,  \* calls of applyChange
  Delta,    \* the signed amount of each
  Outer,    \* the changes made in a transaction of their caller
  Failing   \* changes whose transaction may fail or process die

ASSUME ChangeAssumption == Delta \in [Changes -> Int] /\ Outer \subseteq Changes
ASSUME FailureAssumption == Failing \subseteq Changes

VARIABLES
  row,      \* is there a committed tenant_balances row?
  balance,  \* its balance
  ledger,   \* committed tenant_balance_ledger entries, in order
  step,     \* how far each change has come
  seen,     \* the balance a change read
  events    \* announcements no listener has taken yet

walletVars == <<row, balance, ledger, step, seen, events>>

(* found: row locked; absent: no row to lock; written: saved, not          *)
(* committed; announced: the same, event sent; committed: event not sent;  *)
(* unheard: it never was; refused: the unique constraint; undone: rolled   *)
(* back.                                                                   *)
Open == {"found", "written", "announced"}
Ended == {"done", "unheard", "refused", "undone"}
Steps == {"todo", "absent", "committed"} \cup Open \cup Ended

Reach(c, p) == step' = [step EXCEPT ![c] = p]

(* No other transaction holds the row, or an uncommitted insert of it. *)
RowFree(c) == \A d \in Changes \ {c} : step[d] \notin Open

WalletInit ==
  /\ row = FALSE
  /\ balance = 0
  /\ ledger = <<>>
  /\ step = [c \in Changes |-> "todo"]
  /\ seen = [c \in Changes |-> 0]
  /\ events = 0

(* Variant with a bug: the row read without a lock. *)
FindRowUnlocked(c) ==
  /\ step[c] = "todo"
  /\ row
  /\ seen' = [seen EXCEPT ![c] = balance]
  /\ Reach(c, "found")
  /\ UNCHANGED <<row, balance, ledger, events>>

(* findOne with pessimistic_write: waits for the row, if there is one. *)
FindRow(c) ==
  /\ step[c] = "todo"
  /\ Delta[c] # 0
  /\ row
  /\ RowFree(c)
  /\ seen' = [seen EXCEPT ![c] = balance]
  /\ Reach(c, "found")
  /\ UNCHANGED <<row, balance, ledger, events>>

FindNoRow(c) ==
  /\ step[c] = "todo"
  /\ ~row
  /\ Reach(c, "absent")
  /\ UNCHANGED <<row, balance, ledger, seen, events>>

(* An amount of zero is no change: the row only has to exist. *)
FindRowForNothing(c) ==
  /\ step[c] = "todo"
  /\ Delta[c] = 0
  /\ row
  /\ Reach(c, "done")
  /\ UNCHANGED <<row, balance, ledger, seen, events>>

SaveBalance(c) ==
  /\ step[c] = "found"
  /\ Reach(c, "written")
  /\ UNCHANGED <<row, balance, ledger, seen, events>>

(* The insert of a first row waits for another insert of the pair to end,  *)
(* and fails on the unique constraint if that one committed.               *)
InsertRow(c) ==
  /\ step[c] = "absent"
  /\ Delta[c] # 0
  /\ RowFree(c)
  /\ ~row
  /\ Reach(c, "written")
  /\ UNCHANGED <<row, balance, ledger, seen, events>>

InsertEmptyRow(c) ==
  /\ step[c] = "absent"
  /\ Delta[c] = 0
  /\ RowFree(c)
  /\ ~row
  /\ row' = TRUE
  /\ Reach(c, "done")
  /\ UNCHANGED <<balance, ledger, seen, events>>

InsertRefused(c) ==
  /\ step[c] = "absent"
  /\ RowFree(c)
  /\ row
  /\ Reach(c, "refused")
  /\ UNCHANGED <<row, balance, ledger, seen, events>>

(* Both saves become visible. *)
Post(c) ==
  /\ row' = TRUE
  /\ balance' = seen[c] + Delta[c]
  /\ ledger' = Append(ledger, [change |-> c, after |-> seen[c] + Delta[c]])
  /\ UNCHANGED seen

Commit(c) ==
  /\ step[c] = "written"
  /\ c \notin Outer
  /\ Post(c)
  /\ Reach(c, "committed")
  /\ UNCHANGED events

(* Variant with a bug: nobody is told. *)
AnnounceNothing(c) ==
  /\ step[c] = "committed"
  /\ Reach(c, "done")
  /\ UNCHANGED <<row, balance, ledger, seen, events>>

Announce(c) ==
  /\ step[c] = "committed"
  /\ events' = events + 1
  /\ Reach(c, "done")
  /\ UNCHANGED <<row, balance, ledger, seen>>

AnnounceEarly(c) ==
  /\ step[c] = "written"
  /\ c \in Outer
  /\ events' = events + 1
  /\ Reach(c, "announced")
  /\ UNCHANGED <<row, balance, ledger, seen>>

CallerCommits(c) ==
  /\ step[c] = "announced"
  /\ Post(c)
  /\ Reach(c, "done")
  /\ UNCHANGED events

(* A query fails, the caller throws, or the process dies. *)
RollBack(c) ==
  /\ c \in Failing
  /\ step[c] \in Open \cup {"absent"}
  /\ Reach(c, "undone")
  /\ UNCHANGED <<row, balance, ledger, seen, events>>

AnnouncementLost(c) ==
  /\ c \in Failing
  /\ step[c] = "committed"
  /\ Reach(c, "unheard")
  /\ UNCHANGED <<row, balance, ledger, seen, events>>

ApplyChange(c) ==
  \/ FindRow(c) \/ FindNoRow(c) \/ FindRowForNothing(c)
  \/ SaveBalance(c) \/ InsertRow(c) \/ InsertEmptyRow(c) \/ InsertRefused(c)
  \/ Commit(c) \/ Announce(c) \/ AnnounceEarly(c) \/ CallerCommits(c)
  \/ RollBack(c) \/ AnnouncementLost(c)

WalletNext == \E c \in Changes : ApplyChange(c)

WalletSpec == WalletInit /\ [][WalletNext]_walletVars

-----------------------------------------------------------------------------
Entry == [change : Changes, after : Int]

(* The type invariant of the wallet; a change is announced before its      *)
(* commit only inside a transaction of its caller.                         *)
WalletTypeOK ==
  /\ row \in BOOLEAN
  /\ balance \in Int
  /\ ledger \in Seq(Entry)
  /\ step \in [Changes -> Steps]
  /\ \A c \in Changes : /\ step[c] = "announced" => c \in Outer
                        /\ step[c] = "committed" => c \notin Outer
  /\ seen \in [Changes -> Int]
  /\ events \in Nat

Before(k) == IF k = 1 THEN 0 ELSE ledger[k - 1].after

(* Every entry's balance_after is the one before it plus its change, and   *)
(* the balance is the last one: no change, however it races or fails,      *)
(* overwrites another.  getLedger and the breakdown modal rely on it.      *)
LedgerChains ==
  /\ \A k \in 1..Len(ledger) : ledger[k].after = Before(k) + Delta[ledger[k].change]
  /\ balance = Before(Len(ledger) + 1)

(* A change is posted once if its transaction committed, and leaves no     *)
(* entry if it was refused or undone.                                      *)
PostedOnce ==
  \A c \in Changes : \A k \in 1..Len(ledger) : ledger[k].change = c =>
    /\ step[c] \in {"committed", "done", "unheard"}
    /\ \A j \in 1..Len(ledger) : ledger[j].change = c => j = k
=============================================================================
