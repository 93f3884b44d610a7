------------------------------- MODULE UpdateSwap -------------------------------
(* The agent's self-update (crates/personel-updater/src/swap.rs): the three  *)
(* binaries of the install directory, their old copies in .staging, the      *)
(* extracted package, and the tasks that an UpdateNotify spawns              *)
(* (personel-transport/src/client.rs).  Every call of the file system is one *)
(* step, writing a file is two: it is opened empty, then written.  A file    *)
(* holds the version of the package it came from, or was cut off.            *)
EXTENDS Integers, Sequences

CONSTANTS
    Packages,   \* the packages the server publishes, in order: the binaries of each
    Missing,    \* the binaries the installation begins without
    Tasks,      \* the tasks UpdateNotify can spawn
    MaxNotifies, \* bound: UpdateNotify messages
    MaxFails,   \* bound: calls of the file system that fail
    MaxStops    \* bound: times the process ends in the middle

\* Mutant: the agent first.
SwapOrderReversed == <<"agent", "watchdog", "enroll">>
SwapOrder == <<"enroll", "watchdog", "agent">>
Names == {"enroll", "watchdog", "agent"}

VARIABLES
    tree,       \* install_dir
    backup,     \* install_dir\.staging\old_*
    extracted,  \* incoming\.extracted
    pending,    \* binaries the next boot moves from .extracted
    incoming,   \* the package at incoming\update.tar.gz
    task,       \* where each spawned task stands
    base,       \* history: the tree the update began from
    found,      \* history: the backups it found in .staging
    goal,       \* history: the tree it is to leave
    shared,     \* history: another task was spawned before it ended
    result,     \* how the last task ended
    notifies, fails, stops

vars == <<tree, backup, extracted, pending, incoming, task, base, found, goal, shared, result,
          notifies, fails, stops>>

began == <<base, found, goal, shared>>

None == -1
Partial == -2   \* a file that was opened to be written, and not written
Versions == 0..Len(Packages)
Dirs == [Names -> Versions \cup {None, Partial}]

TypeOK ==
    /\ tree \in Dirs /\ backup \in Dirs /\ extracted \in Dirs
    /\ pending \subseteq Names
    /\ incoming \in Versions
    /\ task \in [Tasks -> [at : {"idle", "extract", "clear", "save", "place", "unsave",
                                 "defer", "undo", "undo_again"},
                           i : 0..4, version : Versions, left : SUBSET Names]]
    /\ base \in Dirs /\ found \in Dirs /\ goal \in Dirs /\ shared \in BOOLEAN
    /\ result \in {"none", "ok", "refused", "error", "unrestored", "lost", "booted"}
    /\ notifies \in 0..MaxNotifies /\ fails \in 0..MaxFails /\ stops \in 0..MaxStops

Idle == [at |-> "idle", i |-> 0, version |-> 0, left |-> {}]
Empty == [n \in Names |-> None]
Installed == [n \in Names |-> IF n \in Missing THEN None ELSE 0]

Init ==
    /\ tree = Installed /\ backup = Empty /\ extracted = Empty
    /\ pending = {} /\ incoming = 0
    /\ task = [t \in Tasks |-> Idle]
    /\ base = Installed /\ found = Empty /\ goal = Installed /\ shared = FALSE
    /\ result = "none" /\ notifies = 0 /\ fails = 0 /\ stops = 0

Quiet == \A t \in Tasks : task[t].at = "idle"

Updated(dir, v) == [n \in Names |-> IF n \in Packages[v] THEN v ELSE dir[n]]

\* What the next boot moves, and the tree it leaves.
Moved(n) == n \in pending /\ extracted[n] # None

AfterBoot == [n \in Names |-> IF Moved(n) THEN extracted[n] ELSE tree[n]]

Goto(t, step) == task' = [task EXCEPT ![t].at = step]

Failing == fails < MaxFails /\ fails' = fails + 1

\* std::fs::rename: the target is replaced.
Keep(n) ==      \* from the tree to the backup
    /\ backup' = [backup EXCEPT ![n] = tree[n]]
    /\ tree' = [tree EXCEPT ![n] = None]

Restore(n) ==   \* from the backup to the tree
    /\ tree' = [tree EXCEPT ![n] = backup[n]]
    /\ backup' = [backup EXCEPT ![n] = None]

----------------------------------------------------------------------------
\* version_checker.rs: the next package replaces the one at the incoming path.
Download ==
    /\ incoming < Len(Packages)
    /\ incoming' = incoming + 1
    /\ UNCHANGED <<tree, backup, extracted, pending, task, began, result, notifies, fails, stops>>

\* An UpdateNotify: a task reads the package, whose signature and hashes are right.
Notify(t) ==
    /\ task[t].at = "idle" /\ incoming > 0
    /\ notifies < MaxNotifies /\ notifies' = notifies + 1
    /\ task' = [task EXCEPT ![t] = [at |-> "extract", i |-> 0, version |-> incoming, left |-> Packages[incoming]]]
    /\ IF Quiet THEN /\ base' = tree /\ found' = backup
                     /\ goal' = Updated(AfterBoot, incoming) /\ shared' = FALSE
                ELSE shared' = TRUE /\ UNCHANGED <<base, found, goal>>
    /\ UNCHANGED <<tree, backup, extracted, pending, incoming, result, fails, stops>>

\* The binary whose turn it is.
Current(t) == SwapOrder[task[t].i]

\* The binaries of the package are written to .extracted, in the order of the manifest,
\* over what is there.
Open(t) ==
    /\ task[t].at = "extract" /\ task[t].i = 0
    /\ \E i \in 1..3 :
          /\ SwapOrder[i] \in task[t].left
          /\ task' = [task EXCEPT ![t].i = i]
          /\ extracted' = [extracted EXCEPT ![SwapOrder[i]] = Partial]
    /\ UNCHANGED <<tree, backup, pending, incoming, began, result, notifies, fails, stops>>

Write(t) ==
    /\ task[t].at = "extract" /\ task[t].i # 0
    /\ extracted' = [extracted EXCEPT ![Current(t)] = task[t].version]
    /\ task' = [task EXCEPT ![t].i = 0, ![t].left = @ \ {Current(t)}]
    /\ UNCHANGED <<tree, backup, pending, incoming, began, result, notifies, fails, stops>>

\* The error is logged, and what was written so far is left.
Refuse(t) ==
    /\ task[t].at = "extract" /\ task[t].left # {}
    /\ Failing
    /\ task' = [task EXCEPT ![t] = Idle] /\ result' = "refused"
    /\ UNCHANGED <<tree, backup, extracted, pending, incoming, began, notifies, stops>>

\* apply_update's pre-flight; on its error the caller rolls back.
Preflight(t) ==
    /\ task[t].at = "extract" /\ task[t].left = {}
    /\ \/ /\ \A n \in Packages[task[t].version] : extracted[n] = task[t].version
          /\ task' = [task EXCEPT ![t].at = "clear", ![t].i = 1] /\ UNCHANGED fails
       \/ /\ \/ \E n \in Packages[task[t].version] : extracted[n] # task[t].version
                /\ UNCHANGED fails
             \/ Failing
          /\ task' = [task EXCEPT ![t].at = "undo_again", ![t].i = 3]
    /\ UNCHANGED <<tree, backup, extracted, pending, incoming, began, result, notifies, stops>>

Skip(t) ==
    /\ task[t].at = "clear" /\ task[t].i <= 3
    /\ Current(t) \notin Packages[task[t].version]
    /\ task' = [task EXCEPT ![t].i = @ + 1]
    /\ UNCHANGED <<tree, backup, extracted, pending, incoming, began, result, notifies, fails, stops>>

\* cutover_single clears a backup that an earlier attempt left.
Clear(t) ==
    /\ task[t].at = "clear" /\ task[t].i <= 3
    /\ Current(t) \in Packages[task[t].version]
    /\ backup' = [backup EXCEPT ![Current(t)] = None]
    /\ Goto(t, "save")
    /\ UNCHANGED <<tree, extracted, pending, incoming, began, result, notifies, fails, stops>>

Save(t) ==
    /\ task[t].at = "save"
    /\ IF tree[Current(t)] # None THEN Keep(Current(t))
                                  ELSE UNCHANGED <<tree, backup>>
    /\ Goto(t, "place")
    /\ UNCHANGED <<extracted, pending, incoming, began, result, notifies, fails, stops>>

Place(t) ==
    /\ task[t].at = "place"
    /\ extracted[Current(t)] # None
    /\ tree' = [tree EXCEPT ![Current(t)] = extracted[Current(t)]]
    /\ extracted' = [extracted EXCEPT ![Current(t)] = None]
    /\ task' = [task EXCEPT ![t].at = "clear", ![t].i = @ + 1]
    /\ UNCHANGED <<backup, pending, incoming, began, result, notifies, fails, stops>>

\* The file is locked, or gone.
PlaceFails(t) ==
    /\ task[t].at = "place"
    /\ IF extracted[Current(t)] = None THEN UNCHANGED fails ELSE Failing
    /\ Goto(t, "unsave")
    /\ UNCHANGED <<tree, backup, extracted, pending, incoming, began, result, notifies, stops>>

Unsave(t) ==
    /\ task[t].at = "unsave"
    /\ IF backup[Current(t)] # None THEN Restore(Current(t))
                                    ELSE UNCHANGED <<tree, backup>>
    /\ Goto(t, "defer")
    /\ UNCHANGED <<extracted, pending, incoming, began, result, notifies, fails, stops>>

\* MOVEFILE_DELAY_UNTIL_REBOOT; the stage counts as completed.
Defer(t) ==
    /\ task[t].at = "defer"
    /\ pending' = pending \cup {Current(t)}
    /\ task' = [task EXCEPT ![t].at = "clear", ![t].i = @ + 1]
    /\ UNCHANGED <<tree, backup, extracted, incoming, began, result, notifies, fails, stops>>

\* An error of cutover_single: apply_update rolls back.
CutoverFails(t) ==
    /\ \/ task[t].at = "clear" /\ task[t].i <= 3
          /\ Current(t) \in Packages[task[t].version] /\ backup[Current(t)] # None
       \/ task[t].at = "save" /\ tree[Current(t)] # None
       \/ task[t].at = "unsave" /\ backup[Current(t)] # None
       \/ task[t].at = "defer"
    /\ Failing
    /\ task' = [task EXCEPT ![t].at = "undo", ![t].i = 3]
    /\ UNCHANGED <<tree, backup, extracted, pending, incoming, began, result, notifies, stops>>

\* apply_update returns Ok, and the process exits with every task of it.
Finish(t) ==
    /\ task[t].at = "clear" /\ task[t].i = 4
    /\ task' = [u \in Tasks |-> Idle]
    /\ result' = "ok"
    /\ UNCHANGED <<tree, backup, extracted, pending, incoming, began, notifies, fails, stops>>

----------------------------------------------------------------------------
\* rollback_update, called by apply_update and again by the task

Undo(t) ==
    /\ task[t].at \in {"undo", "undo_again"} /\ task[t].i > 0
    /\ IF backup[Current(t)] # None THEN Restore(Current(t))
                                    ELSE UNCHANGED <<tree, backup>>
    /\ task' = [task EXCEPT ![t].i = @ - 1]
    /\ UNCHANGED <<extracted, pending, incoming, began, result, notifies, fails, stops>>

\* The task calls it a second time whatever apply_update's error was, and logs
\* the error of that one.
Return(t, how) ==
    IF task[t].at = "undo"
    THEN /\ task' = [task EXCEPT ![t].at = "undo_again", ![t].i = 3]
         /\ UNCHANGED result
    ELSE task' = [task EXCEPT ![t] = Idle] /\ result' = how

Undone(t) ==
    /\ task[t].at \in {"undo", "undo_again"} /\ task[t].i = 0
    /\ Return(t, "error")
    /\ UNCHANGED <<tree, backup, extracted, pending, incoming, began, notifies, fails, stops>>

UndoFails(t) ==
    /\ task[t].at \in {"undo", "undo_again"} /\ task[t].i > 0
    /\ backup[Current(t)] # None
    /\ Failing
    /\ Return(t, "unrestored")
    /\ UNCHANGED <<tree, backup, extracted, pending, incoming, began, notifies, stops>>

----------------------------------------------------------------------------
\* The machine

Stops == IF Quiet THEN UNCHANGED stops ELSE stops < MaxStops /\ stops' = stops + 1

Crash ==
    /\ ~Quiet /\ Stops
    /\ task' = [t \in Tasks |-> Idle]
    /\ result' = "lost"
    /\ UNCHANGED <<tree, backup, extracted, pending, incoming, began, notifies, fails>>

Reboot ==
    /\ pending # {} /\ Stops
    /\ task' = [t \in Tasks |-> Idle]
    /\ result' = "booted"
    /\ tree' = AfterBoot
    /\ extracted' = [n \in Names |-> IF Moved(n) THEN None ELSE extracted[n]]
    /\ pending' = {}
    /\ UNCHANGED <<backup, incoming, began, fails, notifies>>

Step(t) ==
    \/ Open(t) \/ Write(t) \/ Refuse(t) \/ Preflight(t) \/ Skip(t) \/ Clear(t) \/ Save(t) \/ Place(t) \/ PlaceFails(t)
    \/ Unsave(t) \/ Defer(t) \/ CutoverFails(t) \/ Finish(t)
    \/ Undo(t) \/ Undone(t) \/ UndoFails(t)

Next ==
    \/ Download \/ Crash \/ Reboot
    \/ \E t \in Tasks : Notify(t) \/ Step(t)

Spec == Init /\ [][Next]_vars

----------------------------------------------------------------------------
\* Properties

\* The task of an update that ran with no other beside it: apply_update's Ok means
\* that the whole package is installed, or will be by the next boot, whatever an
\* earlier update left in .extracted, .staging and the list of moves.
Applied == Quiet /\ ~shared /\ result = "ok" => AfterBoot = goal

\* After an update that was refused or failed every binary is the one it began from, or the
\* backup of an earlier update, which rollback_update takes for its own; one that
\* was not there is not taken away.  That apply_update's own rollback failed does
\* not hurt, as the task rolls back once more, unless that fails too.
Restored ==
    Quiet /\ ~shared /\ result \in {"refused", "error"} =>
        \A n \in Names : tree[n] \in {base[n], found[n]} \/ base[n] = None

\* "before each MoveFileExW we capture the CURRENT binary" (swap.rs): until the
\* update has succeeded, or a boot has made the moves it put off, there is a copy
\* of every binary it began from, installed or as the backup, unless a rollback
\* has put a backup it found in .staging over it.  Every variable keeps its type.
NothingLost ==
    /\ TypeOK
    /\ \/ shared
       \/ Quiet /\ result \in {"ok", "booted"}
       \/ \A n \in Names :
             \/ base[n] \in {None, tree[n], backup[n]}
             \/ found[n] # None /\ tree[n] = found[n]

\* A binary that an extraction left cut off is not put in place, neither by the update nor
\* by a rollback, unless it stood there, or in .staging, before.  A boot does put one there.
NoneCutOff ==
    \/ shared
    \/ Quiet /\ result = "booted"
    \/ \A n \in Names : tree[n] = Partial => Partial \in {base[n], found[n]}

Recovers == Applied /\ Restored /\ NothingLost /\ NoneCutOff

\* The agent is replaced last (SWAP_ORDER): when an update puts the new agent in
\* place every other binary of its package is there, or waits for the boot,
\* whatever failed, stopped or was left over before.
AgentLast ==
    \A t \in Tasks :
        /\ ~shared /\ task[t].at = "place" /\ Current(t) = "agent"
        /\ tree'["agent"] \notin {None, tree["agent"]}
        => \A n \in Packages[task[t].version] \ {"agent"} :
               tree[n] = task[t].version \/ n \in pending

\* An update ends whole, or with what it began from, never loses a binary or puts a cut-off
\* one in place on the way, and the agent's own last (verify_update_package, apply_update,
\* rollback_update).
SwapTrue == [][Recovers' /\ AgentLast]_vars
================================================================================
