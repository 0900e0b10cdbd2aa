--------------------------- MODULE RotationTodo ---------------------------
(***************************************************************************)
(* The due status of the rotation registries, and their synchronisation    *)
(* into the to-do file of the Clockwork server (rotation.py).              *)
(*                                                                         *)
(* sync-todo reads the registries one keepassxc-cli call after the other,  *)
(* reads the to-do file, puts its own category in the place of the old     *)
(* one, truncates the file and writes it.  Meanwhile time passes, the      *)
(* registries change, the server changes the file, and other syncs run.    *)
(*                                                                         *)
(* Time is counted in half days, so that an instant may lie within a day.  *)
(***************************************************************************)
EXTENDS Integers, FiniteSets, Sequences

CONSTANTS
  Accounts,   \* accounts that may have a registry
  Rank,       \* the alphabetical order of their names
  Syncs,      \* runs of sync-todo at the same time
  Intervals,  \* rotation intervals, in days
  Registries, \* for each account, the registries it may have in the beginning
  Window,     \* --due-within-days
  Skews,      \* how far the clock of the machine that writes a registry may be ahead
  Others,     \* what the file may hold besides the managed category
  Kept,       \* what a sync keeps of each: names of categories, titles, done marks
  Fresh,      \* what a new file holds besides it
  MaxChanges, \* the changes and failures the model counts to
  Cut,        \* a file that was truncated
  Malformed,  \* a file that holds no list of categories
  Nothing     \* the absent value

Trusts == {"verified", "inferred", "unknown"}
Layouts == {"inline", "indented", "blank"}

\* What the Notes of a registry entry hold.  The layout is that of
\* RotationWorkflow: JSON as the code writes it is "indented".
RegistryType ==
  [layout : Layouts, updated : Int \cup {Nothing}, interval : Intervals \cup {Nothing},
   trust : Trusts]

\* A registry that is due, as list_rotation_registries describes it.
EntryType == [account : Accounts, days : Int, trust : Trusts]

\* A line of the to-do list: "overdue" is -1, "due today" is 0, "due in nd" is n.
Items == [account : Accounts, timing : Int, trust : Trusts, done : BOOLEAN]

\* A to-do file that can be read: the managed items, and the rest.
FileType == [items : Seq(Items), others : Others]

ASSUME TodoAssumption ==
  /\ IsFiniteSet(Accounts)
  /\ Rank \in [Accounts -> Nat]
  /\ \A a, b \in Accounts : a # b => Rank[a] # Rank[b]
  /\ Intervals \subseteq Nat
  /\ Registries \in [Accounts -> SUBSET (RegistryType \cup {Nothing})]
  /\ Window \in Int
  /\ Skews \subseteq Int
  /\ Kept \in [Others -> Others]
  /\ Fresh \in Others
  /\ Kept[Fresh] = Fresh
  /\ \A o \in Others : Kept[Kept[o]] = Kept[o]
  /\ MaxChanges \in Nat
  /\ Cut # Malformed /\ Nothing \notin {Cut, Malformed}
  /\ Nothing \notin RegistryType \cup Int
  /\ \A f \in {Nothing, Cut, Malformed} : f \notin FileType

VARIABLES
  now,      \* the clock
  registry, \* the registry of each account, or Nothing
  file,     \* the to-do file: Nothing, Cut, Malformed, or its items and the rest
  pc,       \* where each sync is
  left,     \* the registries it has still to read
  found,    \* what it has found to be due
  rest,     \* what it has read of the file besides its category
  changes,  \* changes and failures so far
  steady,   \* history: nothing the sync depends on has changed since it began
  current,  \* history: nothing has changed since a steady sync has ended
  stale,    \* history: the file has changed since the sync read it
  lossy,    \* history: the file was written after a stale read, or cut off
  latest    \* history: what the server has last made of the rest of the file

local == <<left, found, rest>>
history == <<steady, current, stale, lossy, latest>>
vars == <<now, registry, file, pc, local, changes, history>>

IsFile(f) == f \notin {Nothing, Cut, Malformed}

TypeOK ==
  /\ now \in Nat
  /\ registry \in [Accounts -> RegistryType \cup {Nothing}]
  /\ file \in FileType \cup {Nothing, Cut, Malformed}
  /\ pc \in [Syncs -> {"idle", "reading", "truncate", "write"}]
  /\ left \in [Syncs -> SUBSET Accounts]
  /\ found \in [Syncs -> SUBSET EntryType]
  /\ \A s \in Syncs : \A i, j \in found[s] : i.account = j.account => i = j
  /\ rest \in [Syncs -> Others]
  /\ changes \in 0..MaxChanges
  /\ steady \in [Syncs -> BOOLEAN]
  /\ current \in BOOLEAN
  /\ stale \in [Syncs -> BOOLEAN]
  /\ lossy \in BOOLEAN
  /\ latest \in Others

Init ==
  /\ now = 0
  /\ registry \in {r \in [Accounts -> UNION {Registries[a] : a \in Accounts}] :
                    \A a \in Accounts : r[a] \in Registries[a]}
  /\ file = Nothing
  /\ pc = [s \in Syncs |-> "idle"]
  /\ left = [s \in Syncs |-> {}]
  /\ found = [s \in Syncs |-> {}]
  /\ rest = [s \in Syncs |-> Fresh]
  /\ changes = 0
  /\ steady = [s \in Syncs |-> FALSE]
  /\ current = FALSE
  /\ stale = [s \in Syncs |-> FALSE]
  /\ lossy = FALSE
  /\ latest = Fresh

-----------------------------------------------------------------------------
(* The due status.                                                          *)

HasDeadline(r) == r.updated # Nothing /\ r.interval # Nothing

\* Mutant of DaysUntilDue: the interval and the age are not counted in whole days.
DaysUntilDueRounded(r) == (2 * r.interval - (now - r.updated)) \div 2

\* _due_status: the days of a timedelta are rounded down, also before 0.
DaysUntilDue(r) == r.interval - ((now - r.updated) \div 2)

\* _is_due_within.
IsDueWithin(r) == HasDeadline(r) /\ DaysUntilDue(r) <= Window

\* _registry_sort_key: the order of the statuses is that of the days.
Before(i, j) == i.days < j.days \/ (i.days = j.days /\ Rank[i.account] < Rank[j.account])

\* The titles, in that order; none is done.
Listed(due) ==
  LET order == CHOOSE q \in [1..Cardinality(due) -> due] :
                 \A i, j \in DOMAIN q : i < j => Before(q[i], q[j])
  IN [i \in DOMAIN order |->
        [account |-> order[i].account, trust |-> order[i].trust, done |-> FALSE,
         timing |-> IF order[i].days < 0 THEN -1 ELSE order[i].days]]

\* read_rotation_registry fails on the Notes as the code writes them.
Readable(r) == r.layout # "indented"

-----------------------------------------------------------------------------
(* sync-todo.                                                               *)

Goto(s, label) == pc' = [pc EXCEPT ![s] = label]

\* Mutant of End: what was found to be due is kept for the next sync.
EndRemembering(s) ==
  /\ Goto(s, "idle")
  /\ left' = [left EXCEPT ![s] = {}]
  /\ rest' = [rest EXCEPT ![s] = Fresh]
  /\ UNCHANGED found

\* The command ends, and forgets what it has read.
End(s) ==
  /\ Goto(s, "idle")
  /\ left' = [left EXCEPT ![s] = {}]
  /\ found' = [found EXCEPT ![s] = {}]
  /\ rest' = [rest EXCEPT ![s] = Fresh]

\* list_keepassxc_entries.
ListEntries(s) ==
  /\ pc[s] = "idle"
  /\ left' = [left EXCEPT ![s] = {a \in Accounts : registry[a] # Nothing}]
  /\ Goto(s, "reading")
  /\ steady' = [steady EXCEPT ![s] = TRUE]
  /\ UNCHANGED <<now, registry, file, found, rest, changes, current, stale, lossy, latest>>

\* list_rotation_registries, for one registry: one that has gone is left out, one
\* whose Notes cannot be read ends the command.
ReadRegistry(s) ==
  /\ pc[s] = "reading"
  /\ \E a \in left[s] :
       \/ /\ registry[a] # Nothing
          /\ ~Readable(registry[a])
          /\ End(s)
       \/ /\ registry[a] # Nothing => Readable(registry[a])
          /\ left' = [left EXCEPT ![s] = @ \ {a}]
          /\ found' = [found EXCEPT ![s] = @ \cup
               IF registry[a] # Nothing /\ IsDueWithin(registry[a])
               THEN {[account |-> a, days |-> DaysUntilDue(registry[a]), trust |-> registry[a].trust]}
               ELSE {}]
          /\ UNCHANGED <<pc, rest>>
  /\ UNCHANGED <<now, registry, file, changes, history>>

\* Mutant of LoadFile: a file that cannot be read is replaced by a new one.
LoadFileAnyway(s) ==
  /\ pc[s] = "reading"
  /\ left[s] = {}
  /\ rest' = [rest EXCEPT ![s] = Fresh]
  /\ stale' = [stale EXCEPT ![s] = FALSE]
  /\ Goto(s, "truncate")
  /\ UNCHANGED <<now, registry, file, left, found, changes, steady, current, lossy, latest>>

\* _load_clockwork_todo_file, which keeps of other categories what it knows.  A
\* file that is no JSON or has no categories is an error.
LoadFile(s) ==
  /\ pc[s] = "reading"
  /\ left[s] = {}
  /\ \/ /\ file \in {Cut, Malformed}
        /\ End(s)
        /\ UNCHANGED stale
     \/ /\ file \notin {Cut, Malformed}
        /\ rest' = [rest EXCEPT ![s] = IF file = Nothing THEN Fresh ELSE Kept[file.others]]
        /\ stale' = [stale EXCEPT ![s] = FALSE]
        /\ Goto(s, "truncate")
        /\ UNCHANGED <<left, found>>
  /\ UNCHANGED <<now, registry, file, changes, steady, current, lossy, latest>>

\* The syncs that have read the file but for s work on an old one.
Editing(s) == pc[s] \in {"truncate", "write"}
Outdate(s) == stale' = [q \in Syncs |-> IF q = s THEN stale[q] ELSE Editing(q)]

\* write_text opens the file, which cuts it.
TruncateFile(s) ==
  /\ pc[s] = "truncate"
  /\ file' = Cut
  /\ Goto(s, "write")
  /\ Outdate(s)
  /\ lossy' = (lossy \/ stale[s])
  /\ current' = FALSE
  /\ UNCHANGED <<now, registry, local, changes, steady, latest>>

Text(s) == [items |-> Listed(found[s]), others |-> rest[s]]

\* The text over that of another sync may leave a rest of it behind.
WriteFile(s) ==
  /\ pc[s] = "write"
  /\ file' \in IF file = Cut THEN {Text(s)} ELSE {Text(s), Malformed}
  /\ End(s)
  /\ Outdate(s)
  /\ lossy' = (lossy \/ stale[s])
  /\ current' = (steady[s] /\ IsFile(file') /\ \A q \in Syncs \ {s} : pc[q] # "write")
  /\ UNCHANGED <<now, registry, changes, steady, latest>>

-----------------------------------------------------------------------------
(* What may happen meanwhile.                                               *)

Change == changes < MaxChanges /\ changes' = changes + 1

\* A call of keepassxc-cli fails, the file cannot be written, or the command is
\* killed.
Fail(s) ==
  /\ Change
  /\ pc[s] # "idle"
  /\ End(s)
  /\ lossy' = (lossy \/ pc[s] = "write")
  /\ UNCHANGED <<now, registry, file, steady, current, stale, latest>>

Unsettle ==
  /\ steady' = [s \in Syncs |-> FALSE]
  /\ current' = FALSE

Tick ==
  /\ Change
  /\ now' = now + 1
  /\ Unsettle
  /\ UNCHANGED <<registry, file, pc, local, stale, lossy, latest>>

\* configure, infer-config and the end of promote write the registry anew, with
\* the time of day.  They read the old one first, which fails unless it is
\* readable; the interval stays if none is given.
WriteRegistry(a) ==
  /\ Change
  /\ registry[a] # Nothing => Readable(registry[a])
  /\ \E skew \in Skews, trust \in {"verified", "inferred"},
        interval \in Intervals \cup {IF registry[a] = Nothing THEN Nothing ELSE registry[a].interval} :
       registry' = [registry EXCEPT ![a] = [layout |-> "indented", updated |-> now + skew,
                                            interval |-> interval, trust |-> trust]]
  /\ Unsettle
  /\ UNCHANGED <<now, file, pc, local, stale, lossy, latest>>

\* The user puts the Notes on one line.
TidyNotes(a) ==
  /\ Change
  /\ registry[a] # Nothing
  /\ ~Readable(registry[a])
  /\ registry' = [registry EXCEPT ![a].layout = "inline"]
  /\ Unsettle
  /\ UNCHANGED <<now, file, pc, local, stale, lossy, latest>>

\* The user removes the registry entry.
RemoveRegistry(a) ==
  /\ Change
  /\ registry[a] # Nothing
  /\ registry' = [registry EXCEPT ![a] = Nothing]
  /\ Unsettle
  /\ UNCHANGED <<now, file, pc, local, stale, lossy, latest>>

\* The server marks items as done and changes other categories, or makes a new
\* file out of one that is not there or not readable.
ServerWrites ==
  /\ Change
  /\ \E o \in Others :
       /\ \/ ~IsFile(file) /\ file' = [items |-> <<>>, others |-> o]
          \/ /\ IsFile(file)
             /\ \E done \in BOOLEAN :
                  file' = [items |-> [i \in DOMAIN file.items |->
                                        [file.items[i] EXCEPT !.done = @ \/ done]],
                           others |-> o]
       /\ latest' = o
  /\ lossy' = FALSE
  /\ stale' = [s \in Syncs |-> Editing(s)]
  /\ Unsettle
  /\ UNCHANGED <<now, registry, pc, local>>

-----------------------------------------------------------------------------
SyncStep(s) == ReadRegistry(s) \/ LoadFile(s) \/ TruncateFile(s) \/ WriteFile(s)

Next ==
  \/ \E s \in Syncs : ListEntries(s) \/ SyncStep(s) \/ Fail(s)
  \/ \E a \in Accounts : WriteRegistry(a) \/ TidyNotes(a) \/ RemoveRegistry(a)
  \/ Tick
  \/ ServerWrites

\* A command that has begun goes on.
Fairness == \A s \in Syncs : WF_vars(SyncStep(s))

Spec == Init /\ [][Next]_vars /\ Fairness

-----------------------------------------------------------------------------
(* Properties.                                                              *)

\* Half days since the registry was updated, against the deadline itself: a
\* registry is due within the window from the start of the day that is Window
\* days before its deadline, overdue from the end of its last day.
Age(a) == now - registry[a].updated
InWindow(a) ==
  /\ registry[a] # Nothing
  /\ HasDeadline(registry[a])
  /\ Age(a) >= 2 * (registry[a].interval - Window)

Describes(item, a) ==
  /\ item.account = a
  /\ item.trust = registry[a].trust
  /\ ~item.done
  /\ item.timing = -1 <=> Age(a) >= 2 * registry[a].interval + 2
  /\ item.timing # -1 =>
       /\ 2 * registry[a].interval - Age(a) <= 2 * item.timing
       /\ 2 * item.timing <= 2 * registry[a].interval - Age(a) + 1

\* The list shows each account in the window once, with its timing and its trust,
\* and no other, and nothing that is due earlier comes later.
Exact(items) ==
  /\ {items[i].account : i \in DOMAIN items} = {a \in Accounts : InWindow(a)}
  /\ \A i \in DOMAIN items : Describes(items[i], items[i].account)
  /\ \A i, j \in DOMAIN items : i < j =>
       /\ items[i].account # items[j].account
       /\ items[i].timing <= items[j].timing

\* After a sync during which no registry, file or clock has changed, and until
\* one does, the managed category is exact.
ListedExactlyDue == current => IsFile(file) /\ Exact(file.items)

\* A sync never takes anything from the rest of the file but what Kept says, and
\* leaves no broken file, also when it fails, unless the server or another sync
\* wrote between its read and its write, or it was killed between truncation and
\* write.
RestKept ==
  (~lossy /\ \A s \in Syncs : pc[s] # "write") =>
    /\ file \notin {Cut, Malformed}
    /\ IF file = Nothing THEN latest = Fresh ELSE file.others \in {latest, Kept[latest]}

\* What the file is to hold: when it is cut, what the sync that has cut it is about
\* to write; without a file, an empty list and nothing else.
Writers == {s \in Syncs : pc[s] = "write" /\ ~stale[s]}
Held ==
  IF IsFile(file) THEN file
  ELSE IF Writers # {} THEN Text(CHOOSE s \in Writers : TRUE)
  ELSE [items |-> <<>>, others |-> Fresh]

Todo == INSTANCE TodoFile WITH items <- Held.items, others <- Held.others, broken <- lossy

\* Until a sync writes after a stale read, or is killed between truncation and
\* write, the file goes through the steps of TodoFile and no other: whatever syncs
\* and the server run at the same time, each sync that gets to the file replaces
\* the list and keeps the rest in one step.
ImplementsTodoFile == Todo!ASpec

\* When sync-todo is run again and again, the list is exact in the end, once the
\* changes are over, and whatever earlier syncs have left; unless a registry or
\* the file cannot be read.
BecomesExact ==
  []<>(\E s \in Syncs : pc[s] = "reading") =>
    <>[](\/ \E a \in Accounts : registry[a] # Nothing /\ ~Readable(registry[a])
         \/ file \in {Cut, Malformed}
         \/ IsFile(file) /\ Exact(file.items))
=============================================================================
