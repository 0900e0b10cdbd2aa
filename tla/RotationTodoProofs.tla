------------------------ MODULE RotationTodoProofs ------------------------
(***************************************************************************)
(* Theorems about RotationTodo, for any finite set of accounts, any        *)
(* registries, any syncs at the same time and any number of changes: what  *)
(* the to-do list shows is exactly what is due, and no sync takes anything *)
(* from the rest of the file.                                              *)
(***************************************************************************)
EXTENDS RotationTodo, FiniteSetTheorems, SequenceTheorems, TLAPS

\* What a sync finds of the registry of an account, and whether it is due.
Due(a) == registry[a] # Nothing /\ IsDueWithin(registry[a])
Entry(a) == [account |-> a, days |-> DaysUntilDue(registry[a]), trust |-> registry[a].trust]
Unique(due) == \A i, j \in due : i.account = j.account => i = j

\* Nothing is found of an account that is still to be read, nor by a sync that
\* has not begun.
Reading ==
  \A s \in Syncs :
    /\ pc[s] = "idle" => found[s] = {} /\ left[s] = {}
    /\ Editing(s) => left[s] = {}
    /\ \A i \in found[s] : i.account \notin left[s]

\* A sync that nothing has disturbed has found, of what it has read, all that is
\* due, as it is now.
FoundExactly ==
  \A s \in Syncs :
    steady[s] /\ pc[s] # "idle" =>
      found[s] = {Entry(a) : a \in {b \in Accounts \ left[s] : Due(b)}}

\* The rest of a file that is not cut is what the server has made of it.
FileKept ==
  ~lossy /\ file # Cut =>
    /\ file # Malformed
    /\ IF file = Nothing THEN latest = Fresh ELSE file.others \in {latest, Kept[latest]}

\* So is what a sync has read, as long as nobody else writes; and then the file
\* that it is about to write is the one it has cut.
CopyKept ==
  \A s \in Syncs :
    /\ Editing(s) /\ ~stale[s] /\ ~lossy => rest[s] = Kept[latest]
    /\ pc[s] = "write" /\ ~stale[s] => file = Cut

\* Who has cut the file is still to write it.
CutMended == ~lossy /\ file = Cut => \E s \in Syncs : pc[s] = "write"

IInv ==
  /\ TypeOK
  /\ Reading
  /\ FoundExactly
  /\ ListedExactlyDue
  /\ FileKept
  /\ CopyKept
  /\ CutMended

-----------------------------------------------------------------------------
(* The order of the list.                                                   *)

\* What a sync has found is finite: it has an entry for each account at most.
LEMMA FoundFinite ==
  ASSUME NEW due, due \subseteq EntryType, Unique(due)
  PROVE  IsFiniteSet(due) /\ Cardinality(due) \in Nat
<1> DEFINE account == [i \in due |-> i.account]
<1>1. account \in Injection(due, Accounts)
  BY DEF EntryType, Unique, Injection, IsInjective
<1>2. IsFiniteSet(Accounts)
  BY TodoAssumption DEF TodoAssumption
<1>3. IsFiniteSet(due)
  BY <1>1, <1>2, FS_Injection
<1>4. QED
  BY <1>3, FS_CardinalityType

\* No entry comes before itself, and of two entries one comes before the other.
LEMMA BeforeIsOrder ==
  ASSUME NEW due, due \subseteq EntryType, Unique(due)
  PROVE  /\ \A i \in due : ~Before(i, i)
         /\ \A i, j \in due : i = j \/ Before(i, j) \/ Before(j, i)
         /\ \A i, j, k \in due : Before(i, j) /\ Before(j, k) => Before(i, k)
<1>1. \A i \in due : i.account \in Accounts /\ i.days \in Int /\ Rank[i.account] \in Nat
  BY TodoAssumption DEF TodoAssumption, EntryType
<1>2. \A i, j \in due : i # j => Rank[i.account] # Rank[j.account]
  BY <1>1, TodoAssumption DEF TodoAssumption, Unique
<1>3. QED
  BY <1>1, <1>2 DEF Before

\* The place of an entry: after all that come before it.
Earlier(due, i) == {j \in due : Before(j, i)}
Place(due, i) == 1 + Cardinality(Earlier(due, i))

\* Each entry has a place in the list, a later one if it comes later.
LEMMA PlaceIsOrder ==
  ASSUME NEW due, due \subseteq EntryType, Unique(due)
  PROVE  /\ \A i \in due : Place(due, i) \in 1..Cardinality(due)
         /\ \A i, j \in due : Before(i, j) => Place(due, i) < Place(due, j)
<1>1. IsFiniteSet(due) /\ Cardinality(due) \in Nat
  BY FoundFinite
<1>2. \A i \in due : /\ IsFiniteSet(Earlier(due, i))
                     /\ Cardinality(Earlier(due, i)) \in Nat
  <2>1. \A i \in due : Earlier(due, i) \in SUBSET due
    BY DEF Earlier
  <2>2. QED
    BY <1>1, <2>1, FS_Subset, FS_CardinalityType
<1>3. ASSUME NEW i \in due
      PROVE  Place(due, i) \in 1..Cardinality(due)
  <2>1. Earlier(due, i) \in SUBSET due /\ Earlier(due, i) # due
    BY BeforeIsOrder DEF Earlier
  <2>2. /\ Cardinality(Earlier(due, i)) <= Cardinality(due)
        /\ Cardinality(Earlier(due, i)) # Cardinality(due)
    BY <1>1, <2>1, FS_Subset
  <2>3. QED
    BY <1>1, <1>2, <2>2 DEF Place
<1>4. ASSUME NEW i \in due, NEW j \in due, Before(i, j)
      PROVE  Place(due, i) < Place(due, j)
  <2>1. Earlier(due, i) \in SUBSET Earlier(due, j)
    BY <1>4, BeforeIsOrder DEF Earlier
  <2>2. Earlier(due, i) # Earlier(due, j)
    BY <1>4, BeforeIsOrder DEF Earlier
  <2>3. /\ Cardinality(Earlier(due, i)) <= Cardinality(Earlier(due, j))
        /\ Cardinality(Earlier(due, i)) # Cardinality(Earlier(due, j))
    BY <1>2, <2>1, <2>2, FS_Subset
  <2>4. QED
    BY <1>2, <2>3 DEF Place
<1>5. QED
  BY <1>3, <1>4

\* There is one way to put the entries in order at least: each at its place.
LEMMA SomeOrder ==
  ASSUME NEW due, due \subseteq EntryType, Unique(due)
  PROVE  \E q \in [1..Cardinality(due) -> due] :
           \A i, j \in DOMAIN q : i < j => Before(q[i], q[j])
<1> DEFINE places == 1..Cardinality(due)
<1> DEFINE place == [i \in due |-> Place(due, i)]
<1> DEFINE order == [n \in places |-> CHOOSE i \in due : Place(due, i) = n]
<1>1. IsFiniteSet(due) /\ Cardinality(due) \in Nat
  BY FoundFinite
<1>2. IsFiniteSet(places) /\ Cardinality(places) = Cardinality(due)
  BY <1>1, FS_Interval
<1>3. place \in Injection(due, places)
  <2>1. place \in [due -> places]
    BY PlaceIsOrder
  <2>2. ASSUME NEW i \in due, NEW j \in due, place[i] = place[j]
        PROVE  i = j
    <3>1. Place(due, i) = Place(due, j)
      BY <2>2
    <3>2. Place(due, i) \in Int /\ Place(due, j) \in Int
      BY PlaceIsOrder, <1>1
    <3>3. ~Before(i, j) /\ ~Before(j, i)
      BY <3>1, <3>2, PlaceIsOrder
    <3>4. QED
      BY <3>3, BeforeIsOrder
  <2>3. QED
    BY <2>1, <2>2 DEF Injection, IsInjective
<1>4. place \in Surjection(due, places)
  BY <1>1, <1>2, <1>3, FS_Injection
<1>5. \A n \in places : order[n] \in due /\ Place(due, order[n]) = n
  <2>1. \A n \in places : \E i \in due : Place(due, i) = n
    BY <1>4 DEF Surjection
  <2>2. QED
    BY <2>1
<1>6. order \in [places -> due]
  BY <1>5
<1>7. ASSUME NEW i \in places, NEW j \in places, i < j
      PROVE  Before(order[i], order[j])
  <2>1. order[i] # order[j]
    BY <1>5, <1>7, <1>1
  <2>2. ~Before(order[j], order[i])
    <3>1. ASSUME Before(order[j], order[i])
          PROVE  FALSE
      <4>1. Place(due, order[j]) < Place(due, order[i])
        BY <1>5, <3>1, PlaceIsOrder
      <4>2. j < i
        BY <4>1, <1>5
      <4>3. QED
        BY <4>2, <1>7, <1>1
    <3>2. QED
      BY <3>1
  <2>3. QED
    BY <2>1, <2>2, <1>5, BeforeIsOrder
<1>8. QED
  BY <1>6, <1>7

\* The order that Listed chooses: it is sorted, and leaves no entry out.
Order(due) ==
  CHOOSE q \in [1..Cardinality(due) -> due] :
    \A i, j \in DOMAIN q : i < j => Before(q[i], q[j])

LEMMA OrderIsSorted ==
  ASSUME NEW due, due \subseteq EntryType, Unique(due)
  PROVE  /\ Order(due) \in [1..Cardinality(due) -> due]
         /\ \A i, j \in 1..Cardinality(due) : i < j => Before(Order(due)[i], Order(due)[j])
         /\ \A e \in due : \E i \in 1..Cardinality(due) : Order(due)[i] = e
<1> DEFINE places == 1..Cardinality(due)
<1>1. IsFiniteSet(due) /\ Cardinality(due) \in Nat
  BY FoundFinite
<1>2. /\ Order(due) \in [places -> due]
      /\ \A i, j \in DOMAIN Order(due) : i < j => Before(Order(due)[i], Order(due)[j])
  BY SomeOrder DEF Order
<1>3. \A i, j \in places : i < j => Before(Order(due)[i], Order(due)[j])
  BY <1>2
<1>4. Order(due) \in Injection(places, due)
  <2>1. ASSUME NEW i \in places, NEW j \in places, Order(due)[i] = Order(due)[j]
        PROVE  i = j
    <3>1. ~Before(Order(due)[i], Order(due)[j]) /\ ~Before(Order(due)[j], Order(due)[i])
      BY <1>2, <2>1, BeforeIsOrder
    <3>2. ~(i < j) /\ ~(j < i)
      BY <1>3, <3>1
    <3>3. QED
      BY <3>2, <1>1
  <2>2. QED
    BY <1>2, <2>1 DEF Injection, IsInjective
<1>5. IsFiniteSet(places) /\ Cardinality(places) = Cardinality(due)
  BY <1>1, FS_Interval
<1>6. Order(due) \in Surjection(places, due)
  BY <1>1, <1>4, <1>5, FS_Injection
<1>7. QED
  BY <1>2, <1>3, <1>6 DEF Surjection

\* The line of an entry.
Line(e) ==
  [account |-> e.account, trust |-> e.trust, done |-> FALSE,
   timing |-> IF e.days < 0 THEN -1 ELSE e.days]

\* The list has the line of every entry, in their order.
LEMMA ListedInOrder ==
  ASSUME NEW due, due \subseteq EntryType, Unique(due)
  PROVE  /\ DOMAIN Listed(due) = 1..Cardinality(due)
         /\ \A i \in 1..Cardinality(due) : Listed(due)[i] = Line(Order(due)[i])
         /\ Listed(due) \in Seq(Items)
<1>1. Listed(due) = [i \in DOMAIN Order(due) |-> Line(Order(due)[i])]
  BY DEF Listed, Order, Line
<1>2. DOMAIN Order(due) = 1..Cardinality(due)
  BY OrderIsSorted
<1>3. \A e \in due : Line(e) \in Items
  BY DEF EntryType, Line, Items
<1>4. \A i \in 1..Cardinality(due) : Order(due)[i] \in due
  BY OrderIsSorted
<1>5. Cardinality(due) \in Nat
  BY FoundFinite
<1>6. Listed(due) \in [1..Cardinality(due) -> Items]
  BY <1>1, <1>2, <1>3, <1>4
<1>7. Listed(due) \in Seq(Items)
  BY <1>5, <1>6, SeqDef
<1>8. QED
  BY <1>1, <1>2, <1>7

-----------------------------------------------------------------------------
(* Days and half days.                                                      *)

\* Days of a timedelta are rounded down, also before 0.
LEMMA RoundedDown ==
  ASSUME NEW age \in Int
  PROVE  /\ age \div 2 \in Int
         /\ 2 * (age \div 2) <= age
         /\ age <= 2 * (age \div 2) + 1
  OBVIOUS

\* A registry that has a deadline has numbers to compute it from.
LEMMA DeadlineTypes ==
  ASSUME TypeOK, NEW a \in Accounts, registry[a] # Nothing
  PROVE  /\ registry[a] \in RegistryType
         /\ registry[a].trust \in Trusts
         /\ HasDeadline(registry[a]) =>
              /\ registry[a].interval \in Int
              /\ Age(a) \in Int
              /\ DaysUntilDue(registry[a]) \in Int
<1>1. registry[a] \in RegistryType
  BY DEF TypeOK
<1>2. now \in Int /\ Intervals \subseteq Int
  BY TodoAssumption DEF TodoAssumption, TypeOK
<1>3. ASSUME HasDeadline(registry[a])
      PROVE  registry[a].interval \in Int /\ registry[a].updated \in Int
  BY <1>1, <1>2, <1>3 DEF RegistryType, HasDeadline
<1>4. ASSUME HasDeadline(registry[a])
      PROVE  Age(a) \in Int /\ DaysUntilDue(registry[a]) \in Int
  BY <1>2, <1>3, <1>4 DEF Age, DaysUntilDue
<1>5. QED
  BY <1>1, <1>3, <1>4 DEF RegistryType

\* What the code counts in days is what the properties say in half days: whether
\* a registry is due, and what its line shows.
LEMMA DueInHalfDays ==
  ASSUME TypeOK, NEW a \in Accounts
  PROVE  /\ Due(a) <=> InWindow(a)
         /\ Due(a) => Entry(a) \in EntryType /\ Describes(Line(Entry(a)), a)
<1>1. CASE registry[a] = Nothing
  BY <1>1 DEF Due, InWindow
<1>2. CASE registry[a] # Nothing /\ ~HasDeadline(registry[a])
  BY <1>2 DEF Due, InWindow, IsDueWithin
<1>3. CASE registry[a] # Nothing /\ HasDeadline(registry[a])
  <2> DEFINE age == Age(a)
  <2> DEFINE interval == registry[a].interval
  <2> DEFINE half == age \div 2
  <2>1. interval \in Int /\ age \in Int /\ registry[a].trust \in Trusts
    BY <1>3, DeadlineTypes
  <2>2. Window \in Int
    BY TodoAssumption DEF TodoAssumption
  <2>3. half \in Int /\ 2 * half <= age /\ age <= 2 * half + 1
    BY <2>1, RoundedDown
  <2>4. DaysUntilDue(registry[a]) = interval - half
    BY DEF DaysUntilDue, Age
  <2>5. Due(a) <=> interval - half <= Window
    BY <1>3, <2>4 DEF Due, IsDueWithin
  <2>6. InWindow(a) <=> age >= 2 * (interval - Window)
    BY <1>3 DEF InWindow
  <2>7. Due(a) <=> InWindow(a)
    <3> HIDE DEF half, age, interval
    <3>1. QED
      BY <2>1, <2>2, <2>3, <2>5, <2>6
  <2>8. Entry(a) \in EntryType
    BY <2>1, <2>3, <2>4 DEF Entry, EntryType
  <2>9. Describes(Line(Entry(a)), a)
    <3> DEFINE timing == IF interval - half < 0 THEN -1 ELSE interval - half
    <3>1. Line(Entry(a)) = [account |-> a, trust |-> registry[a].trust, done |-> FALSE,
                            timing |-> timing]
      BY <2>4 DEF Line, Entry
    <3>2. /\ timing = -1 <=> age >= 2 * interval + 2
          /\ timing # -1 => 2 * interval - age <= 2 * timing /\ 2 * timing <= 2 * interval - age + 1
      <4> HIDE DEF half, age, interval
      <4>1. QED
        BY <2>1, <2>3
    <3>3. QED
      BY <3>1, <3>2 DEF Describes
  <2>10. QED
    BY <2>7, <2>8, <2>9
<1>4. QED
  BY <1>1, <1>2, <1>3

\* A list of all that is due is exact.
LEMMA ListIsExact ==
  ASSUME TypeOK, NEW due, due = {Entry(a) : a \in {b \in Accounts : Due(b)}}
  PROVE  Exact(Listed(due))
<1> DEFINE places == 1..Cardinality(due)
<1> DEFINE order == Order(due)
<1> DEFINE items == Listed(due)
<1>1. due \subseteq EntryType
  BY DueInHalfDays
<1>2. \A e \in due : e.account \in Accounts /\ Due(e.account) /\ e = Entry(e.account)
  BY DEF Entry
<1>3. Unique(due)
  BY <1>2 DEF Unique
<1>4. /\ DOMAIN items = places
      /\ \A i \in places : items[i] = Line(order[i]) /\ order[i] \in due
  BY <1>1, <1>3, ListedInOrder, OrderIsSorted
<1>5. \A i \in places :
        /\ items[i].account = order[i].account
        /\ items[i].timing = IF order[i].days < 0 THEN -1 ELSE order[i].days
  <2>1. \A e : /\ Line(e).account = e.account
              /\ Line(e).timing = IF e.days < 0 THEN -1 ELSE e.days
    BY DEF Line
  <2> HIDE DEF items, order
  <2>2. QED
    BY <1>4, <2>1
<1>6. {items[i].account : i \in DOMAIN items} = {a \in Accounts : InWindow(a)}
  <2>1. ASSUME NEW i \in places
        PROVE  items[i].account \in Accounts /\ InWindow(items[i].account)
    BY <1>2, <1>4, <1>5, DueInHalfDays
  <2>2. ASSUME NEW a \in Accounts, InWindow(a)
        PROVE  \E i \in places : items[i].account = a
    <3>1. Entry(a) \in due /\ Entry(a).account = a
      BY <2>2, DueInHalfDays DEF Entry
    <3>2. PICK i \in places : order[i] = Entry(a)
      BY <3>1, <1>1, <1>3, OrderIsSorted
    <3>3. QED
      BY <3>1, <3>2, <1>5
  <2>3. QED
    BY <2>1, <2>2, <1>4
<1>7. \A i \in DOMAIN items : Describes(items[i], items[i].account)
  <2>1. ASSUME NEW i \in places
        PROVE  Describes(items[i], items[i].account)
    <3>1. order[i] = Entry(order[i].account) /\ Due(order[i].account) /\ order[i].account \in Accounts
      BY <1>2, <1>4
    <3>2. Describes(Line(order[i]), order[i].account)
      BY <3>1, DueInHalfDays
    <3>3. QED
      BY <3>2, <1>4, <1>5
  <2>2. QED
    BY <2>1, <1>4
<1>8. ASSUME NEW i \in DOMAIN items, NEW j \in DOMAIN items, i < j
      PROVE  items[i].account # items[j].account /\ items[i].timing <= items[j].timing
  <2>1. Before(order[i], order[j]) /\ order[i] \in due /\ order[j] \in due
    BY <1>8, <1>4, <1>1, <1>3, OrderIsSorted
  <2>2. order[i] # order[j]
    BY <2>1, <1>1, <1>3, BeforeIsOrder
  <2>3. items[i].account # items[j].account
    <3>1. order[i].account # order[j].account
      BY <2>1, <2>2, <1>3 DEF Unique
    <3> HIDE DEF items, order
    <3>2. QED
      BY <3>1, <1>4, <1>5, <1>8
  <2>4. /\ order[i].days \in Int /\ order[j].days \in Int
        /\ order[i].days <= order[j].days
    BY <2>1, <1>1 DEF Before, EntryType
  <2>5. items[i].timing <= items[j].timing
    <3> HIDE DEF items, order
    <3>1. QED
      BY <2>4, <1>4, <1>5, <1>8
  <2>6. QED
    BY <2>3, <2>5
<1>9. QED
  BY <1>6, <1>7, <1>8 DEF Exact

-----------------------------------------------------------------------------
(* Types.                                                                   *)

LEMMA InitTypes == Init => TypeOK
<1> SUFFICES ASSUME Init
             PROVE  TypeOK
  OBVIOUS
<1>1. registry \in [Accounts -> RegistryType \cup {Nothing}]
  BY TodoAssumption DEF TodoAssumption, Init
<1>2. /\ now \in Nat
      /\ file \in FileType \cup {Nothing, Cut, Malformed}
      /\ pc \in [Syncs -> {"idle", "reading", "truncate", "write"}]
      /\ left \in [Syncs -> SUBSET Accounts]
      /\ changes \in 0..MaxChanges
  BY TodoAssumption DEF TodoAssumption, Init
<1>6. current \in BOOLEAN /\ lossy \in BOOLEAN
  BY DEF Init
<1>7. steady \in [Syncs -> BOOLEAN] /\ stale \in [Syncs -> BOOLEAN]
  BY DEF Init
<1>3. found \in [Syncs -> SUBSET EntryType] /\ \A s \in Syncs : found[s] = {}
  BY DEF Init
<1>4. rest \in [Syncs -> Others] /\ latest \in Others
  BY TodoAssumption DEF TodoAssumption, Init
<1>5. QED
  BY <1>1, <1>2, <1>3, <1>4, <1>6, <1>7 DEF TypeOK

\* A command that ends leaves nothing behind.
LEMMA Ended ==
  ASSUME TypeOK, NEW s \in Syncs, End(s)
  PROVE  /\ pc' = [pc EXCEPT ![s] = "idle"]
         /\ pc' \in [Syncs -> {"idle", "reading", "truncate", "write"}]
         /\ left' \in [Syncs -> SUBSET Accounts]
         /\ found' \in [Syncs -> SUBSET EntryType]
         /\ \A q \in Syncs : left'[q] = IF q = s THEN {} ELSE left[q]
         /\ \A q \in Syncs : found'[q] = IF q = s THEN {} ELSE found[q]
         /\ \A q \in Syncs : q # s => rest'[q] = rest[q]
         /\ rest' \in [Syncs -> Others]
<1>1. Fresh \in Others
  BY TodoAssumption DEF TodoAssumption
<1>2. QED
  BY <1>1 DEF TypeOK, End, Goto

\* A file that is there and neither cut nor malformed has items and a rest.
LEMMA FileReadable ==
  ASSUME TypeOK
  PROVE  /\ IsFile(file) => /\ file.items \in Seq(Items) /\ file.others \in Others
                            /\ file = [items |-> file.items, others |-> file.others]
         /\ \A i \in Seq(Items), o \in Others :
              /\ [items |-> i, others |-> o] \in FileType
              /\ IsFile([items |-> i, others |-> o])
<1>1. \A i \in Seq(Items), o \in Others : [items |-> i, others |-> o] \in FileType
  BY DEF FileType
<1>2. \A f \in FileType : IsFile(f)
  BY TodoAssumption DEF TodoAssumption, IsFile
<1>3. IsFile(file) => file \in FileType
  BY DEF IsFile, TypeOK
<1>4. QED
  BY <1>1, <1>2, <1>3 DEF FileType

\* After a write to the file, what the other syncs have read of it is old.
LEMMA Outdated ==
  ASSUME TypeOK, NEW s \in Syncs, Outdate(s)
  PROVE  /\ stale' \in [Syncs -> BOOLEAN]
         /\ stale'[s] = stale[s]
         /\ \A q \in Syncs \ {s} : stale'[q] = Editing(q)
<1>1. \A q \in Syncs : Editing(q) \in BOOLEAN
  BY DEF Editing
<1>2. \A q \in Syncs : stale[q] \in BOOLEAN
  BY DEF TypeOK
<1> HIDE DEF Editing
<1>3. \A q \in Syncs : (IF q = s THEN stale[q] ELSE Editing(q)) \in BOOLEAN
  BY <1>1, <1>2, Zenon
<1>4. stale' = [q \in Syncs |-> IF q = s THEN stale[q] ELSE Editing(q)]
  BY DEF Outdate
<1>5. stale' \in [Syncs -> BOOLEAN]
  BY <1>3, <1>4, Zenon
<1>6. QED
  BY <1>4, <1>5, Zenon

\* The server leaves a file that can be read, with the rest as it has made it.
LEMMA ServerFile ==
  ASSUME TypeOK, ServerWrites
  PROVE  file' \in FileType /\ file'.others = latest'
<1>1. PICK o \in Others :
        /\ \/ ~IsFile(file) /\ file' = [items |-> <<>>, others |-> o]
           \/ /\ IsFile(file)
              /\ \E done \in BOOLEAN :
                   file' = [items |-> [i \in DOMAIN file.items |->
                                         [file.items[i] EXCEPT !.done = @ \/ done]],
                            others |-> o]
        /\ latest' = o
  BY DEF ServerWrites
<1>2. CASE ~IsFile(file)
  <2>1. <<>> \in Seq(Items)
    OBVIOUS
  <2>2. file' = [items |-> <<>>, others |-> o]
    BY <1>1, <1>2
  <2>3. [items |-> <<>>, others |-> o] \in FileType
    BY <2>1 DEF FileType
  <2>4. QED
    BY <1>1, <2>2, <2>3
<1>3. CASE IsFile(file)
  <2>1. PICK done \in BOOLEAN :
          file' = [items |-> [i \in DOMAIN file.items |->
                                [file.items[i] EXCEPT !.done = @ \/ done]],
                   others |-> o]
    BY <1>1, <1>3
  <2>2. file.items \in Seq(Items)
    BY <1>3, FileReadable
  <2>3. PICK n \in Nat : file.items \in [1..n -> Items]
    BY <2>2, SeqDef
  <2>4. \A e \in Items : [e EXCEPT !.done = @ \/ done] \in Items
    BY DEF Items
  <2>5. [i \in DOMAIN file.items |-> [file.items[i] EXCEPT !.done = @ \/ done]] \in Seq(Items)
    BY <2>3, <2>4, SeqDef
  <2>6. QED
    BY <1>1, <2>1, <2>5, FileReadable
<1>4. QED
  BY <1>2, <1>3

LEMMA TypesPreserved ==
  ASSUME TypeOK, Reading, [Next]_vars
  PROVE  TypeOK'
<1> USE DEF Goto
<1>1. ASSUME NEW s \in Syncs, ListEntries(s)
      PROVE  TypeOK'
  BY <1>1 DEF TypeOK, ListEntries
<1>2. ASSUME NEW s \in Syncs, ReadRegistry(s)
      PROVE  TypeOK'
  <2>1. CASE End(s)
    BY <1>2, <2>1, Ended DEF TypeOK, ReadRegistry, history
  <2>2. CASE ~End(s)
    <3>1. PICK a \in left[s] :
            /\ left' = [left EXCEPT ![s] = @ \ {a}]
            /\ found' = [found EXCEPT ![s] = @ \cup IF Due(a) THEN {Entry(a)} ELSE {}]
            /\ UNCHANGED <<pc, rest>>
      BY <1>2, <2>2 DEF ReadRegistry, Due, Entry
    <3>2. UNCHANGED <<now, registry, file, changes, history>> /\ pc[s] = "reading"
      BY <1>2 DEF ReadRegistry
    <3>3. a \in Accounts
      BY <3>1 DEF TypeOK
    <3>4. Due(a) => Entry(a) \in EntryType /\ Entry(a).account = a
      BY <3>3, DueInHalfDays DEF Entry
    <3>5. found' \in [Syncs -> SUBSET EntryType]
      BY <3>1, <3>4 DEF TypeOK
    <3>6. ASSUME NEW q \in Syncs, NEW i \in found'[q], NEW j \in found'[q], i.account = j.account
          PROVE  i = j
      BY <3>1, <3>4, <3>6 DEF TypeOK, Reading
    <3>7. left' \in [Syncs -> SUBSET Accounts]
      BY <3>1 DEF TypeOK
    <3>8. QED
      BY <3>1, <3>2, <3>5, <3>6, <3>7 DEF TypeOK, history
  <2>3. QED
    BY <2>1, <2>2
<1>3. ASSUME NEW s \in Syncs, LoadFile(s)
      PROVE  TypeOK'
  <2>1. CASE file \in {Cut, Malformed}
    <3>1. End(s) /\ UNCHANGED stale
      BY <1>3, <2>1 DEF LoadFile
    <3>2. QED
      BY <1>3, <3>1, Ended DEF TypeOK, LoadFile
  <2>2. CASE file \notin {Cut, Malformed}
    <3>1. (IF file = Nothing THEN Fresh ELSE Kept[file.others]) \in Others
      BY <2>2, FileReadable, TodoAssumption DEF TodoAssumption, IsFile
    <3>2. /\ rest' \in [Syncs -> Others]
          /\ pc' \in [Syncs -> {"idle", "reading", "truncate", "write"}]
          /\ UNCHANGED <<now, registry, file, left, found, changes, steady, current, lossy, latest>>
      BY <1>3, <2>2, <3>1 DEF TypeOK, LoadFile
    <3>3. stale' \in [Syncs -> BOOLEAN]
      BY <1>3, <2>2 DEF TypeOK, LoadFile
    <3>4. QED
      BY <3>2, <3>3 DEF TypeOK
  <2>3. QED
    BY <2>1, <2>2
<1>4. ASSUME NEW s \in Syncs, TruncateFile(s)
      PROVE  TypeOK'
  <2>1. /\ file' \in FileType \cup {Nothing, Cut, Malformed}
        /\ pc' \in [Syncs -> {"idle", "reading", "truncate", "write"}]
        /\ UNCHANGED <<now, registry, left, found, rest, changes, steady, latest>>
    BY <1>4 DEF TypeOK, TruncateFile, local
  <2>2. stale' \in [Syncs -> BOOLEAN]
    BY <1>4, Outdated DEF TruncateFile
  <2>3. lossy' \in BOOLEAN /\ current' \in BOOLEAN
    BY <1>4 DEF TypeOK, TruncateFile
  <2>4. QED
    BY <2>1, <2>2, <2>3 DEF TypeOK
<1>5. ASSUME NEW s \in Syncs, WriteFile(s)
      PROVE  TypeOK'
  <2>1. Listed(found[s]) \in Seq(Items)
    BY ListedInOrder DEF TypeOK, Unique
  <2>2. file' \in FileType \cup {Nothing, Cut, Malformed}
    BY <1>5, <2>1, FileReadable DEF TypeOK, WriteFile, Text
  <2>3. End(s)
    BY <1>5 DEF WriteFile
  <2>4. QED
    <3>1. UNCHANGED <<now, registry, changes, steady, latest>>
      BY <1>5 DEF WriteFile
    <3>2. stale' \in [Syncs -> BOOLEAN]
      BY <1>5, Outdated DEF WriteFile
    <3>3. lossy' \in BOOLEAN /\ current' \in BOOLEAN
      BY <1>5 DEF TypeOK, WriteFile
    <3>4. /\ pc' \in [Syncs -> {"idle", "reading", "truncate", "write"}]
          /\ left' \in [Syncs -> SUBSET Accounts]
          /\ found' \in [Syncs -> SUBSET EntryType]
          /\ \A q \in Syncs : \A i, j \in found'[q] : i.account = j.account => i = j
          /\ rest' \in [Syncs -> Others]
      BY <2>3, Ended DEF TypeOK
    <3>5. QED
      BY <2>2, <3>1, <3>2, <3>3, <3>4 DEF TypeOK
<1>6. ASSUME NEW s \in Syncs, Fail(s)
      PROVE  TypeOK'
  <2>1. End(s)
    BY <1>6 DEF Fail
  <2>2. changes' \in 0..MaxChanges
    BY <1>6, TodoAssumption DEF TodoAssumption, Fail, Change, TypeOK
  <2>3. QED
    BY <1>6, <2>1, <2>2, Ended DEF TypeOK, Fail
<1>7. ASSUME Change
      PROVE  changes' \in 0..MaxChanges
  BY <1>7, TodoAssumption DEF TodoAssumption, Change, TypeOK
<1>8. ASSUME NEW a \in Accounts, WriteRegistry(a) \/ TidyNotes(a) \/ RemoveRegistry(a)
      PROVE  TypeOK'
  <2>1. registry' \in [Accounts -> RegistryType \cup {Nothing}]
    <3>1. CASE WriteRegistry(a)
      <4>1. PICK skew \in Skews, trust \in {"verified", "inferred"},
                 interval \in Intervals \cup {IF registry[a] = Nothing THEN Nothing ELSE registry[a].interval} :
              registry' = [registry EXCEPT ![a] = [layout |-> "indented", updated |-> now + skew,
                                                   interval |-> interval, trust |-> trust]]
        BY <3>1 DEF WriteRegistry
      <4>2. now + skew \in Int
        BY TodoAssumption DEF TodoAssumption, TypeOK
      <4>3. interval \in Intervals \cup {Nothing}
        BY <4>1 DEF TypeOK, RegistryType
      <4>4. [layout |-> "indented", updated |-> now + skew, interval |-> interval, trust |-> trust]
              \in RegistryType
        BY <4>2, <4>3 DEF RegistryType, Layouts, Trusts
      <4>5. QED
        BY <4>1, <4>4 DEF TypeOK
    <3>2. CASE TidyNotes(a)
      <4>1. registry[a] \in RegistryType
        BY <3>2 DEF TidyNotes, TypeOK
      <4>2. [registry[a] EXCEPT !.layout = "inline"] \in RegistryType
        BY <4>1 DEF RegistryType, Layouts
      <4>3. QED
        BY <3>2, <4>2 DEF TidyNotes, TypeOK
    <3>3. CASE RemoveRegistry(a)
      BY <3>3 DEF RemoveRegistry, TypeOK
    <3>4. QED
      BY <1>8, <3>1, <3>2, <3>3
  <2>2. Change /\ Unsettle /\ UNCHANGED <<now, file, pc, local, stale, lossy, latest>>
    BY <1>8 DEF WriteRegistry, TidyNotes, RemoveRegistry
  <2>3. QED
    BY <1>7, <2>1, <2>2 DEF TypeOK, Unsettle, local
<1>9. ASSUME Tick
      PROVE  TypeOK'
  <2>1. changes' \in 0..MaxChanges
    BY <1>7, <1>9 DEF Tick
  <2>2. now' \in Nat
    BY <1>9 DEF Tick, TypeOK
  <2>3. steady' \in [Syncs -> BOOLEAN] /\ current' \in BOOLEAN
    BY <1>9 DEF Tick, Unsettle
  <2>4. UNCHANGED <<registry, file, pc, local, stale, lossy, latest>>
    BY <1>9 DEF Tick
  <2>5. QED
    BY <2>1, <2>2, <2>3, <2>4 DEF TypeOK, local
<1>10. ASSUME ServerWrites
       PROVE  TypeOK'
  <2>1. changes' \in 0..MaxChanges
    BY <1>7, <1>10 DEF ServerWrites
  <2>2. file' \in FileType
    BY <1>10, ServerFile
  <2>3. QED
    <3>1. steady' \in [Syncs -> BOOLEAN] /\ current' \in BOOLEAN /\ lossy' \in BOOLEAN
      BY <1>10 DEF ServerWrites, Unsettle
    <3>2. stale' \in [Syncs -> BOOLEAN]
      BY <1>10 DEF ServerWrites, Editing
    <3>3. UNCHANGED <<now, registry, pc, local>> /\ latest' \in Others
      BY <1>10 DEF ServerWrites
    <3>4. QED
      BY <2>1, <2>2, <3>1, <3>2, <3>3 DEF TypeOK, local
<1>11. CASE UNCHANGED vars
  BY <1>11 DEF TypeOK, vars, local, history
<1>12. QED
  BY <1>1, <1>2, <1>3, <1>4, <1>5, <1>6, <1>8, <1>9, <1>10, <1>11 DEF Next, SyncStep

-----------------------------------------------------------------------------
(* What a sync has found.                                                   *)

\* What the registries say of what is due, nothing but they and the clock change.
LEMMA DueUnchanged ==
  ASSUME UNCHANGED <<now, registry>>
  PROVE  \A a : /\ Due(a)' <=> Due(a)
                /\ Entry(a)' = Entry(a)
                /\ InWindow(a)' <=> InWindow(a)
                /\ Age(a)' = Age(a)
  BY DEF Due, Entry, IsDueWithin, HasDeadline, DaysUntilDue, InWindow, Age

\* One step of reading takes an account off the list, with its entry if it is due.
LEMMA ReadOne ==
  ASSUME NEW s \in Syncs, ReadRegistry(s), ~End(s)
  PROVE  \E a \in left[s] :
           /\ left' = [left EXCEPT ![s] = @ \ {a}]
           /\ found' = [found EXCEPT ![s] = @ \cup IF Due(a) THEN {Entry(a)} ELSE {}]
           /\ UNCHANGED <<now, registry, file, pc, rest, changes, history>>
  BY DEF ReadRegistry, Due, Entry

LEMMA ReadingPreserved ==
  ASSUME TypeOK, Reading, [Next]_vars
  PROVE  Reading'
<1>1. ASSUME NEW s \in Syncs, End(s), UNCHANGED <<now, registry, file>>
      PROVE  Reading'
  <2>1. ASSUME NEW q \in Syncs
        PROVE  /\ pc'[q] = "idle" => found'[q] = {} /\ left'[q] = {}
               /\ pc'[q] \in {"truncate", "write"} => left'[q] = {}
               /\ \A i \in found'[q] : i.account \notin left'[q]
    BY <1>1, Ended DEF TypeOK, Reading, Editing
  <2>2. QED
    BY <2>1 DEF Reading, Editing
<1>2. ASSUME NEW s \in Syncs, ListEntries(s)
      PROVE  Reading'
  BY <1>2 DEF TypeOK, Reading, Editing, ListEntries, Goto
<1>3. ASSUME NEW s \in Syncs, ReadRegistry(s)
      PROVE  Reading'
  <2>1. CASE End(s)
    BY <1>1, <1>3, <2>1 DEF ReadRegistry
  <2>2. CASE ~End(s)
    <3>1. PICK a \in left[s] :
            /\ left' = [left EXCEPT ![s] = @ \ {a}]
            /\ found' = [found EXCEPT ![s] = @ \cup IF Due(a) THEN {Entry(a)} ELSE {}]
            /\ UNCHANGED <<now, registry, file, pc, rest, changes, history>>
      BY <1>3, <2>2, ReadOne
    <3>2. pc[s] = "reading"
      BY <1>3 DEF ReadRegistry
    <3>3. Entry(a).account = a
      BY DEF Entry
    <3>4. ASSUME NEW q \in Syncs
          PROVE  /\ pc'[q] = "idle" => found'[q] = {} /\ left'[q] = {}
                 /\ pc'[q] \in {"truncate", "write"} => left'[q] = {}
                 /\ \A i \in found'[q] : i.account \notin left'[q]
      BY <3>1, <3>2, <3>3 DEF TypeOK, Reading, Editing
    <3>5. QED
      BY <3>4 DEF Reading, Editing
  <2>3. QED
    BY <2>1, <2>2
<1>4. ASSUME NEW s \in Syncs, LoadFile(s)
      PROVE  Reading'
  <2>1. CASE file \in {Cut, Malformed}
    BY <1>1, <1>4, <2>1 DEF LoadFile
  <2>2. CASE file \notin {Cut, Malformed}
    BY <1>4, <2>2 DEF TypeOK, Reading, Editing, LoadFile, Goto
  <2>3. QED
    BY <2>1, <2>2
<1>5. ASSUME NEW s \in Syncs, TruncateFile(s)
      PROVE  Reading'
  BY <1>5 DEF TypeOK, Reading, Editing, TruncateFile, Goto, local
<1>6. ASSUME NEW s \in Syncs, End(s)
      PROVE  Reading'
  <2>1. ASSUME NEW q \in Syncs
        PROVE  /\ pc'[q] = "idle" => found'[q] = {} /\ left'[q] = {}
               /\ pc'[q] \in {"truncate", "write"} => left'[q] = {}
               /\ \A i \in found'[q] : i.account \notin left'[q]
    BY <1>6, Ended DEF TypeOK, Reading, Editing
  <2>2. QED
    BY <2>1 DEF Reading, Editing
<1>7. CASE UNCHANGED <<pc, local>>
  BY <1>7 DEF Reading, Editing, local
<1>8. QED
  BY <1>2, <1>3, <1>4, <1>5, <1>6, <1>7
     DEF Next, SyncStep, WriteFile, Fail, WriteRegistry, TidyNotes, RemoveRegistry, Tick,
         ServerWrites, vars

LEMMA FoundExactlyPreserved ==
  ASSUME TypeOK, Reading, FoundExactly, [Next]_vars
  PROVE  FoundExactly'
<1> DEFINE Exactly(s) == {Entry(a) : a \in {b \in Accounts \ left[s] : Due(b)}}
<1>1. ASSUME NEW s \in Syncs, End(s), UNCHANGED <<now, registry, steady>>
      PROVE  FoundExactly'
  <2>1. ASSUME NEW q \in Syncs, steady'[q], pc'[q] # "idle"
        PROVE  found'[q] = Exactly(q)'
    <3>1. q # s /\ pc'[q] = pc[q] /\ left'[q] = left[q] /\ found'[q] = found[q]
      BY <1>1, <2>1, Ended DEF TypeOK
    <3>2. found[q] = Exactly(q)
      BY <1>1, <2>1, <3>1 DEF FoundExactly
    <3>3. Exactly(q)' = Exactly(q)
      BY <1>1, <3>1, DueUnchanged
    <3>4. QED
      BY <3>1, <3>2, <3>3
  <2>2. QED
    BY <2>1 DEF FoundExactly
<1>2. ASSUME NEW s \in Syncs, ListEntries(s)
      PROVE  FoundExactly'
  <2>1. ASSUME NEW q \in Syncs, steady'[q], pc'[q] # "idle"
        PROVE  found'[q] = Exactly(q)'
    <3>1. UNCHANGED <<now, registry, found>>
      BY <1>2 DEF ListEntries
    <3>2. CASE q = s
      <4>1. found'[q] = {}
        BY <1>2, <3>1, <3>2 DEF ListEntries, Reading
      <4>2. left'[q] = {a \in Accounts : registry[a] # Nothing}
        BY <1>2, <3>2 DEF ListEntries, TypeOK
      <4>3. \A a \in Accounts \ left'[q] : ~Due(a)'
        BY <3>1, <4>2 DEF Due
      <4>4. QED
        BY <4>1, <4>3
    <3>3. CASE q # s
      <4>1. pc[q] # "idle" /\ left'[q] = left[q] /\ steady[q]
        BY <1>2, <2>1, <3>3 DEF ListEntries, Goto, TypeOK
      <4>2. found[q] = Exactly(q)
        BY <4>1 DEF FoundExactly
      <4>3. QED
        BY <3>1, <4>1, <4>2, DueUnchanged
    <3>4. QED
      BY <3>2, <3>3
  <2>2. QED
    BY <2>1 DEF FoundExactly
<1>3. ASSUME NEW s \in Syncs, ReadRegistry(s)
      PROVE  FoundExactly'
  <2>1. CASE End(s)
    BY <1>1, <1>3, <2>1 DEF ReadRegistry, history
  <2>2. CASE ~End(s)
    <3>1. PICK a \in left[s] :
            /\ left' = [left EXCEPT ![s] = @ \ {a}]
            /\ found' = [found EXCEPT ![s] = @ \cup IF Due(a) THEN {Entry(a)} ELSE {}]
            /\ UNCHANGED <<now, registry, file, pc, rest, changes, history>>
      BY <1>3, <2>2, ReadOne
    <3>2. ASSUME NEW q \in Syncs, steady'[q], pc'[q] # "idle"
          PROVE  found'[q] = Exactly(q)'
      <4>1. found[q] = Exactly(q)
        BY <3>1, <3>2 DEF FoundExactly, history
      <4>2. CASE q = s
        <5>1. left'[q] = left[q] \ {a} /\ a \in Accounts
          BY <3>1, <4>2 DEF TypeOK
        <5>2. found'[q] = found[q] \cup IF Due(a) THEN {Entry(a)} ELSE {}
          BY <3>1, <4>2 DEF TypeOK
        <5>3. {b \in Accounts \ left'[q] : Due(b)} =
              {b \in Accounts \ left[q] : Due(b)} \cup IF Due(a) THEN {a} ELSE {}
          BY <5>1, <3>1, <4>2
        <5>4. {Entry(b) : b \in {c \in Accounts \ left'[q] : Due(c)}} = found'[q]
          BY <4>1, <5>2, <5>3
        <5>5. QED
          BY <3>1, <5>4, DueUnchanged
      <4>3. CASE q # s
        <5>1. left'[q] = left[q] /\ found'[q] = found[q]
          BY <3>1, <4>3 DEF TypeOK
        <5>2. QED
          BY <3>1, <4>1, <5>1, DueUnchanged
      <4>4. QED
        BY <4>2, <4>3
    <3>3. QED
      BY <3>2 DEF FoundExactly
  <2>3. QED
    BY <2>1, <2>2
<1>4. ASSUME NEW s \in Syncs, pc[s] # "idle",
             UNCHANGED <<now, registry, left, found, steady>>,
             \A q \in Syncs : q # s => pc'[q] = pc[q]
      PROVE  FoundExactly'
  <2>1. ASSUME NEW q \in Syncs, steady'[q], pc'[q] # "idle"
        PROVE  found'[q] = Exactly(q)'
    <3>1. found[q] = Exactly(q)
      BY <1>4, <2>1 DEF FoundExactly
    <3>2. QED
      BY <1>4, <3>1, DueUnchanged
  <2>2. QED
    BY <2>1 DEF FoundExactly
<1>5. ASSUME NEW s \in Syncs, LoadFile(s)
      PROVE  FoundExactly'
  <2>1. CASE file \in {Cut, Malformed}
    BY <1>1, <1>5, <2>1 DEF LoadFile
  <2>2. CASE file \notin {Cut, Malformed}
    BY <1>4, <1>5, <2>2 DEF LoadFile, Goto, TypeOK
  <2>3. QED
    BY <2>1, <2>2
<1>6. ASSUME NEW s \in Syncs, TruncateFile(s)
      PROVE  FoundExactly'
  BY <1>4, <1>6 DEF TruncateFile, Goto, TypeOK, local
<1>7. ASSUME NEW s \in Syncs, WriteFile(s) \/ Fail(s)
      PROVE  FoundExactly'
  BY <1>1, <1>7 DEF WriteFile, Fail
<1>8. CASE Unsettle
  BY <1>8 DEF Unsettle, FoundExactly
<1>9. CASE UNCHANGED vars
  <2>1. UNCHANGED <<now, registry, pc, left, found, steady>>
    BY <1>9 DEF vars, local, history
  <2>2. QED
    BY <2>1, DueUnchanged DEF FoundExactly
<1>10. QED
  BY <1>2, <1>3, <1>5, <1>6, <1>7, <1>8, <1>9
     DEF Next, SyncStep, WriteRegistry, TidyNotes, RemoveRegistry, Tick, ServerWrites

\* The list stays exact as long as nothing changes it or what it is about.
LEMMA ListedPreserved ==
  ASSUME TypeOK, Reading, FoundExactly, ListedExactlyDue, [Next]_vars
  PROVE  ListedExactlyDue'
<1>1. ASSUME UNCHANGED <<now, registry>>, Exact(file'.items)
      PROVE  Exact(file.items)'
  <2>1. {a \in Accounts : InWindow(a)}' = {a \in Accounts : InWindow(a)}
    BY <1>1, DueUnchanged
  <2>2. \A item, a : Describes(item, a)' <=> Describes(item, a)
    BY <1>1 DEF Describes, Age
  <2>3. QED
    BY <1>1, <2>1, <2>2 DEF Exact
<1>2. CASE UNCHANGED <<now, registry, file, current>>
  BY <1>1, <1>2 DEF ListedExactlyDue, IsFile
<1>3. CASE ~current'
  BY <1>3 DEF ListedExactlyDue
<1>4. ASSUME NEW s \in Syncs, WriteFile(s), current'
      PROVE  ListedExactlyDue'
  <2>1. /\ steady[s] /\ IsFile(file') /\ pc[s] = "write"
        /\ UNCHANGED <<now, registry>>
        /\ file' \in {[items |-> Listed(found[s]), others |-> rest[s]], Malformed}
    BY <1>4 DEF WriteFile, Text
  <2>2. file' = [items |-> Listed(found[s]), others |-> rest[s]]
    BY <2>1 DEF IsFile
  <2>3. left[s] = {}
    BY <2>1 DEF Reading, Editing
  <2>4. found[s] = {Entry(a) : a \in {b \in Accounts : Due(b)}}
    BY <2>1, <2>3 DEF FoundExactly
  <2>5. Exact(Listed(found[s]))
    BY <2>4, ListIsExact
  <2>6. Exact(file.items)'
    BY <2>1, <2>2, <2>5, <1>1
  <2>7. QED
    BY <2>1, <2>2, <2>6 DEF ListedExactlyDue
<1>5. QED
  BY <1>2, <1>3, <1>4
     DEF Next, SyncStep, ListEntries, ReadRegistry, LoadFile, TruncateFile, Fail,
         WriteRegistry, TidyNotes, RemoveRegistry, Tick, ServerWrites, Unsettle, vars, history

-----------------------------------------------------------------------------
(* The rest of the file.                                                    *)

\* What a sync keeps of what it has kept before.
LEMMA KeptTwice ==
  /\ Kept[Fresh] = Fresh
  /\ \A o \in Others : Kept[o] \in Others /\ Kept[Kept[o]] = Kept[o]
  BY TodoAssumption DEF TodoAssumption

RestInv == FileKept /\ CopyKept /\ CutMended

LEMMA RestUntouched ==
  ASSUME RestInv, UNCHANGED <<file, pc, rest, stale, lossy, latest>>
  PROVE  RestInv'
  BY DEF RestInv, FileKept, CopyKept, CutMended, Editing

LEMMA RestPreserved ==
  ASSUME TypeOK, RestInv, [Next]_vars
  PROVE  RestInv'
<1> USE DEF RestInv
<1>1. ASSUME NEW s \in Syncs, pc[s] # "write", End(s),
             UNCHANGED <<file, stale, latest>>, lossy' = lossy
      PROVE  RestInv'
  <2>1. FileKept'
    BY <1>1 DEF FileKept
  <2>2. ASSUME NEW q \in Syncs
        PROVE  /\ pc'[q] \in {"truncate", "write"} /\ ~stale'[q] /\ ~lossy' => rest'[q] = Kept[latest']
               /\ pc'[q] = "write" /\ ~stale'[q] => file' = Cut
    BY <1>1, Ended DEF TypeOK, CopyKept, Editing
  <2>3. CutMended'
    BY <1>1, Ended DEF TypeOK, CutMended
  <2>4. QED
    BY <2>1, <2>2, <2>3 DEF CopyKept, Editing
<1>2. ASSUME NEW s \in Syncs, ListEntries(s)
      PROVE  RestInv'
  <2>1. UNCHANGED <<file, rest, stale, lossy, latest>> /\ pc' = [pc EXCEPT ![s] = "reading"]
    BY <1>2 DEF ListEntries, Goto
  <2>2. pc[s] = "idle"
    BY <1>2 DEF ListEntries
  <2>3. QED
    BY <2>1, <2>2 DEF TypeOK, FileKept, CopyKept, CutMended, Editing
<1>3. ASSUME NEW s \in Syncs, ReadRegistry(s)
      PROVE  RestInv'
  <2>1. CASE End(s)
    BY <1>1, <1>3, <2>1 DEF ReadRegistry, history
  <2>2. CASE ~End(s)
    BY <1>3, <2>2, ReadOne, RestUntouched DEF history
  <2>3. QED
    BY <2>1, <2>2
<1>4. ASSUME NEW s \in Syncs, LoadFile(s)
      PROVE  RestInv'
  <2>1. CASE file \in {Cut, Malformed}
    BY <1>1, <1>4, <2>1 DEF LoadFile
  <2>2. CASE file \notin {Cut, Malformed}
    <3>1. /\ UNCHANGED <<file, lossy, latest>> /\ pc[s] = "reading"
          /\ pc' = [pc EXCEPT ![s] = "truncate"]
          /\ stale' = [stale EXCEPT ![s] = FALSE]
          /\ rest' = [rest EXCEPT ![s] = IF file = Nothing THEN Fresh ELSE Kept[file.others]]
      BY <1>4, <2>2 DEF LoadFile, Goto
    <3>2. FileKept' /\ CutMended'
      BY <3>1 DEF TypeOK, FileKept, CutMended
    <3>3. ~lossy => rest'[s] = Kept[latest]
      BY <2>2, <3>1, KeptTwice DEF TypeOK, FileKept
    <3>4. CopyKept'
      BY <3>1, <3>3 DEF TypeOK, CopyKept, Editing
    <3>5. QED
      BY <3>2, <3>4
  <2>3. QED
    BY <2>1, <2>2
<1>5. ASSUME NEW s \in Syncs, TruncateFile(s)
      PROVE  RestInv'
  <2>1. /\ file' = Cut /\ UNCHANGED <<rest, latest>> /\ pc[s] = "truncate"
        /\ pc' = [pc EXCEPT ![s] = "write"]
        /\ lossy' = (lossy \/ stale[s])
        /\ stale'[s] = stale[s]
        /\ \A q \in Syncs \ {s} : stale'[q] = Editing(q)
    BY <1>5, Outdated DEF TruncateFile, Goto, local
  <2>2. FileKept' /\ CutMended'
    BY <2>1 DEF TypeOK, FileKept, CutMended
  <2>3. CopyKept'
    BY <2>1 DEF TypeOK, CopyKept, Editing
  <2>4. QED
    BY <2>2, <2>3
<1>6. ASSUME NEW s \in Syncs, WriteFile(s)
      PROVE  RestInv'
  <2>1. /\ file' \in IF file = Cut THEN {[items |-> Listed(found[s]), others |-> rest[s]]}
                     ELSE {[items |-> Listed(found[s]), others |-> rest[s]], Malformed}
        /\ UNCHANGED latest /\ pc[s] = "write" /\ End(s)
        /\ lossy' = (lossy \/ stale[s])
        /\ stale'[s] = stale[s]
        /\ \A q \in Syncs \ {s} : stale'[q] = Editing(q)
    BY <1>6, Outdated DEF WriteFile, Text
  <2>2. pc'[s] = "idle" /\ \A q \in Syncs \ {s} : pc'[q] = pc[q]
    BY <2>1, Ended DEF TypeOK
  <2>3. [items |-> Listed(found[s]), others |-> rest[s]] \notin {Nothing, Cut, Malformed}
    <3>1. Listed(found[s]) \in Seq(Items)
      BY ListedInOrder DEF TypeOK, Unique
    <3>2. QED
      BY <3>1, FileReadable DEF TypeOK, IsFile
  <2>4. file' # Cut
    BY <2>1, <2>3, TodoAssumption DEF TodoAssumption
  <2>5. ASSUME ~lossy'
        PROVE  file' # Malformed /\ file' # Nothing /\ file'.others = Kept[latest]
    <3>1. ~lossy /\ ~stale[s]
      BY <2>1, <2>5
    <3>2. file = Cut /\ rest[s] = Kept[latest]
      BY <2>1, <3>1 DEF CopyKept, Editing
    <3>3. QED
      BY <2>1, <2>3, <3>2
  <2>6. CopyKept'
    BY <2>1, <2>2 DEF CopyKept, Editing
  <2>7. QED
    BY <2>1, <2>4, <2>5, <2>6 DEF FileKept, CutMended
<1>7. ASSUME NEW s \in Syncs, Fail(s)
      PROVE  RestInv'
  <2>1. /\ End(s) /\ UNCHANGED <<file, stale, latest>>
        /\ lossy' = (lossy \/ pc[s] = "write")
    BY <1>7 DEF Fail
  <2>2. CASE pc[s] = "write"
    <3>1. lossy'
      BY <2>1, <2>2
    <3>2. ASSUME NEW q \in Syncs, pc'[q] = "write"
          PROVE  pc[q] = "write"
      BY <2>1, <3>2, Ended DEF TypeOK
    <3>3. QED
      BY <2>1, <3>1, <3>2 DEF FileKept, CopyKept, CutMended
  <2>3. CASE pc[s] # "write"
    <3>1. lossy' = lossy
      BY <2>1, <2>3 DEF TypeOK
    <3>2. QED
      BY <1>1, <2>1, <2>3, <3>1
  <2>4. QED
    BY <2>2, <2>3
<1>8. CASE ServerWrites
  <2>1. file' \notin {Nothing, Cut, Malformed} /\ file'.others = latest'
    BY <1>8, ServerFile, TodoAssumption DEF TodoAssumption
  <2>2. ~lossy' /\ pc' = pc /\ \A q \in Syncs : stale'[q] = Editing(q)
    BY <1>8 DEF ServerWrites, local
  <2>3. QED
    BY <2>1, <2>2 DEF FileKept, CopyKept, CutMended, Editing
<1>9. CASE UNCHANGED <<file, pc, rest, stale, lossy, latest>>
  BY <1>9, RestUntouched
<1>10. QED
  BY <1>2, <1>3, <1>4, <1>5, <1>6, <1>7, <1>8, <1>9
     DEF Next, SyncStep, WriteRegistry, TidyNotes, RemoveRegistry, Tick, vars, local, history

-----------------------------------------------------------------------------
(* The refinement of TodoFile.                                              *)

\* What a sync that is about to cut the file has read is as the file is, unless its
\* read is stale.
CopyFresh ==
  \A s \in Syncs :
    pc[s] = "truncate" /\ ~stale[s] =>
      /\ file \notin {Cut, Malformed}
      /\ rest[s] = IF file = Nothing THEN Fresh ELSE Kept[file.others]

\* One sync at most has cut the file as it is.
OneWriter == \A s, q \in Writers : s = q

WriteInv == CopyFresh /\ OneWriter

\* The file and who writes it are as before, and what is to be written too.
SameFile ==
  /\ UNCHANGED file
  /\ Writers' = Writers
  /\ \A s \in Writers : found'[s] = found[s] /\ rest'[s] = rest[s]

LEMMA SameHeld ==
  ASSUME SameFile
  PROVE  Held' = Held
<1>1. CASE Writers = {}
  BY <1>1 DEF SameFile, Held, IsFile
<1>2. CASE Writers # {}
  <2> DEFINE s == CHOOSE q \in Writers : TRUE
  <2>1. s \in Writers
    BY <1>2
  <2>2. s' = s
    BY DEF SameFile
  <2>3. Text(s)' = Text(s)
    BY <2>1, <2>2 DEF SameFile, Text
  <2>4. QED
    BY <1>2, <2>3 DEF SameFile, Held, IsFile
<1>3. QED
  BY <1>1, <1>2

\* What the file is to hold has a list and a rest.
LEMMA HeldType == TypeOK => Held.items \in Seq(Items) /\ Held.others \in Others
<1> SUFFICES ASSUME TypeOK
             PROVE  Held.items \in Seq(Items) /\ Held.others \in Others
  OBVIOUS
<1>1. CASE IsFile(file)
  BY <1>1, FileReadable DEF Held
<1>2. CASE ~IsFile(file) /\ Writers # {}
  <2>1. PICK s \in Writers : Held = Text(s)
    BY <1>2 DEF Held
  <2>2. s \in Syncs
    BY DEF Writers
  <2>3. Listed(found[s]) \in Seq(Items)
    BY <2>2, ListedInOrder DEF TypeOK, Unique
  <2>4. QED
    BY <2>1, <2>2, <2>3 DEF TypeOK, Text
<1>3. CASE ~IsFile(file) /\ Writers = {}
  <2>1. Held = [items |-> <<>>, others |-> Fresh]
    BY <1>3 DEF Held
  <2>2. Fresh \in Others
    BY TodoAssumption DEF TodoAssumption
  <2>3. QED
    BY <2>1, <2>2
<1>4. QED
  BY <1>1, <1>2, <1>3

\* What a sync lists is a list as TodoFile has it.
LEMMA ListedIsNew ==
  ASSUME NEW due, due \subseteq EntryType, Unique(due)
  PROVE  Todo!IsNew(Listed(due))
<1>1. Cardinality(due) \in Nat
  BY FoundFinite
<1>2. /\ DOMAIN Listed(due) = 1..Cardinality(due)
      /\ \A i \in 1..Cardinality(due) :
           Listed(due)[i] = Line(Order(due)[i]) /\ Order(due)[i] \in EntryType
  BY ListedInOrder, OrderIsSorted
<1>3. ASSUME NEW i \in 1..Cardinality(due), NEW j \in 1..Cardinality(due), i < j
      PROVE  /\ Listed(due)[i].account # Listed(due)[j].account
             /\ Listed(due)[i].timing <= Listed(due)[j].timing
  <2>1. Before(Order(due)[i], Order(due)[j])
    BY <1>3, OrderIsSorted
  <2>2. Order(due)[i] \in due /\ Order(due)[j] \in due
    BY OrderIsSorted
  <2>3. Order(due)[i].account # Order(due)[j].account
    <3>1. Order(due)[i] # Order(due)[j]
      BY <2>1, <2>2, BeforeIsOrder
    <3>2. QED
      BY <2>2, <3>1 DEF Unique
  <2>4. Order(due)[i].days \in Int /\ Order(due)[j].days \in Int
    BY <1>2 DEF EntryType
  <2>5. Order(due)[i].days <= Order(due)[j].days
    BY <2>1, <2>4 DEF Before
  <2>6. QED
    BY <1>2, <2>3, <2>4, <2>5 DEF Line
<1>4. \A i \in 1..Cardinality(due) : ~Listed(due)[i].done
  BY <1>2 DEF Line
<1>5. QED
  BY <1>2, <1>3, <1>4, ListedInOrder DEF Todo!IsNew
LEMMA WritePreserved ==
  ASSUME TypeOK, WriteInv, [Next]_vars
  PROVE  WriteInv'
<1>1. ASSUME UNCHANGED <<file, pc, rest, stale>>
      PROVE  WriteInv'
  BY <1>1 DEF WriteInv, CopyFresh, OneWriter, Writers
<1>2. ASSUME NEW s \in Syncs, End(s), UNCHANGED <<file, stale>>
      PROVE  WriteInv'
  <2>1. pc'[s] = "idle" /\ \A q \in Syncs \ {s} : pc'[q] = pc[q] /\ rest'[q] = rest[q]
    BY <1>2, Ended DEF TypeOK
  <2>2. CopyFresh'
    BY <1>2, <2>1 DEF WriteInv, CopyFresh
  <2>3. Writers' \subseteq Writers
    BY <1>2, <2>1 DEF Writers
  <2>4. QED
    BY <2>2, <2>3 DEF WriteInv, OneWriter
<1>3. ASSUME NEW s \in Syncs, ListEntries(s)
      PROVE  WriteInv'
  <2>1. /\ UNCHANGED <<file, rest, stale>> /\ pc[s] = "idle"
        /\ pc' = [pc EXCEPT ![s] = "reading"]
    BY <1>3 DEF ListEntries, Goto
  <2>2. CopyFresh'
    BY <2>1 DEF TypeOK, WriteInv, CopyFresh
  <2>3. Writers' \subseteq Writers
    BY <2>1 DEF TypeOK, Writers
  <2>4. QED
    BY <2>2, <2>3 DEF WriteInv, OneWriter
<1>4. ASSUME NEW s \in Syncs, ReadRegistry(s)
      PROVE  WriteInv'
  <2>1. CASE End(s)
    BY <1>2, <1>4, <2>1 DEF ReadRegistry, history
  <2>2. CASE ~End(s)
    BY <1>1, <1>4, <2>2, ReadOne DEF history
  <2>3. QED
    BY <2>1, <2>2
<1>5. ASSUME NEW s \in Syncs, LoadFile(s)
      PROVE  WriteInv'
  <2>1. CASE file \in {Cut, Malformed}
    BY <1>2, <1>5, <2>1 DEF LoadFile
  <2>2. CASE file \notin {Cut, Malformed}
    <3>1. /\ UNCHANGED file /\ pc[s] = "reading"
          /\ pc' = [pc EXCEPT ![s] = "truncate"]
          /\ stale' = [stale EXCEPT ![s] = FALSE]
          /\ rest' = [rest EXCEPT ![s] = IF file = Nothing THEN Fresh ELSE Kept[file.others]]
      BY <1>5, <2>2 DEF LoadFile, Goto
    <3>2. CopyFresh'
      BY <2>2, <3>1 DEF TypeOK, WriteInv, CopyFresh
    <3>3. Writers' \subseteq Writers
      BY <3>1 DEF TypeOK, Writers
    <3>4. QED
      BY <3>2, <3>3 DEF WriteInv, OneWriter
  <2>3. QED
    BY <2>1, <2>2
<1>6. ASSUME NEW s \in Syncs, TruncateFile(s) \/ WriteFile(s)
      PROVE  WriteInv'
  <2>1. pc'[s] \in {"write", "idle"} /\ \A q \in Syncs \ {s} : pc'[q] = pc[q] /\ stale'[q] = Editing(q)
    BY <1>6, Outdated, Ended DEF TypeOK, TruncateFile, WriteFile, Goto
  <2>2. CopyFresh'
    BY <2>1 DEF CopyFresh, Editing
  <2>3. Writers' \subseteq {s}
    BY <2>1 DEF Writers, Editing
  <2>4. QED
    BY <2>2, <2>3 DEF WriteInv, OneWriter
<1>7. CASE ServerWrites
  <2>1. pc' = pc /\ \A q \in Syncs : stale'[q] = Editing(q)
    BY <1>7 DEF ServerWrites, local
  <2>2. QED
    BY <2>1 DEF WriteInv, CopyFresh, OneWriter, Writers, Editing
<1>8. QED
  BY <1>1, <1>2, <1>3, <1>4, <1>5, <1>6, <1>7
     DEF Next, SyncStep, Fail, WriteRegistry, TidyNotes, RemoveRegistry, Tick, vars, local,
         history

\* Whatever does not touch the file, nor what is about to be written, stutters.
LEMMA StutterStep ==
  ASSUME SameFile, UNCHANGED lossy
  PROVE  UNCHANGED Todo!avars
BY SameHeld DEF Todo!avars

\* What loses the promise may do anything to the file.
LEMMA BreakStep ==
  ASSUME TypeOK', lossy'
  PROVE  Todo!Break
<1>1. TypeOK' => (Held.items \in Seq(Items) /\ Held.others \in Others)'
  BY HeldType, PTL
<1>2. QED
  BY <1>1 DEF Todo!Break

\* The truncation is the moment of the sync: by then the file is as it was read.
LEMMA TruncateStep ==
  ASSUME TypeOK, RestInv, WriteInv, NEW s \in Syncs, TruncateFile(s), ~lossy, ~stale[s]
  PROVE  Todo!Sync
<1>1. /\ file' = Cut /\ UNCHANGED <<found, rest>> /\ pc[s] = "truncate"
      /\ pc' = [pc EXCEPT ![s] = "write"]
      /\ stale'[s] = stale[s]
      /\ \A q \in Syncs \ {s} : stale'[q] = Editing(q)
  BY Outdated DEF TruncateFile, Goto, local
<1>2. file \notin {Cut, Malformed} /\ rest[s] = IF file = Nothing THEN Fresh ELSE Kept[file.others]
  BY <1>1 DEF WriteInv, CopyFresh
<1>3. rest[s] = Kept[Held.others]
  <2>1. Writers = {}
    BY <1>2 DEF RestInv, CopyKept, Writers
  <2>2. CASE file = Nothing
    <3>1. Held = [items |-> <<>>, others |-> Fresh]
      BY <2>1, <2>2 DEF Held, IsFile
    <3>2. QED
      BY <1>2, <2>2, <3>1, KeptTwice
  <2>3. CASE file # Nothing
    BY <1>2, <2>3 DEF Held, IsFile
  <2>4. QED
    BY <2>2, <2>3
<1>4. Held' = Text(s)
  <2>1. Writers' = {s}
    BY <1>1 DEF TypeOK, Writers, Editing
  <2>2. (CHOOSE q \in Writers : TRUE)' = s
    BY <2>1
  <2>3. Held' = Text(s)'
    BY <1>1, <2>1, <2>2 DEF Held, IsFile
  <2>4. QED
    BY <1>1, <2>3 DEF Text
<1>5. Todo!IsNew(Listed(found[s]))
  BY ListedIsNew DEF TypeOK, Unique
<1>6. lossy' = lossy
  <2>1. lossy' = (lossy \/ stale[s])
    BY DEF TruncateFile
  <2>2. QED
    BY <2>1 DEF TypeOK
<1>7. QED
  BY <1>3, <1>4, <1>5, <1>6 DEF Todo!Sync, Text

\* The write brings what the file is to hold already.
LEMMA WriteStep ==
  ASSUME TypeOK, RestInv, WriteInv, NEW s \in Syncs, WriteFile(s), ~lossy, ~stale[s]
  PROVE  UNCHANGED Todo!avars
<1>1. s \in Writers
  BY DEF WriteFile, Writers
<1>2. file = Cut
  BY DEF WriteFile, RestInv, CopyKept
<1>3. Held = Text(s)
  <2>1. (CHOOSE q \in Writers : TRUE) = s
    BY <1>1 DEF WriteInv, OneWriter
  <2>2. QED
    BY <1>1, <1>2, <2>1 DEF Held, IsFile
<1>4. file' = Text(s)
  BY <1>2 DEF WriteFile
<1>5. Text(s) \notin {Nothing, Cut, Malformed}
  <2>1. Listed(found[s]) \in Seq(Items)
    BY ListedInOrder DEF TypeOK, Unique
  <2>2. QED
    BY <2>1, FileReadable DEF TypeOK, Text, IsFile
<1>6. Held' = Text(s)
  BY <1>4, <1>5 DEF Held, IsFile
<1>7. lossy' = lossy
  <2>1. lossy' = (lossy \/ stale[s])
    BY DEF WriteFile
  <2>2. QED
    BY <2>1 DEF TypeOK
<1>8. QED
  BY <1>3, <1>6, <1>7 DEF Todo!avars

LEMMA ServeStep ==
  ASSUME TypeOK, ServerWrites
  PROVE  Todo!Serve
<1>1. PICK o \in Others :
        \/ ~IsFile(file) /\ file' = [items |-> <<>>, others |-> o]
        \/ /\ IsFile(file)
           /\ \E done \in BOOLEAN :
                file' = [items |-> [i \in DOMAIN file.items |->
                                      [file.items[i] EXCEPT !.done = @ \/ done]],
                         others |-> o]
  BY DEF ServerWrites
<1>2. file' \in FileType /\ lossy' = FALSE
  BY ServerFile DEF ServerWrites
<1>3. Held' = file'
  BY <1>2, TodoAssumption DEF TodoAssumption, Held, IsFile
<1>4. CASE ~IsFile(file)
  BY <1>1, <1>2, <1>3, <1>4 DEF Todo!Serve
<1>5. CASE IsFile(file)
  <2>1. Held = file
    BY <1>5 DEF Held
  <2>2. PICK done \in BOOLEAN :
          file' = [items |-> [i \in DOMAIN file.items |->
                                [file.items[i] EXCEPT !.done = @ \/ done]],
                   others |-> o]
    BY <1>1, <1>5
  <2>3. Held'.items = [i \in DOMAIN Held.items |-> [Held.items[i] EXCEPT !.done = @ \/ done]]
    BY <1>3, <2>1, <2>2
  <2>4. Held'.others = o
    BY <1>3, <2>2
  <2>5. QED
    BY <1>2, <2>3, <2>4 DEF Todo!Serve
<1>6. QED
  BY <1>4, <1>5

\* Every step is one of TodoFile or a stutter.
LEMMA TodoStep ==
  ASSUME TypeOK, TypeOK', RestInv, WriteInv, [Next]_vars
  PROVE  [Todo!ANext]_(Todo!avars)
<1> DEFINE Goal == [Todo!ANext]_(Todo!avars)
<1>1. ASSUME SameFile, UNCHANGED lossy
      PROVE  Goal
  BY <1>1, StutterStep
<1>2. CASE lossy'
  BY <1>2, BreakStep DEF Todo!ANext
<1>3. ASSUME UNCHANGED <<file, pc, local, stale, lossy>>
      PROVE  Goal
  BY <1>1, <1>3 DEF SameFile, Writers, local
<1>4. ASSUME NEW s \in Syncs, pc[s] # "write", End(s), UNCHANGED <<file, stale, lossy>>
      PROVE  Goal
  <2>1. Writers' = Writers
    BY <1>4, Ended DEF TypeOK, Writers
  <2>2. \A q \in Writers : q \in Syncs \ {s}
    BY <1>4 DEF Writers
  <2>3. QED
    BY <1>1, <1>4, <2>1, <2>2, Ended DEF SameFile
<1>5. ASSUME NEW s \in Syncs, ListEntries(s)
      PROVE  Goal
  <2>1. Writers' = Writers
    BY <1>5 DEF ListEntries, Goto, TypeOK, Writers
  <2>2. QED
    BY <1>1, <1>5, <2>1 DEF SameFile, ListEntries
<1>6. ASSUME NEW s \in Syncs, ReadRegistry(s)
      PROVE  Goal
  <2>1. CASE End(s)
    BY <1>4, <1>6, <2>1 DEF ReadRegistry, history
  <2>2. CASE ~End(s)
    <3>1. /\ UNCHANGED <<file, pc, rest, stale, lossy>> /\ pc[s] = "reading"
          /\ \A q \in Syncs \ {s} : found'[q] = found[q]
      BY <1>6, <2>2, ReadOne DEF ReadRegistry, history, TypeOK
    <3>2. Writers' = Writers /\ s \notin Writers
      BY <3>1 DEF Writers
    <3>3. \A q \in Writers : q \in Syncs \ {s}
      BY <3>2 DEF Writers
    <3>4. QED
      BY <1>1, <3>1, <3>2, <3>3 DEF SameFile
  <2>3. QED
    BY <2>1, <2>2
<1>7. ASSUME NEW s \in Syncs, LoadFile(s)
      PROVE  Goal
  <2>1. CASE file \in {Cut, Malformed}
    BY <1>4, <1>7, <2>1 DEF LoadFile
  <2>2. CASE file \notin {Cut, Malformed}
    <3>1. /\ UNCHANGED <<file, found, lossy>> /\ pc[s] = "reading"
          /\ pc' = [pc EXCEPT ![s] = "truncate"]
          /\ stale' = [stale EXCEPT ![s] = FALSE]
          /\ \A q \in Syncs \ {s} : rest'[q] = rest[q]
      BY <1>7, <2>2 DEF LoadFile, Goto, TypeOK
    <3>2. Writers' = Writers /\ s \notin Writers
      BY <3>1 DEF TypeOK, Writers
    <3>3. \A q \in Writers : q \in Syncs \ {s}
      BY <3>2 DEF Writers
    <3>4. QED
      BY <1>1, <3>1, <3>2, <3>3 DEF SameFile
  <2>3. QED
    BY <2>1, <2>2
<1>8. ASSUME NEW s \in Syncs, TruncateFile(s), ~lossy'
      PROVE  Goal
  <2>1. ~lossy /\ ~stale[s]
    BY <1>8 DEF TruncateFile
  <2>2. QED
    BY <1>8, <2>1, TruncateStep DEF Todo!ANext
<1>9. ASSUME NEW s \in Syncs, WriteFile(s), ~lossy'
      PROVE  Goal
  <2>1. ~lossy /\ ~stale[s]
    BY <1>9 DEF WriteFile
  <2>2. QED
    BY <1>9, <2>1, WriteStep
<1>10. ASSUME NEW s \in Syncs, Fail(s), ~lossy'
       PROVE  Goal
  <2>1. pc[s] # "write" /\ UNCHANGED lossy
    BY <1>10 DEF Fail, TypeOK
  <2>2. QED
    BY <1>4, <1>10, <2>1 DEF Fail
<1>11. CASE ServerWrites
  BY <1>11, ServeStep DEF Todo!ANext
<1>12. QED
  BY <1>2, <1>3, <1>5, <1>6, <1>7, <1>8, <1>9, <1>10, <1>11
     DEF Next, SyncStep, WriteRegistry, TidyNotes, RemoveRegistry, Tick, vars, history

-----------------------------------------------------------------------------
(* The theorems.                                                            *)

\* The inductive invariant holds in every reachable state.
THEOREM Invariance == Spec => []IInv
<1>1. Init => IInv
  <2> SUFFICES ASSUME Init
               PROVE  IInv
    OBVIOUS
  <2>1. TypeOK
    BY InitTypes
  <2>2. file = Nothing /\ Nothing \notin {Cut, Malformed} /\ Cut # Malformed
    BY TodoAssumption DEF TodoAssumption, Init
  <2>3. Reading /\ FoundExactly
    BY DEF Init, Reading, FoundExactly, Editing
  <2>4. ListedExactlyDue
    BY DEF Init, ListedExactlyDue
  <2>5. RestInv
    BY <2>2 DEF Init, RestInv, FileKept, CopyKept, CutMended, Editing
  <2>6. QED
    BY <2>1, <2>3, <2>4, <2>5 DEF IInv, RestInv
<1>2. IInv /\ [Next]_vars => IInv'
  BY TypesPreserved, ReadingPreserved, FoundExactlyPreserved, ListedPreserved, RestPreserved
     DEF IInv, RestInv
<1>3. QED
  BY <1>1, <1>2, PTL DEF Spec

\* Every variable keeps its type; of an account a sync finds one entry at most.
THEOREM TypeCorrect == Spec => []TypeOK
<1>1. IInv => TypeOK
  BY DEF IInv
<1>2. QED
  BY <1>1, Invariance, PTL

\* After an undisturbed sync the to-do file lists exactly the accounts whose
\* rotation is due within the window, once each, in order, with the days, the
\* "overdue" and the trust that _due_status and _registry_sort_key give them.
THEOREM ListExact == Spec => []ListedExactlyDue
<1>1. IInv => ListedExactlyDue
  BY DEF IInv
<1>2. QED
  BY <1>1, Invariance, PTL

\* Whatever a sync does, and wherever it fails, the rest of the to-do file is what
\* the server has last made of it, but for the keys a sync does not keep; unless
\* someone else wrote between its read and its write, or it was stopped between
\* truncation and write.
THEOREM RestAlwaysKept == Spec => []RestKept
<1>1. IInv => RestKept
  BY DEF IInv, FileKept, CutMended, RestKept
<1>2. QED
  BY <1>1, Invariance, PTL
\* What syncs, failures, the passing of time and the server do to the to-do file is
\* what TodoFile permits: a sync that gets to the file replaces the managed list
\* and keeps the rest in one step, and the file is nobody else's to change but the
\* server's; unless a sync writes over what it has not read, or is killed between
\* truncation and write.
THEOREM TodoImplementsFile == Spec => ImplementsTodoFile
<1>1. Init => WriteInv
  BY DEF Init, WriteInv, CopyFresh, OneWriter, Writers
<1>2. IInv /\ WriteInv /\ [Next]_vars => WriteInv'
  BY WritePreserved DEF IInv
<1>3. Spec => []WriteInv
  BY <1>1, <1>2, Invariance, PTL DEF Spec
<1>4. Init => Todo!AInit
  <2> SUFFICES ASSUME Init
               PROVE  Todo!AInit
    OBVIOUS
  <2>1. ~IsFile(file) /\ Writers = {}
    BY DEF Init, IsFile, Writers
  <2>2. Held = [items |-> <<>>, others |-> Fresh]
    BY <2>1 DEF Held
  <2>3. QED
    BY <2>2 DEF Init, Todo!AInit
<1>5. IInv /\ IInv' /\ WriteInv /\ [Next]_vars => [Todo!ANext]_(Todo!avars)
  BY TodoStep DEF IInv, RestInv
<1>6. QED
  BY <1>3, <1>4, <1>5, Invariance, PTL DEF Spec, ImplementsTodoFile, Todo!ASpec
=============================================================================
