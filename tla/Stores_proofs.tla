----------------------------- MODULE Stores_proofs -----------------------------
(***************************************************************************)
(* The tables of the daemons that are kept consistent by counting and by   *)
(* indices: the modules with their references, the allocations with their  *)
(* three indices, the auctions and bids with names, numbers and a list of  *)
(* done ones, for every size of each.                                      *)
(***************************************************************************)
EXTENDS ModuleLoader, AllocationStore, ObjectStore, FiniteSetTheorems, SequenceTheorems, TLAPS

(***************************************************************************)
(* The reference counts of modules, for every set of names, libraries and  *)
(* processes.  A count is the number of users, or more when a reference    *)
(* was forgotten; that it is exactly that number for modules nobody keeps  *)
(* is what makes the last release unload them.                             *)
(***************************************************************************)

LoadedFrom(f) == {m \in DOMAIN modules : FileOf[m] = f}

LoaderType ==
  /\ DOMAIN modules \subseteq Names
  /\ \A m \in DOMAIN modules : modules[m] \in Nat \ {0}
  /\ handles \in [Files -> Int] /\ inited \in [Files -> Int]
  /\ DOMAIN table \subseteq Processes

\* The module of a process is loaded.
TableLoaded == \A i \in DOMAIN table : table[i] \in DOMAIN modules

\* A module has a reference for each of its users, and no other unless one was
\* forgotten.
Counted ==
  \A m \in DOMAIN modules :
    /\ modules[m] >= Cardinality(Users(m))
    /\ m \notin Preloaded \cup kept => modules[m] = Cardinality(Users(m))

\* A library is open, and initialised, once for each name it is loaded under.
LibrariesCounted ==
  \A f \in Files : handles[f] = Cardinality(LoadedFrom(f)) /\ inited[f] = handles[f]

\* While the daemon runs.
Core == LoaderType /\ TableLoaded /\ Counted /\ LibrariesCounted

\* When it has stopped it executes nothing, and the auctioneer has nothing loaded.
AfterStop ==
  up = "stopped" => DOMAIN table = {} /\ (daemon = "auctioneer" => DOMAIN modules = {})

LoaderInv ==
  /\ LoaderType /\ TableLoaded /\ LibrariesCounted
  /\ up # "stopped" => Counted
  /\ AfterStop

-----------------------------------------------------------------------------
\* The users of a module and the names of a library are finite sets.
LEMMA FiniteUsers ==
  ASSUME LoaderType, NEW m
  PROVE  IsFiniteSet(Users(m)) /\ Cardinality(Users(m)) \in Nat
<1>1. Users(m) \in SUBSET Processes
  BY DEF LoaderType, Users
<1> QED
  BY <1>1, LoaderAssumption, FS_Subset, FS_CardinalityType

LEMMA FiniteNames ==
  ASSUME DOMAIN modules \subseteq Names, NEW f
  PROVE  IsFiniteSet(LoadedFrom(f)) /\ Cardinality(LoadedFrom(f)) \in Nat
<1>1. LoadedFrom(f) \in SUBSET Names
  BY DEF LoadedFrom
<1> QED
  BY <1>1, LoaderAssumption, FS_Subset, FS_CardinalityType

\* The library of a name is one of the libraries.
LEMMA FileOfName ==
  ASSUME NEW m \in Names
  PROVE  FileOf[m] \in Files
BY LoaderAssumption DEF Files, Range

\* getModule: one reference more, or the module with its first.
LEMMA GetModuleEffect ==
  ASSUME LoaderType, LibrariesCounted, NEW m \in Names, GetModule(m)
  PROVE  /\ DOMAIN modules' = DOMAIN modules \cup {m}
         /\ \A n \in DOMAIN modules \ {m} : modules'[n] = modules[n]
         /\ modules'[m] = IF m \in DOMAIN modules THEN modules[m] + 1 ELSE 1
         /\ handles' \in [Files -> Int] /\ inited' \in [Files -> Int]
         /\ LibrariesCounted'
<1>1. CASE m \in DOMAIN modules
  <2>1. modules' = Link(m) /\ UNCHANGED <<handles, inited>>
    BY <1>1 DEF GetModule
  <2>2. DOMAIN modules' = DOMAIN modules
    BY <2>1 DEF Link
  <2>3. \A f : LoadedFrom(f)' = LoadedFrom(f)
    BY <2>2 DEF LoadedFrom
  <2> QED
    BY <1>1, <2>1, <2>2, <2>3 DEF Link, LoaderType, LibrariesCounted
<1>2. CASE m \notin DOMAIN modules
  <2>1. /\ modules' = [n \in DOMAIN modules \cup {m} |-> IF n = m THEN 1 ELSE modules[n]]
        /\ handles' = [handles EXCEPT ![FileOf[m]] = @ + 1]
        /\ inited' = [inited EXCEPT ![FileOf[m]] = @ + 1]
    BY <1>2 DEF GetModule
  <2>2. \A f : LoadedFrom(f)' = IF f = FileOf[m] THEN LoadedFrom(f) \cup {m} ELSE LoadedFrom(f)
    BY <2>1 DEF LoadedFrom
  <2>3. m \notin LoadedFrom(FileOf[m])
    BY <1>2 DEF LoadedFrom
  <2>4. Cardinality(LoadedFrom(FileOf[m]) \cup {m}) = Cardinality(LoadedFrom(FileOf[m])) + 1
    BY <2>3, FiniteNames, FS_AddElement DEF LoaderType
  <2>5. handles' \in [Files -> Int] /\ inited' \in [Files -> Int]
    BY <2>1, FileOfName DEF LoaderType
  <2>6. LibrariesCounted'
    <3>1. SUFFICES ASSUME NEW f \in Files
                   PROVE  handles'[f] = Cardinality(LoadedFrom(f)') /\ inited'[f] = handles'[f]
      BY DEF LibrariesCounted
    <3>2. CASE f = FileOf[m]
      BY <2>1, <2>2, <2>4, <3>2 DEF LoaderType, LibrariesCounted
    <3>3. CASE f # FileOf[m]
      BY <2>1, <2>2, <3>3 DEF LoaderType, LibrariesCounted
    <3> QED
      BY <3>2, <3>3
  <2> QED
    BY <1>2, <2>1, <2>5, <2>6
<1> QED
  BY <1>1, <1>2

\* releaseModule: one reference less, or the module gone with its last.
LEMMA ReleaseModuleEffect ==
  ASSUME LoaderType, LibrariesCounted, NEW m \in DOMAIN modules, ReleaseModule(m)
  PROVE  /\ DOMAIN modules' = IF modules[m] <= 1 THEN DOMAIN modules \ {m} ELSE DOMAIN modules
         /\ \A n \in DOMAIN modules \ {m} : modules'[n] = modules[n]
         /\ modules[m] > 1 => modules'[m] = modules[m] - 1
         /\ handles' \in [Files -> Int] /\ inited' \in [Files -> Int]
         /\ LibrariesCounted'
<1>1. CASE modules[m] <= 1
  <2>1. /\ modules' = [n \in DOMAIN modules \ {m} |-> modules[n]]
        /\ handles' = [handles EXCEPT ![FileOf[m]] = @ - 1]
        /\ inited' = [inited EXCEPT ![FileOf[m]] = @ - 1]
    BY <1>1 DEF ReleaseModule, Last
  <2>2. \A f : LoadedFrom(f)' = IF f = FileOf[m] THEN LoadedFrom(f) \ {m} ELSE LoadedFrom(f)
    BY <2>1 DEF LoadedFrom
  <2>3. m \in LoadedFrom(FileOf[m])
    BY DEF LoadedFrom
  <2>4. Cardinality(LoadedFrom(FileOf[m]) \ {m}) = Cardinality(LoadedFrom(FileOf[m])) - 1
    BY <2>3, FiniteNames, FS_RemoveElement DEF LoaderType
  <2>5. handles' \in [Files -> Int] /\ inited' \in [Files -> Int]
    BY <2>1, FileOfName DEF LoaderType
  <2>6. LibrariesCounted'
    <3>1. SUFFICES ASSUME NEW f \in Files
                   PROVE  handles'[f] = Cardinality(LoadedFrom(f)') /\ inited'[f] = handles'[f]
      BY DEF LibrariesCounted
    <3>2. CASE f = FileOf[m]
      BY <2>1, <2>2, <2>4, <3>2 DEF LoaderType, LibrariesCounted
    <3>3. CASE f # FileOf[m]
      BY <2>1, <2>2, <3>3 DEF LoaderType, LibrariesCounted
    <3> QED
      BY <3>2, <3>3
  <2> QED
    BY <1>1, <2>1, <2>5, <2>6 DEF LoaderType
<1>2. CASE ~(modules[m] <= 1)
  <2>1. modules' = [modules EXCEPT ![m] = @ - 1] /\ UNCHANGED <<handles, inited>>
    BY <1>2 DEF ReleaseModule, Last
  <2>2. DOMAIN modules' = DOMAIN modules
    BY <2>1
  <2>3. \A f : LoadedFrom(f)' = LoadedFrom(f)
    BY <2>2 DEF LoadedFrom
  <2> QED
    BY <1>2, <2>1, <2>2, <2>3 DEF LoaderType, LibrariesCounted
<1> QED
  BY <1>1, <1>2

-----------------------------------------------------------------------------
\* The loader begins with the modules of the configuration and without processes.
LEMMA InitCore == Init => Core
<1> SUFFICES ASSUME Init PROVE Core
  OBVIOUS
<1> USE DEF Init
<1>1. DOMAIN modules = Preloaded /\ \A m \in DOMAIN modules : modules[m] = 1
  OBVIOUS
<1>2. table = <<>> /\ DOMAIN table = {}
  OBVIOUS
<1>3. \A f : LoadedFrom(f) = {m \in Preloaded : FileOf[m] = f}
  BY <1>1 DEF LoadedFrom
<1>4. Preloaded \subseteq Names
  BY LoaderAssumption
<1>5. LibrariesCounted
  BY <1>3 DEF LibrariesCounted
<1>6. handles \in [Files -> Int] /\ inited \in [Files -> Int]
  <2>1. \A f : Cardinality(LoadedFrom(f)) \in Nat
    BY <1>1, <1>4, FiniteNames
  <2>2. handles = [f \in Files |-> handles[f]] /\ inited = handles
    OBVIOUS
  <2> HIDE DEF Init
  <2>3. ASSUME NEW f \in Files PROVE handles[f] \in Int
    <3>1. handles[f] = Cardinality(LoadedFrom(f))
      BY <1>5 DEF LibrariesCounted
    <3> QED
      BY <2>1, <3>1
  <2> QED
    BY <2>2, <2>3
<1>7. LoaderType
  BY <1>1, <1>2, <1>4, <1>6 DEF LoaderType
<1>8. \A m : Users(m) = {}
  BY <1>2 DEF Users
<1>9. Counted
  <2>1. \A m : Cardinality(Users(m)) = 0
    BY <1>8, FS_EmptySet
  <2> QED
    BY <1>1, <2>1 DEF Counted
<1> QED
  BY <1>2, <1>5, <1>7, <1>9 DEF Core, TableLoaded

\* A new process, or in the agent one that takes the place of another.
LEMMA AddProcessCore ==
  ASSUME Core, NEW i \in Processes, NEW m \in Names, AddProcess(i, m)
  PROVE  Core'
<1> USE DEF Core
<1>1. GetModule(m) /\ table' = Entry(i, m)
      /\ kept' = IF i \in DOMAIN table THEN kept \cup {table[i]} ELSE kept
  BY DEF AddProcess
<1>2. /\ DOMAIN modules' = DOMAIN modules \cup {m}
      /\ \A n \in DOMAIN modules \ {m} : modules'[n] = modules[n]
      /\ modules'[m] = IF m \in DOMAIN modules THEN modules[m] + 1 ELSE 1
      /\ handles' \in [Files -> Int] /\ inited' \in [Files -> Int]
      /\ LibrariesCounted'
  BY <1>1, GetModuleEffect
<1>3. DOMAIN table' = DOMAIN table \cup {i} /\ table'[i] = m
      /\ \A j \in DOMAIN table \ {i} : table'[j] = table[j]
  BY <1>1 DEF Entry
<1>4. LoaderType'
  BY <1>2, <1>3 DEF LoaderType
<1>5. TableLoaded'
  BY <1>2, <1>3 DEF TableLoaded
<1>6. Users(m)' = Users(m) \cup {i}
  BY <1>3 DEF Users
<1>7. \A n : n # m => Users(n)' = Users(n) \ {i}
  BY <1>3 DEF Users
<1>8. i \in Users(m) => m \in kept'
  BY <1>1 DEF Users
<1>9. \A n : n # m /\ n \notin kept' => i \notin Users(n)
  BY <1>1 DEF Users
<1>10. m \notin DOMAIN modules => Users(m) = {}
  BY DEF Users, TableLoaded
<1>11. kept \subseteq kept'
  BY <1>1
<1>12. Counted'
  <2>1. SUFFICES ASSUME NEW n \in DOMAIN modules'
                 PROVE  /\ modules'[n] >= Cardinality(Users(n)')
                        /\ n \notin Preloaded \cup kept' => modules'[n] = Cardinality(Users(n)')
    BY DEF Counted
  <2>2. IsFiniteSet(Users(n)) /\ Cardinality(Users(n)) \in Nat
    BY FiniteUsers
  <2>3. CASE n = m
    <3>1. Cardinality(Users(m)') = IF i \in Users(m) THEN Cardinality(Users(m)) ELSE Cardinality(Users(m)) + 1
      BY <1>6, <2>2, <2>3, FS_AddElement
    <3>2. CASE m \in DOMAIN modules
      BY <1>2, <1>8, <1>11, <2>2, <2>3, <3>1, <3>2 DEF Counted, LoaderType
    <3>3. CASE m \notin DOMAIN modules
      <4>1. Cardinality(Users(m)) = 0 /\ i \notin Users(m)
        BY <1>10, <3>3, FS_EmptySet
      <4> QED
        BY <1>2, <2>3, <3>1, <3>3, <4>1
    <3> QED
      BY <3>2, <3>3
  <2>4. CASE n # m
    <3>1. n \in DOMAIN modules /\ modules'[n] = modules[n]
      BY <1>2, <2>4
    <3>2. Cardinality(Users(n)') = IF i \in Users(n) THEN Cardinality(Users(n)) - 1 ELSE Cardinality(Users(n))
      BY <1>7, <2>2, <2>4, FS_RemoveElement
    <3>3. modules[n] \in Nat
      BY <3>1 DEF LoaderType
    <3> QED
      BY <1>9, <1>11, <2>2, <2>4, <3>1, <3>2, <3>3 DEF Counted
  <2> QED
    BY <2>3, <2>4
<1> QED
  BY <1>2, <1>4, <1>5, <1>12

\* A process ends, and with the last user of a module the module.
LEMMA DelProcessCore ==
  ASSUME Core, NEW i \in Processes, NEW m, m = table[i], DelProcess(i)
  PROVE  Core'
<1> USE DEF Core
<1>1. i \in DOMAIN table /\ ReleaseModule(m) /\ kept' = kept
      /\ table' = [j \in DOMAIN table \ {i} |-> table[j]]
  BY DEF DelProcess
<1>2. m \in DOMAIN modules
  BY <1>1 DEF TableLoaded
<1>3. /\ DOMAIN modules' = IF modules[m] <= 1 THEN DOMAIN modules \ {m} ELSE DOMAIN modules
      /\ \A n \in DOMAIN modules \ {m} : modules'[n] = modules[n]
      /\ modules[m] > 1 => modules'[m] = modules[m] - 1
      /\ handles' \in [Files -> Int] /\ inited' \in [Files -> Int]
      /\ LibrariesCounted'
  BY <1>1, <1>2, ReleaseModuleEffect
<1>4. modules[m] \in Nat \ {0} /\ modules[m] >= Cardinality(Users(m))
  BY <1>2 DEF LoaderType, Counted
<1>5. i \in Users(m)
  BY <1>1 DEF Users
<1>6. /\ \A n : n # m => Users(n)' = Users(n)
      /\ Users(m)' = Users(m) \ {i}
  BY <1>1 DEF Users
<1>7. Cardinality(Users(m)') = Cardinality(Users(m)) - 1 /\ Cardinality(Users(m)) \in Nat
  BY <1>5, <1>6, FiniteUsers, FS_RemoveElement
<1>8. LoaderType'
  <2>1. \A n \in DOMAIN modules' : modules'[n] \in Nat \ {0}
    BY <1>3, <1>4 DEF LoaderType
  <2> QED
    BY <1>1, <1>3, <2>1 DEF LoaderType
<1>9. TableLoaded'
  <2>1. SUFFICES ASSUME NEW j \in DOMAIN table' PROVE table'[j] \in DOMAIN modules'
    BY DEF TableLoaded
  <2>2. j \in DOMAIN table /\ j # i /\ table'[j] = table[j] /\ table[j] \in DOMAIN modules
    BY <1>1, <2>1 DEF TableLoaded
  <2>3. CASE table[j] # m
    BY <1>3, <2>2, <2>3
  <2>4. CASE table[j] = m
    <3>1. j \in Users(m)'
      BY <1>6, <2>2, <2>4 DEF Users
    <3>2. IsFiniteSet(Users(m)')
      BY <1>6, FiniteUsers, FS_RemoveElement
    <3>3. Cardinality(Users(m)') # 0
      BY <3>1, <3>2, FS_EmptySet
    <3>4. Cardinality(Users(m)) > 1
      BY <1>5, <1>7, <3>3, FiniteUsers, FS_EmptySet
    <3>5. modules[m] > 1
      BY <1>4, <1>7, <3>4
    <3> QED
      BY <1>2, <1>3, <1>4, <2>2, <2>4, <3>5
  <2> QED
    BY <2>3, <2>4
<1>10. Counted'
  <2>1. SUFFICES ASSUME NEW n \in DOMAIN modules'
                 PROVE  /\ modules'[n] >= Cardinality(Users(n)')
                        /\ n \notin Preloaded \cup kept' => modules'[n] = Cardinality(Users(n)')
    BY DEF Counted
  <2>2. CASE n = m
    <3>1. modules[m] > 1 /\ modules'[m] = modules[m] - 1
      BY <1>3, <1>4, <2>1, <2>2
    <3>2. m \notin Preloaded \cup kept => modules[m] = Cardinality(Users(m))
      BY <1>2 DEF Counted
    <3> QED
      BY <1>1, <1>4, <1>7, <2>2, <3>1, <3>2
  <2>3. CASE n # m
    <3>1. n \in DOMAIN modules
      BY <1>3, <2>1
    <3> QED
      BY <1>1, <1>3, <1>6, <2>3, <3>1 DEF Counted
  <2> QED
    BY <2>2, <2>3
<1> QED
  BY <1>3, <1>8, <1>9, <1>10

\* A page about a module leaves a reference without a user.
LEMMA GetModInfoCore ==
  ASSUME Core, NEW m \in Names, GetModInfo(m)
  PROVE  Core'
<1> USE DEF Core
<1>1. GetModule(m) /\ kept' = kept \cup {m} /\ table' = table
  BY DEF GetModInfo
<1>2. /\ DOMAIN modules' = DOMAIN modules \cup {m}
      /\ \A n \in DOMAIN modules \ {m} : modules'[n] = modules[n]
      /\ modules'[m] = IF m \in DOMAIN modules THEN modules[m] + 1 ELSE 1
      /\ handles' \in [Files -> Int] /\ inited' \in [Files -> Int]
      /\ LibrariesCounted'
  BY <1>1, GetModuleEffect
<1>3. \A n : Users(n)' = Users(n)
  BY <1>1 DEF Users
<1>4. LoaderType'
  BY <1>1, <1>2 DEF LoaderType
<1>5. TableLoaded'
  BY <1>1, <1>2 DEF TableLoaded
<1>6. modules'[m] >= Cardinality(Users(m))
  <2>1. CASE m \in DOMAIN modules
    BY <1>2, <2>1, FiniteUsers DEF Counted, LoaderType
  <2>2. CASE m \notin DOMAIN modules
    <3>1. Users(m) = {}
      BY <2>2 DEF Users, TableLoaded
    <3> QED
      BY <1>2, <2>2, <3>1, FS_EmptySet
  <2> QED
    BY <2>1, <2>2
<1>7. Counted'
  BY <1>1, <1>2, <1>3, <1>6 DEF Counted
<1> QED
  BY <1>2, <1>4, <1>5, <1>7

\* What cannot be loaded changes nothing, even when it ends the daemon.
LEMMA AddFailsCore ==
  ASSUME Core, AddFails
  PROVE  Core'
<1>1. UNCHANGED <<modules, handles, inited, table, kept>>
  BY DEF AddFails, LoadFails
<1> QED
  BY <1>1 DEF Core, LoaderType, TableLoaded, Counted, LibrariesCounted, LoadedFrom, Users

\* The destructor closes each library as often as it was opened.
LEMMA ShutdownCore ==
  ASSUME Core, Shutdown
  PROVE  TableLoaded' /\ LoaderType' /\ LibrariesCounted'
         /\ (daemon = "auctioneer" => DOMAIN modules' = {}) /\ DOMAIN table' = {}
<1> USE DEF Core
<1>1. table' = <<>> /\ DOMAIN table' = {}
  BY DEF Shutdown
<1>2. CASE daemon = "auctioneer"
  <2>1. /\ modules' = <<>> /\ DOMAIN modules' = {}
        /\ handles' = [f \in Files |-> handles[f] - Cardinality(LoadedFrom(f))]
        /\ inited' = [f \in Files |-> inited[f] - Cardinality(LoadedFrom(f))]
    BY <1>2 DEF Shutdown, LoadedFrom
  <2>2. \A f : LoadedFrom(f)' = {}
    BY <2>1 DEF LoadedFrom
  <2>3. \A f \in Files : handles'[f] = 0 /\ inited'[f] = 0
    BY <2>1 DEF LoaderType, LibrariesCounted
  <2>4. handles' \in [Files -> Int] /\ inited' \in [Files -> Int]
    BY <2>1, <2>3
  <2>5. LibrariesCounted'
    BY <2>2, <2>3, FS_EmptySet DEF LibrariesCounted
  <2>6. LoaderType' /\ TableLoaded'
    BY <1>1, <2>1, <2>4 DEF LoaderType, TableLoaded
  <2> QED
    BY <1>1, <2>1, <2>5, <2>6
<1>3. CASE daemon # "auctioneer"
  <2>1. UNCHANGED <<modules, handles, inited>>
    BY <1>3 DEF Shutdown
  <2> QED
    BY <1>1, <1>3, <2>1 DEF LoaderType, TableLoaded, LibrariesCounted, LoadedFrom
<1> QED
  BY <1>2, <1>3

-----------------------------------------------------------------------------
LEMMA InitLoaderInv == Init => LoaderInv
BY InitCore DEF Core, LoaderInv, AfterStop, Init

LEMMA NextLoaderInv == LoaderInv /\ [Next]_vars => LoaderInv'
<1> SUFFICES ASSUME LoaderInv, [Next]_vars PROVE LoaderInv'
  OBVIOUS
<1>1. up = "up" => Core
  BY DEF LoaderInv, Core
<1>2. ASSUME NEW i \in Processes, NEW m \in Names, AddProcess(i, m) PROVE LoaderInv'
  <2>1. up = "up" /\ up' = up
    BY <1>2 DEF AddProcess
  <2> QED
    BY <1>1, <1>2, <2>1, AddProcessCore DEF Core, LoaderInv, AfterStop
<1>3. ASSUME NEW i \in Processes, DelProcess(i) PROVE LoaderInv'
  <2>1. up = "up" /\ up' = up
    BY <1>3 DEF DelProcess
  <2>2. PICK m : m = table[i]
    OBVIOUS
  <2> QED
    BY <1>1, <1>3, <2>1, <2>2, DelProcessCore DEF Core, LoaderInv, AfterStop
<1>4. ASSUME NEW m \in Names, GetModInfo(m) PROVE LoaderInv'
  <2>1. up = "up" /\ up' = up
    BY <1>4 DEF GetModInfo
  <2> QED
    BY <1>1, <1>4, <2>1, GetModInfoCore DEF Core, LoaderInv, AfterStop
<1>5. CASE AddFails
  <2>1. up = "up" /\ up' # "stopped"
    BY <1>5 DEF AddFails, LoadFails
  <2> QED
    BY <1>1, <1>5, <2>1, AddFailsCore DEF Core, LoaderInv, AfterStop
<1>6. CASE Shutdown
  <2>1. up = "up" /\ up' = "stopped" /\ daemon' = daemon
    BY <1>6 DEF Shutdown
  <2> QED
    BY <1>1, <1>6, <2>1, ShutdownCore DEF LoaderInv, AfterStop
<1>7. CASE UNCHANGED vars
  BY <1>7 DEF vars, LoaderInv, AfterStop, LoaderType, TableLoaded, LibrariesCounted, Counted, LoadedFrom, Users
<1> QED
  BY <1>2, <1>3, <1>4, <1>5, <1>6, <1>7 DEF Next

\* A process executes a module that is loaded, with a reference for each of its
\* users, from a library that is open and initialised (loadModule, releaseModule).
THEOREM ModulesInUseStayLoaded == Spec => []InUseLoaded
<1>1. LoaderInv => InUseLoaded
  <2>1. SUFFICES ASSUME LoaderInv, NEW i \in DOMAIN table
                 PROVE  /\ table[i] \in DOMAIN modules
                        /\ modules[table[i]] >= Cardinality(Users(table[i]))
                        /\ handles[FileOf[table[i]]] > 0 /\ inited[FileOf[table[i]]] > 0
    BY DEF InUseLoaded
  <2>2. table[i] \in DOMAIN modules /\ table[i] \in Names
    BY <2>1 DEF LoaderInv, TableLoaded, LoaderType
  <2>3. up # "stopped"
    BY <2>1 DEF LoaderInv, AfterStop
  <2>4. table[i] \in LoadedFrom(FileOf[table[i]])
    BY <2>2 DEF LoadedFrom
  <2>5. Cardinality(LoadedFrom(FileOf[table[i]])) > 0
    BY <2>1, <2>4, FiniteNames, FS_EmptySet DEF LoaderInv, LoaderType
  <2> QED
    BY <2>1, <2>2, <2>3, <2>5, FileOfName DEF LoaderInv, Counted, LibrariesCounted
<1> QED
  BY <1>1, InitLoaderInv, NextLoaderInv, PTL DEF Spec

\* What is loaded has a user, is preloaded, or has a reference that was forgotten;
\* a library is open once for each name (releaseModule, ~ModuleLoader).
THEOREM UnusedModulesAreUnloaded == Spec => []UnusedUnloaded
<1>1. LoaderInv => UnusedUnloaded
  <2>1. SUFFICES ASSUME LoaderInv, up = "stopped" => daemon = "auctioneer"
                 PROVE  /\ \A m \in DOMAIN modules : Users(m) # {} \/ m \in Preloaded \cup kept
                        /\ LibrariesCounted
    BY DEF UnusedUnloaded, LibrariesCounted, LoadedFrom
  <2>2. SUFFICES ASSUME NEW m \in DOMAIN modules, m \notin Preloaded \cup kept
                 PROVE  Users(m) # {}
    BY <2>1 DEF LoaderInv
  <2>3. Counted
    BY <2>1, <2>2 DEF LoaderInv, AfterStop
  <2>4. modules[m] = Cardinality(Users(m)) /\ modules[m] # 0
    BY <2>1, <2>2, <2>3 DEF LoaderInv, Counted, LoaderType
  <2> QED
    BY <2>4, FS_EmptySet
<1> QED
  BY <1>1, InitLoaderInv, NextLoaderInv, PTL DEF Spec

-----------------------------------------------------------------------------
(***************************************************************************)
(* The three indices of the allocations, for every set of allocations and  *)
(* names and every size of the list of done ones.  The argument turns on   *)
(* the copy that delAllocation makes before it takes a number out: a name  *)
(* is then never found empty, so that the statements at its end, which     *)
(* erase a set from the wrong index, are never reached.                    *)
(***************************************************************************)

Present == 0 .. Len(db) - 1

StoreType ==
  /\ db \in Seq(Allocations \cup {Nothing})
  /\ DOMAIN index = Kinds

\* What an index says is installed under that name.
IndexSound ==
  \A k \in Kinds : \A x \in DOMAIN index[k] : \A n \in index[k][x] :
    n \in Present /\ At(n) # Nothing /\ Key[At(n)][k] = x

\* What is installed is in every index.
IndexComplete ==
  \A k \in Kinds, n \in Present :
    At(n) # Nothing => Key[At(n)][k] \in DOMAIN index[k] /\ n \in index[k][Key[At(n)][k]]

\* What is about to be deleted is installed.
DoomedPresent == \A n \in doomed : n \in Present /\ At(n) # Nothing

IndexInv == StoreType /\ IndexSound /\ IndexComplete /\ DoomedPresent

-----------------------------------------------------------------------------
\* An allocation at a number is one of the allocations.
LEMMA AtInstalled ==
  ASSUME StoreType, NEW n \in Present, At(n) # Nothing
  PROVE  At(n) \in Allocations
<1>1. n + 1 \in 1 .. Len(db)
  BY DEF Present, StoreType
<1> QED
  BY <1>1 DEF At, StoreType

\* delAllocation leaves each index its names and takes out the number: the set of
\* the allocation still has a name, and the wrong index is not touched.
LEMMA DelIndicesEffect ==
  ASSUME IndexInv, NEW n \in Present, NEW a, a = At(n), a # Nothing
  PROVE  DelIndices(a, n) =
           [k \in Kinds |-> [x \in DOMAIN index[k] |->
              IF x = Key[a][k] THEN index[k][x] \ {n} ELSE index[k][x]]]
<1> DEFINE left == [k \in Kinds |-> Without(index[k], Key[a][k], n)]
<1>1. \A k \in Kinds : Key[a][k] \in DOMAIN index[k] /\ n \in index[k][Key[a][k]]
  BY DEF IndexInv, IndexComplete
<1>2. \A k \in Kinds : Without(index[k], Key[a][k], n)
        = [x \in DOMAIN index[k] |-> IF x = Key[a][k] THEN index[k][x] \ {n} ELSE index[k][x]]
  <2> TAKE k \in Kinds
  <2>1. index[k][Key[a][k]] # {}
    BY <1>1
  <2>2. {y \in DOMAIN index[k] : y = Key[a][k] => index[k][Key[a][k]] # {}} = DOMAIN index[k]
    BY <2>1
  <2> QED
    BY <2>2 DEF Without
<1>3. "allocation" \in Kinds
  BY DEF Kinds
<1>4. Key[a]["allocation"] \in DOMAIN left["allocation"]
  BY <1>1, <1>2, <1>3
<1>5. HasSet(left["allocation"], Key[a]["allocation"][1])
  BY <1>4 DEF HasSet
<1>6. DelIndices(a, n) = left
  BY <1>5 DEF DelIndices
<1> QED
  BY <1>2, <1>6

\* A deletion keeps every index exact.
LEMMA DelAllocationKeeps ==
  ASSUME IndexInv, NEW n \in Present, At(n) # Nothing, DelAllocation(n), Nothing \notin Allocations
  PROVE  StoreType' /\ IndexSound' /\ IndexComplete' /\ Present' = Present
         /\ \A i \in Present \ {n} : At(i)' = At(i)
<1> PICK a : a = At(n)
  OBVIOUS
<1>1. db \in Seq(Allocations \cup {Nothing}) /\ Len(db) \in Nat /\ n \in 0 .. Len(db) - 1
  BY DEF IndexInv, StoreType, Present
<1>2. db' = [db EXCEPT ![n + 1] = Nothing]
  BY DEF DelAllocation
<1>3. db' \in Seq(Allocations \cup {Nothing}) /\ Len(db') = Len(db)
      /\ \A i \in 1 .. Len(db) : db'[i] = IF i = n + 1 THEN Nothing ELSE db[i]
  BY <1>1, <1>2
<1>4. Present' = Present /\ At(n)' = Nothing /\ \A i \in Present \ {n} : At(i)' = At(i)
  BY <1>1, <1>3 DEF Present, At
<1>5. index' = [k \in Kinds |-> [x \in DOMAIN index[k] |->
                  IF x = Key[a][k] THEN index[k][x] \ {n} ELSE index[k][x]]]
  BY DelIndicesEffect DEF DelAllocation
<1>6. \A k \in Kinds : /\ DOMAIN index'[k] = DOMAIN index[k]
                       /\ \A x \in DOMAIN index[k] :
                            index'[k][x] = IF x = Key[a][k] THEN index[k][x] \ {n} ELSE index[k][x]
  BY <1>5
<1>7. StoreType'
  <2>1. DOMAIN index' = Kinds
    BY <1>5
  <2> QED
    BY <1>3, <2>1 DEF StoreType
<1>8. IndexSound'
  <2>1. SUFFICES ASSUME NEW k \in Kinds, NEW x \in DOMAIN index'[k], NEW i \in index'[k][x]
                 PROVE  i \in Present' /\ At(i)' # Nothing /\ Key[At(i)'][k] = x
    BY DEF IndexSound
  <2>2. x \in DOMAIN index[k] /\ i \in index[k][x]
    <3>1. x \in DOMAIN index[k]
      BY <1>6
    <3>2. index'[k][x] = IF x = Key[a][k] THEN index[k][x] \ {n} ELSE index[k][x]
      BY <1>6, <3>1
    <3> QED
      BY <3>1, <3>2
  <2>3. i \in Present /\ At(i) # Nothing /\ Key[At(i)][k] = x
    BY <2>2 DEF IndexInv, IndexSound
  <2>4. i # n
    <3>1. SUFFICES ASSUME i = n PROVE FALSE
      OBVIOUS
    <3>2. x = Key[a][k]
      BY <2>3, <3>1
    <3>3. index'[k][x] = index[k][x] \ {n}
      BY <1>6, <2>2, <3>2
    <3> QED
      BY <2>1, <3>1, <3>3
  <2> QED
    BY <1>4, <2>3, <2>4
<1>9. IndexComplete'
  <2>1. SUFFICES ASSUME NEW k \in Kinds, NEW i \in Present', At(i)' # Nothing
                 PROVE  Key[At(i)'][k] \in DOMAIN index'[k] /\ i \in index'[k][Key[At(i)'][k]]
    BY DEF IndexComplete
  <2>2. i \in Present \ {n} /\ At(i)' = At(i)
    BY <1>4, <2>1
  <2>3. Key[At(i)][k] \in DOMAIN index[k] /\ i \in index[k][Key[At(i)][k]]
    BY <2>1, <2>2 DEF IndexInv, IndexComplete
  <2>4. PICK y \in DOMAIN index[k] : y = Key[At(i)][k] /\ i \in index[k][y]
    BY <2>3
  <2>5. y \in DOMAIN index'[k] /\ i \in index'[k][y]
    BY <1>6, <2>2, <2>4
  <2>6. y = Key[At(i)'][k]
    BY <2>2, <2>4
  <2> QED
    BY <2>5, <2>6
<1> QED
  BY <1>4, <1>7, <1>8, <1>9

-----------------------------------------------------------------------------
LEMMA InitIndexInv == AllocationInit => IndexInv
<1> SUFFICES ASSUME AllocationInit PROVE IndexInv
  OBVIOUS
<1>1. db = <<>> /\ doomed = {} /\ index = [k \in Kinds |-> <<>>]
  BY DEF AllocationInit
<1>2. Present = {} /\ \A k \in Kinds : DOMAIN index[k] = {}
  BY <1>1 DEF Present
<1> QED
  BY <1>1, <1>2 DEF IndexInv, StoreType, IndexSound, IndexComplete, DoomedPresent

\* addAllocation: the new number in every index, or nothing.
LEMMA AddAllocationIndexInv ==
  ASSUME IndexInv, AddAllocation, Nothing \notin Allocations
  PROVE  IndexInv'
<1>1. PICK a \in Allocations :
        IF Installed(a) THEN UNCHANGED <<db, index>>
        ELSE /\ db' = Append(db, a)
             /\ index' = [k \in Kinds |->
                  [x \in DOMAIN index[k] \cup {Key[a][k]} |->
                     Numbers(k, x) \cup (IF x = Key[a][k] THEN {Len(db)} ELSE {})]]
  BY DEF AddAllocation
<1>2. doomed' = doomed /\ doomed = {}
  BY DEF AddAllocation
<1>3. CASE UNCHANGED <<db, index>>
  BY <1>2, <1>3 DEF IndexInv, StoreType, IndexSound, IndexComplete, DoomedPresent, Present, At
<1>4. CASE ~Installed(a)
  <2>1. /\ db' = Append(db, a)
        /\ index' = [k \in Kinds |->
             [x \in DOMAIN index[k] \cup {Key[a][k]} |->
                Numbers(k, x) \cup (IF x = Key[a][k] THEN {Len(db)} ELSE {})]]
    BY <1>1, <1>4
  <2>2. db \in Seq(Allocations \cup {Nothing}) /\ Len(db) \in Nat
    BY DEF IndexInv, StoreType
  <2>3. /\ db' \in Seq(Allocations \cup {Nothing}) /\ Len(db') = Len(db) + 1
        /\ \A i \in 1 .. Len(db) : db'[i] = db[i]
        /\ db'[Len(db) + 1] = a
    BY <2>1, <2>2, AppendProperties
  <2> PICK l \in Nat : l = Len(db)
    BY <2>2
  <2>4. /\ Present' = Present \cup {l} /\ l \notin Present
        /\ At(l)' = a /\ \A i \in Present : At(i)' = At(i)
    <3>1. Present = 0 .. l - 1 /\ Present' = 0 .. l
      BY <2>3 DEF Present
    <3>2. At(l)' = a
      BY <2>3 DEF At
    <3>3. \A i \in Present : At(i)' = At(i)
      <4> TAKE i \in Present
      <4>1. i + 1 \in 1 .. Len(db)
        BY <3>1
      <4> QED
        BY <2>3, <4>1 DEF At
    <3> QED
      BY <3>1, <3>2, <3>3
  <2>5. \A k \in Kinds : /\ DOMAIN index'[k] = DOMAIN index[k] \cup {Key[a][k]}
                         /\ \A x \in DOMAIN index'[k] :
                              index'[k][x] = Numbers(k, x) \cup (IF x = Key[a][k] THEN {l} ELSE {})
    BY <2>1
  <2>6. StoreType'
    BY <2>1, <2>3 DEF StoreType
  <2>7. IndexSound'
    <3>1. SUFFICES ASSUME NEW k \in Kinds, NEW x \in DOMAIN index'[k], NEW i \in index'[k][x]
                   PROVE  i \in Present' /\ At(i)' # Nothing /\ Key[At(i)'][k] = x
      BY DEF IndexSound
    <3>2. CASE i \in Numbers(k, x)
      <4>1. x \in DOMAIN index[k] /\ i \in index[k][x]
        BY <3>2 DEF Numbers
      <4>2. i \in Present /\ At(i) # Nothing /\ Key[At(i)][k] = x
        BY <4>1 DEF IndexInv, IndexSound
      <4> QED
        BY <2>4, <4>2
    <3>3. CASE i = l /\ x = Key[a][k]
      BY <2>4, <3>3
    <3> QED
      BY <2>5, <3>1, <3>2, <3>3
  <2>8. IndexComplete'
    <3>1. SUFFICES ASSUME NEW k \in Kinds, NEW i \in Present', At(i)' # Nothing
                   PROVE  Key[At(i)'][k] \in DOMAIN index'[k] /\ i \in index'[k][Key[At(i)'][k]]
      BY DEF IndexComplete
    <3>2. CASE i = l
      <4>1. Key[a][k] \in DOMAIN index'[k] /\ l \in index'[k][Key[a][k]]
        BY <2>5
      <4> QED
        BY <2>4, <3>2, <4>1
    <3>3. CASE i \in Present
      <4>1. At(i)' = At(i) /\ Key[At(i)][k] \in DOMAIN index[k] /\ i \in index[k][Key[At(i)][k]]
        BY <2>4, <3>1, <3>3 DEF IndexInv, IndexComplete
      <4>2. i \in Numbers(k, Key[At(i)][k])
        BY <4>1 DEF Numbers
      <4> QED
        BY <2>5, <4>1, <4>2
    <3> QED
      BY <2>4, <3>2, <3>3
  <2> QED
    BY <1>2, <2>6, <2>7, <2>8 DEF IndexInv, DoomedPresent
<1> QED
  BY <1>1, <1>3, <1>4

LEMMA NextIndexInv ==
  ASSUME IndexInv, [AllocationNext]_allocationVars, Nothing \notin Allocations
  PROVE  IndexInv'
<1>1. CASE AddAllocation
  BY <1>1, AddAllocationIndexInv
<1>2. CASE DelByName
  <2>1. PICK x \in DOMAIN index["allocation"] : \E n \in index["allocation"][x] : DelAllocation(n)
    BY <1>2 DEF DelByName
  <2>2. PICK n \in index["allocation"][x] : DelAllocation(n)
    BY <2>1
  <2>3. n \in Present /\ At(n) # Nothing
    BY <2>1, <2>2 DEF IndexInv, IndexSound, Kinds
  <2>4. doomed' = {}
    BY <1>2 DEF DelByName
  <2> QED
    BY <2>2, <2>3, <2>4, DelAllocationKeeps DEF IndexInv, DoomedPresent
<1>3. CASE \E k \in {"bid", "auction"} : DelAllOf(k)
  <2>1. PICK k \in Kinds : DelAllOf(k)
    BY <1>3 DEF Kinds
  <2>2. PICK x \in DOMAIN index[k] : doomed' = index[k][x]
    BY <2>1 DEF DelAllOf
  <2>3. UNCHANGED <<db, index>>
    BY <2>1 DEF DelAllOf
  <2> QED
    BY <2>2, <2>3 DEF IndexInv, StoreType, IndexSound, IndexComplete, DoomedPresent, Present, At
<1>4. CASE DelNext
  <2>1. PICK n \in doomed : DelAllocation(n) /\ doomed' = doomed \ {n}
    BY <1>4 DEF DelNext
  <2>2. n \in Present /\ At(n) # Nothing
    BY <2>1 DEF IndexInv, DoomedPresent
  <2>3. StoreType' /\ IndexSound' /\ IndexComplete' /\ Present' = Present
        /\ \A i \in Present \ {n} : At(i)' = At(i)
    BY <2>1, <2>2, DelAllocationKeeps
  <2>4. DoomedPresent'
    BY <2>1, <2>3 DEF IndexInv, DoomedPresent
  <2> QED
    BY <2>3, <2>4 DEF IndexInv
<1>5. CASE UNCHANGED allocationVars
  BY <1>5 DEF allocationVars, IndexInv, StoreType, IndexSound, IndexComplete, DoomedPresent, Present, At
<1> QED
  BY <1>1, <1>2, <1>3, <1>4, <1>5 DEF AllocationNext

\* Each index gives for each name the allocations that are installed under it
\* (addAllocation, delAllocation and what is built from them).
THEOREM IndexesAlwaysAgree ==
  ASSUME Nothing \notin Allocations
  PROVE  AllocationSpec => []IndexesAgree
<1>1. IndexInv => IndexesAgree
  <2> SUFFICES ASSUME IndexInv, NEW k \in Kinds, NEW n \in Present,
                      NEW x \in DOMAIN index[k] \cup {Key[a][k] : a \in Allocations}
               PROVE  n \in Numbers(k, x) <=> At(n) # Nothing /\ Key[At(n)][k] = x
    BY DEF IndexesAgree, Present
  <2>1. n \in Numbers(k, x) => At(n) # Nothing /\ Key[At(n)][k] = x
    BY DEF IndexInv, IndexSound, Numbers
  <2>2. At(n) # Nothing /\ Key[At(n)][k] = x => n \in Numbers(k, x)
    BY DEF IndexInv, IndexComplete, Numbers
  <2> QED
    BY <2>1, <2>2
<1>2. IndexInv /\ [AllocationNext]_allocationVars => IndexInv'
  BY NextIndexInv
<1> QED
  BY <1>1, <1>2, InitIndexInv, PTL DEF AllocationSpec

-----------------------------------------------------------------------------
(***************************************************************************)
(* The managers of auctions and of bidding objects, for every set of       *)
(* objects and of names used more than once and every length of the list   *)
(* of done objects.  The argument is the life of an object: it waits to be *)
(* added, is installed, its removal is queued or under way, it is done, it *)
(* is deleted, and it is never at two of these places that exclude each    *)
(* other.  A bid that is refused for its name breaks this for the bids: it *)
(* is deleted under a number it does not have.                             *)
(***************************************************************************)

Stored(m) == {m.db[i] : i \in 1 .. Len(m.db)} \ {Null}
DoneOf(m) == {m.done[i] : i \in 1 .. Len(m.done)}
Unrepeated(s) == \A i, j \in 1 .. Len(s) : s[i] = s[j] => i = j

\* The rest of the list of the call in progress: to be added, or to be removed.
Waiting == {work.rest[i] : i \in 1 .. Len(work.rest)}
Adding == IF work.op \in {"add auctions", "add bids"} THEN Waiting ELSE {}
Removing == IF work.op \in {"remove auctions", "remove bids"} THEN Waiting ELSE {}

\* The objects that have been installed and whose removal is queued, or will be.
Awaited == removals \cup work.added \cup Removing

ManagerType(m, S) ==
  /\ m.db \in Seq(S \cup {Null}) /\ m.done \in Seq(S)
  /\ \A x \in DOMAIN m.index : m.index[x] \in Nat

\* The call in progress.
Operations == {"idle", "add auctions", "add bids", "remove auctions", "remove bids"}

IsCall ==
  /\ work = [op |-> work.op, rest |-> work.rest, size |-> work.size, added |-> work.added]
  /\ work.op \in Operations /\ work.rest \in Seq(Objects) /\ work.added \subseteq Objects

CallType ==
  /\ IsCall
  /\ work.op = "idle" => work.rest = <<>>
  /\ work.op \in {"add auctions", "remove auctions"} => Waiting \subseteq Auctions
  /\ work.op \in {"add bids", "remove bids"} => Waiting \subseteq Bids
  /\ Unrepeated(work.rest)

ObjectTypes ==
  /\ ManagerType(auctions, Auctions) /\ ManagerType(bids, Bids) /\ CallType
  /\ number \in [Objects -> Nat]
  /\ read \subseteq Objects /\ removals \subseteq Objects
  /\ refused \in BOOLEAN

\* An object is made, waits to be added, is installed, waits to be removed, is
\* done and is deleted, in this order, and never goes back.
Lifecycle ==
  /\ Waiting \cup Awaited \cup Stored(auctions) \cup Stored(bids) \subseteq read
  /\ DoneOf(auctions) \cup DoneOf(bids) \cup gone \subseteq read
  /\ Waiting \cap (removals \cup work.added) = {}
  /\ Adding \cap (Stored(auctions) \cup Stored(bids)) = {}
  /\ (Waiting \cup Awaited \cup Stored(auctions) \cup Stored(bids))
       \cap (DoneOf(auctions) \cup DoneOf(bids) \cup gone) = {}

\* Who is done is done once, and was not deleted.
Fresh(m) == Unrepeated(m.done) /\ DoneOf(m) \cap gone = {}

Numbered(m) == \A i \in 1 .. Len(m.db) : m.db[i] # Null => number[m.db[i]] = i - 1

\* What is to be removed is where its number says.
Placed(m, S) == \A o \in Awaited \cap S : ObjectAt(m, number[o]) = o

\* The index by auction holds numbers that were given out.
IndexBounded ==
  \A x \in DOMAIN byAuction : \A n \in byAuction[x] : n \in 0 .. (Len(bids.db) - 1)

Blameless == fault \in {"freed twice", "read freed", "no index"} => refused

AuctionsSound ==
  Numbered(auctions) /\ Fresh(auctions) /\ Placed(auctions, Auctions) /\ Agree(auctions)

BidsSound ==
  /\ Numbered(bids)
  /\ ~refused => /\ Fresh(bids) /\ Placed(bids, Bids) /\ Agree(bids)
                 /\ IndexedByAuction /\ IndexBounded

ObjectInv == ObjectTypes /\ Lifecycle /\ AuctionsSound /\ BidsSound /\ Blameless

-----------------------------------------------------------------------------
\* The members of a sequence.
LEMMA RangeMembers ==
  ASSUME NEW S, NEW s \in Seq(S)
  PROVE  Range(s) = {s[i] : i \in 1 .. Len(s)}
BY LenProperties DEF Range

LEMMA ObjectInvImplies == ObjectInv => NamesFind /\ MemorySound
<1> SUFFICES ASSUME ObjectInv PROVE NamesFind /\ MemorySound
  OBVIOUS
<1>1. NamesFind
  BY DEF ObjectInv, AuctionsSound, BidsSound, NamesFind
<1>2. gone \cap (removals \cup Range(work.rest)) = {}
  <2>1. Range(work.rest) = Waiting
    <3>1. work.rest \in Seq(Objects)
      BY DEF ObjectInv, ObjectTypes, CallType, IsCall
    <3> QED
      BY <3>1, RangeMembers DEF Waiting
  <2> QED
    BY <2>1 DEF ObjectInv, Lifecycle, Awaited
<1>3. gone \cap (Range(auctions.db) \cup Range(bids.db)) = {}
  <2>1. Range(auctions.db) \subseteq Stored(auctions) \cup {Null}
    <3>1. auctions.db \in Seq(Auctions \cup {Null})
      BY DEF ObjectInv, ObjectTypes, ManagerType
    <3> QED
      BY <3>1, RangeMembers DEF Stored
  <2>2. Range(bids.db) \subseteq Stored(bids) \cup {Null}
    <3>1. bids.db \in Seq(Bids \cup {Null})
      BY DEF ObjectInv, ObjectTypes, ManagerType
    <3> QED
      BY <3>1, RangeMembers DEF Stored
  <2>3. Null \notin gone
    BY ObjectAssumption DEF ObjectInv, Lifecycle, ObjectTypes, Objects
  <2> QED
    BY <2>1, <2>2, <2>3 DEF ObjectInv, Lifecycle
<1> QED
  BY <1>1, <1>2, <1>3 DEF MemorySound, ObjectInv, Blameless

-----------------------------------------------------------------------------
\* A list of objects has one or two of them.
LEMMA ListMembers ==
  ASSUME NEW S, NEW list \in Lists(S)
  PROVE  list \in Seq(S) /\ Unrepeated(list) /\ Len(list) \in Nat
<1>1. CASE \E o \in S : list = <<o>>
  BY <1>1 DEF Unrepeated
<1>2. CASE \E o, p \in S : list = <<o, p>> /\ o # p
  <2>1. PICK o \in S, p \in S : list = <<o, p>> /\ o # p
    BY <1>2
  <2>2. list \in Seq(S) /\ Len(list) = 2 /\ list[1] = o /\ list[2] = p
    BY <2>1
  <2>3. \A i \in 1 .. 2 : i = 1 \/ i = 2
    OBVIOUS
  <2> QED
    BY <2>1, <2>2, <2>3 DEF Unrepeated
<1> QED
  BY <1>1, <1>2 DEF Lists

\* The head and the tail of a list without repetition.
LEMMA HeadTail ==
  ASSUME NEW S, NEW s \in Seq(S), s # <<>>, Unrepeated(s)
  PROVE  /\ Head(s) \in S /\ Tail(s) \in Seq(S) /\ Unrepeated(Tail(s))
         /\ {s[i] : i \in 1 .. Len(s)} = {Tail(s)[i] : i \in 1 .. Len(Tail(s))} \cup {Head(s)}
         /\ Head(s) \notin {Tail(s)[i] : i \in 1 .. Len(Tail(s))}
<1>1. /\ Len(s) \in Nat \ {0} /\ Head(s) = s[1] /\ Head(s) \in S /\ Tail(s) \in Seq(S)
      /\ Len(Tail(s)) = Len(s) - 1
      /\ \A i \in 1 .. Len(s) - 1 : Tail(s)[i] = s[i + 1]
  BY EmptySeq, HeadTailProperties
<1> DEFINE t == Tail(s)
           n == Len(s)
<1>2. /\ n \in Nat \ {0} /\ Len(t) = n - 1 /\ \A i \in 1 .. n - 1 : t[i] = s[i + 1]
      /\ \A i, j \in 1 .. n : s[i] = s[j] => i = j
  BY <1>1 DEF Unrepeated
<1> HIDE DEF t, n
<1>3. \A i \in 1 .. n - 1 : i + 1 \in 1 .. n /\ i + 1 # 1
  BY <1>2
<1>4. \A i \in 1 .. n : i = 1 \/ (i - 1 \in 1 .. n - 1 /\ (i - 1) + 1 = i)
  BY <1>2
<1>5. Unrepeated(t)
  <2>1. \A i, j \in 1 .. n - 1 : i + 1 = j + 1 => i = j
    BY <1>2
  <2> QED
    BY <1>2, <1>3, <2>1 DEF Unrepeated
<1>6. \A i \in 1 .. n - 1 : t[i] # s[1]
  <2>1. 1 \in 1 .. n
    BY <1>2
  <2> QED
    BY <1>2, <1>3, <2>1
<1>7. {s[i] : i \in 1 .. n} = {t[i] : i \in 1 .. n - 1} \cup {s[1]}
  <2>1. ASSUME NEW i \in 1 .. n PROVE s[i] \in {t[k] : k \in 1 .. n - 1} \cup {s[1]}
    <3>1. CASE i = 1
      BY <3>1
    <3>2. CASE i # 1
      <4>1. i - 1 \in 1 .. n - 1 /\ t[i - 1] = s[i]
        BY <1>2, <1>4, <3>2
      <4> QED
        BY <4>1
    <3> QED
      BY <3>1, <3>2
  <2>2. \A k \in 1 .. n - 1 : t[k] \in {s[i] : i \in 1 .. n}
    BY <1>2, <1>3
  <2>3. s[1] \in {s[i] : i \in 1 .. n}
    <3>1. 1 \in 1 .. n
      BY <1>2
    <3> QED
      BY <3>1
  <2> QED
    BY <2>1, <2>2, <2>3
<1> QED
  BY <1>1, <1>2, <1>5, <1>6, <1>7 DEF t, n

\* A member more at the end.
LEMMA AppendMember ==
  ASSUME NEW S, NEW s \in Seq(S), NEW o \in S
  PROVE  /\ Append(s, o) \in Seq(S)
         /\ {Append(s, o)[i] : i \in 1 .. Len(Append(s, o))} = {s[i] : i \in 1 .. Len(s)} \cup {o}
         /\ Unrepeated(s) /\ o \notin {s[i] : i \in 1 .. Len(s)} => Unrepeated(Append(s, o))
<1> DEFINE t == Append(s, o)
           n == Len(s)
<1>1. /\ t \in Seq(S) /\ n \in Nat /\ Len(t) = n + 1
      /\ \A i \in 1 .. n : t[i] = s[i]
      /\ t[n + 1] = o
  BY AppendProperties
<1> HIDE DEF t, n
<1>2. \A i \in 1 .. n + 1 : i = n + 1 \/ i \in 1 .. n
  BY <1>1
<1>3. n + 1 \in 1 .. n + 1 /\ \A i \in 1 .. n : i \in 1 .. n + 1
  BY <1>1
<1>4. {t[i] : i \in 1 .. n + 1} = {s[i] : i \in 1 .. n} \cup {o}
  BY <1>1, <1>2, <1>3
<1>5. ASSUME \A i, j \in 1 .. n : s[i] = s[j] => i = j, o \notin {s[i] : i \in 1 .. n}
      PROVE  \A i, j \in 1 .. n + 1 : t[i] = t[j] => i = j
  BY <1>1, <1>2, <1>5
<1> QED
  BY <1>1, <1>4, <1>5 DEF Unrepeated, t, n

-----------------------------------------------------------------------------
\* Numbered and Agree for any numbers.
NumberedBy(m, num) == \A i \in 1 .. Len(m.db) : m.db[i] # Null => num[m.db[i]] = i - 1

AgreeBy(m, num) ==
  /\ \A i \in 1 .. Len(m.db) : m.db[i] # Null =>
       /\ num[m.db[i]] = i - 1
       /\ Name[m.db[i]] \in DOMAIN m.index
       /\ m.index[Name[m.db[i]]] = i - 1
  /\ \A x \in DOMAIN m.index : InstalledObject(m, x) # Null /\ Name[InstalledObject(m, x)] = x

\* A manager with one object more, which gets the next number.
LEMMA InstallManager ==
  ASSUME NEW S, Null \notin S, NEW m, ManagerType(m, S), NEW o \in S, o \notin Stored(m),
         NEW num, NEW num2, NumberedBy(m, num),
         num2[o] = Len(m.db), \A p \in S \ {o} : num2[p] = num[p],
         NEW k, k = Install(m, o)
  PROVE  /\ ManagerType(k, S) /\ k.done = m.done
         /\ Stored(k) = Stored(m) \cup {o}
         /\ NumberedBy(k, num2)
         /\ Len(m.db) \in Nat /\ Len(k.db) = Len(m.db) + 1
         /\ \A n \in Nat : ObjectAt(k, n) = IF n = Len(m.db) THEN o ELSE ObjectAt(m, n)
<1> DEFINE d == m.db
           e == k.db
<1>1. k.db = Append(m.db, o) /\ k.done = m.done
  BY DEF Install
<1>2. d \in Seq(S \cup {Null}) /\ m.done \in Seq(S)
  BY DEF ManagerType
<1>3. /\ e \in Seq(S \cup {Null}) /\ Len(d) \in Nat /\ Len(e) = Len(d) + 1
      /\ \A i \in 1 .. Len(d) : e[i] = d[i]
      /\ e[Len(d) + 1] = o
  BY <1>1, <1>2, AppendProperties
<1>4. /\ \A i \in 1 .. Len(d) : d[i] # Null => num[d[i]] = i - 1
      /\ \A i \in 1 .. Len(d) : d[i] # Null => d[i] \in S \ {o}
  <2>1. \A i \in 1 .. Len(d) : d[i] \in S \cup {Null}
    BY <1>2, ElementOfSeq
  <2> QED
    BY <2>1 DEF NumberedBy, Stored
<1> HIDE DEF d, e
<1>5. \A i \in 1 .. Len(e) : i \in 1 .. Len(d) \/ i = Len(d) + 1
  BY <1>3
<1>6. NumberedBy(k, num2)
  <2>1. ASSUME NEW i \in 1 .. Len(e), e[i] # Null PROVE num2[e[i]] = i - 1
    <3>1. CASE i \in 1 .. Len(d)
      <4>1. e[i] = d[i] /\ d[i] \in S \ {o} /\ num[d[i]] = i - 1
        BY <1>3, <1>4, <2>1, <3>1
      <4> QED
        BY <4>1
    <3>2. CASE i = Len(d) + 1
      <4>1. e[i] = o /\ i - 1 = Len(d)
        BY <1>3, <3>2
      <4> QED
        BY <4>1 DEF d
    <3> QED
      BY <1>5, <3>1, <3>2
  <2> QED
    BY <2>1 DEF NumberedBy, e
<1>7. Stored(k) = Stored(m) \cup {o}
  <2>1. {e[i] : i \in 1 .. Len(e)} = {d[i] : i \in 1 .. Len(d)} \cup {o}
    <3>1. e = Append(d, o) /\ d \in Seq(S \cup {Null}) /\ o \in S \cup {Null}
      BY <1>1, <1>2 DEF d, e
    <3>2. {Append(d, o)[i] : i \in 1 .. Len(Append(d, o))} = {d[i] : i \in 1 .. Len(d)} \cup {o}
      BY <3>1, AppendMember
    <3> QED
      BY <3>1, <3>2
  <2>2. Stored(k) = {e[i] : i \in 1 .. Len(e)} \ {Null}
        /\ Stored(m) = {d[i] : i \in 1 .. Len(d)} \ {Null}
    BY DEF Stored, d, e
  <2> QED
    BY <2>1, <2>2
<1>8. ASSUME NEW n \in Nat PROVE ObjectAt(k, n) = IF n = Len(m.db) THEN o ELSE ObjectAt(m, n)
  <2>1. ObjectAt(k, n) = IF n < Len(e) THEN e[n + 1] ELSE Null
    BY DEF ObjectAt, e
  <2>2. ObjectAt(m, n) = IF n < Len(d) THEN d[n + 1] ELSE Null
    BY DEF ObjectAt, d
  <2>3. n < Len(d) => e[n + 1] = d[n + 1]
    <3>1. n < Len(d) => n + 1 \in 1 .. Len(d)
      BY <1>3
    <3> QED
      BY <1>3, <3>1
  <2> QED
    BY <1>3, <2>1, <2>2, <2>3 DEF d
<1>9. ManagerType(k, S)
  <2>1. \A x \in DOMAIN k.index : k.index[x] \in Nat
    BY <1>3 DEF Install, ManagerType, d
  <2> QED
    BY <1>1, <1>2, <1>3, <2>1 DEF ManagerType, e
<1> QED
  BY <1>1, <1>3, <1>6, <1>7, <1>8, <1>9 DEF d, e

\* The names still lead where the numbers do, if the name was free.
LEMMA InstallAgree ==
  ASSUME NEW S, Null \notin S, NEW m, ManagerType(m, S), NEW o \in S, o \notin Stored(m),
         NEW num, NEW num2, AgreeBy(m, num), InstalledObject(m, Name[o]) = Null,
         num2[o] = Len(m.db), \A p \in S \ {o} : num2[p] = num[p],
         NEW k, k = Install(m, o)
  PROVE  AgreeBy(k, num2)
<1> DEFINE d == m.db
           e == k.db
           x == Name[o]
<1>0. NumberedBy(m, num)
  BY DEF NumberedBy, AgreeBy
<1>1. /\ Len(d) \in Nat /\ Len(e) = Len(d) + 1 /\ NumberedBy(k, num2)
      /\ \A n \in Nat : ObjectAt(k, n) = IF n = Len(d) THEN o ELSE ObjectAt(m, n)
  BY <1>0, InstallManager
<1>2. /\ DOMAIN k.index = DOMAIN m.index \cup {x} /\ k.index[x] = Len(d)
      /\ \A y \in DOMAIN m.index \ {x} : k.index[y] = m.index[y]
  BY DEF Install
<1>3. x \notin DOMAIN m.index
  BY DEF AgreeBy
<1>4. \A y \in DOMAIN m.index : m.index[y] \in Nat /\ m.index[y] < Len(d)
  <2> SUFFICES ASSUME NEW y \in DOMAIN m.index PROVE m.index[y] < Len(d)
    BY DEF ManagerType
  <2>1. InstalledObject(m, y) # Null
    BY DEF AgreeBy
  <2> QED
    BY <2>1 DEF InstalledObject, ObjectAt
<1>5. \A i \in 1 .. Len(d) : d[i] # Null =>
        /\ d[i] \in S \ {o}
        /\ num[d[i]] = i - 1 /\ Name[d[i]] \in DOMAIN m.index /\ m.index[Name[d[i]]] = i - 1
  <2>1. \A i \in 1 .. Len(d) : d[i] \in S \cup {Null}
    BY ElementOfSeq DEF ManagerType
  <2> QED
    BY <2>1 DEF AgreeBy, Stored
<1>6. /\ \A i \in 1 .. Len(d) : e[i] = d[i]
      /\ e[Len(d) + 1] = o
      /\ \A i \in 1 .. Len(e) : i \in 1 .. Len(d) \/ i = Len(d) + 1
  <2>1. e = Append(d, o) /\ d \in Seq(S \cup {Null}) /\ o \in S \cup {Null}
    BY DEF Install, ManagerType
  <2>2. \A i \in 1 .. Len(e) : i \in 1 .. Len(d) \/ i = Len(d) + 1
    BY <1>1
  <2> HIDE DEF d, e
  <2> QED
    BY <2>1, <2>2, AppendProperties
<1> HIDE DEF d, e, x
<1>7. \A i \in 1 .. Len(e) : e[i] # Null =>
        /\ num2[e[i]] = i - 1 /\ Name[e[i]] \in DOMAIN k.index /\ k.index[Name[e[i]]] = i - 1
  <2> SUFFICES ASSUME NEW i \in 1 .. Len(e), e[i] # Null
               PROVE  /\ num2[e[i]] = i - 1 /\ Name[e[i]] \in DOMAIN k.index
                      /\ k.index[Name[e[i]]] = i - 1
    OBVIOUS
  <2>1. CASE i \in 1 .. Len(d)
    <3>1. /\ e[i] = d[i] /\ d[i] \in S \ {o} /\ num[d[i]] = i - 1
          /\ Name[d[i]] \in DOMAIN m.index /\ m.index[Name[d[i]]] = i - 1
      BY <1>5, <1>6, <2>1
    <3>2. Name[d[i]] \in DOMAIN m.index \ {x}
      BY <1>3, <3>1
    <3> QED
      BY <1>2, <3>1, <3>2
  <2>2. CASE i = Len(d) + 1
    <3>1. e[i] = o /\ i - 1 = Len(d)
      BY <1>1, <1>6, <2>2
    <3> QED
      BY <1>2, <3>1 DEF d, x
  <2> QED
    BY <1>6, <2>1, <2>2
<1>8. \A y \in DOMAIN k.index : InstalledObject(k, y) # Null /\ Name[InstalledObject(k, y)] = y
  <2> SUFFICES ASSUME NEW y \in DOMAIN k.index
               PROVE  InstalledObject(k, y) # Null /\ Name[InstalledObject(k, y)] = y
    OBVIOUS
  <2>1. CASE y = x
    <3>1. InstalledObject(k, y) = o
      BY <1>1, <1>2, <2>1 DEF InstalledObject
    <3> QED
      BY <2>1, <3>1 DEF x
  <2>2. CASE y # x
    <3>1. y \in DOMAIN m.index /\ k.index[y] = m.index[y]
      BY <1>2, <2>2
    <3>2. InstalledObject(k, y) = InstalledObject(m, y)
      BY <1>1, <1>4, <3>1 DEF InstalledObject
    <3> QED
      BY <3>1, <3>2 DEF AgreeBy
  <2> QED
    BY <2>1, <2>2
<1> QED
  BY <1>7, <1>8 DEF AgreeBy, e

\* A manager without the object of number n, which joins the done objects.
LEMMA DeleteManager ==
  ASSUME NEW S, Null \notin S, NEW m, ManagerType(m, S), NEW o \in S, NEW n \in Nat,
         NEW num, NumberedBy(m, num), NEW k, k = Delete(m, o, n)
  PROVE  /\ ManagerType(k, S)
         /\ Stored(k) \subseteq Stored(m)
         /\ num[o] = n => o \notin Stored(k)
         /\ NumberedBy(k, num)
         /\ Len(m.db) \in Nat /\ Len(k.db) = Len(m.db)
         /\ \A i \in Nat : ObjectAt(k, i) = IF i = n THEN Null ELSE ObjectAt(m, i)
<1> DEFINE d == m.db
           e == k.db
<1>1. d \in Seq(S \cup {Null}) /\ e = [d EXCEPT ![n + 1] = Null]
  BY DEF ManagerType, Delete
<1>2. Len(d) \in Nat /\ DOMAIN d = 1 .. Len(d) /\ \A i \in 1 .. Len(d) : d[i] \in S \cup {Null}
  BY <1>1, LenProperties, ElementOfSeq
<1> HIDE DEF d, e
<1>3. /\ e \in Seq(S \cup {Null}) /\ Len(e) = Len(d)
      /\ \A i \in 1 .. Len(d) : e[i] = IF i = n + 1 THEN Null ELSE d[i]
  <2>1. CASE n + 1 \in 1 .. Len(d)
    BY <1>1, <2>1, ExceptSeq
  <2>2. CASE n + 1 \notin 1 .. Len(d)
    <3>1. e = d
      BY <1>1, <1>2, <2>2
    <3> QED
      BY <1>1, <2>2, <3>1
  <2> QED
    BY <2>1, <2>2
<1>4. \A i \in 1 .. Len(d) : d[i] # Null => num[d[i]] = i - 1
  BY DEF NumberedBy, d
<1>5. NumberedBy(k, num)
  <2>1. \A i \in 1 .. Len(e) : e[i] # Null => num[e[i]] = i - 1
    BY <1>3, <1>4
  <2> QED
    BY <2>1 DEF NumberedBy, e
<1>6. Stored(k) \subseteq Stored(m)
  <2>1. \A i \in 1 .. Len(e) : e[i] # Null => i \in 1 .. Len(d) /\ e[i] = d[i]
    BY <1>3
  <2> QED
    BY <2>1 DEF Stored, d, e
<1>7. ASSUME num[o] = n, o \in Stored(k) PROVE FALSE
  <2>1. PICK i \in 1 .. Len(e) : e[i] = o /\ o # Null
    BY <1>7 DEF Stored, e
  <2>2. num[o] = i - 1 /\ i \in 1 .. Len(d) /\ e[i] # Null
    BY <1>3, <1>4, <2>1
  <2>3. i = n + 1
    BY <1>7, <2>2
  <2> QED
    BY <1>3, <2>2, <2>3
<1>8. ASSUME NEW i \in Nat PROVE ObjectAt(k, i) = IF i = n THEN Null ELSE ObjectAt(m, i)
  <2>1. ObjectAt(k, i) = IF i < Len(d) THEN e[i + 1] ELSE Null
    BY <1>3 DEF ObjectAt, e
  <2>2. ObjectAt(m, i) = IF i < Len(d) THEN d[i + 1] ELSE Null
    BY DEF ObjectAt, d
  <2>3. i < Len(d) => i + 1 \in 1 .. Len(d)
    BY <1>2
  <2>4. i < Len(d) => e[i + 1] = IF i = n THEN Null ELSE d[i + 1]
    BY <1>3, <2>3
  <2> QED
    BY <2>1, <2>2, <2>4
<1>9. ManagerType(k, S)
  <2>1. k.done \in Seq(S)
    <3>1. m.done \in Seq(S) /\ (DoneFull(m) => m.done # <<>>)
      <4>1. DoneFull(m) => m.done # <<>>
        BY ObjectAssumption, EmptySeq DEF DoneFull
      <4> QED
        BY <4>1 DEF ManagerType
    <3>2. DoneFull(m) => Tail(m.done) \in Seq(S)
      BY <3>1, HeadTailProperties
    <3> QED
      BY <3>1, <3>2, AppendProperties DEF Delete
  <2>2. \A x \in DOMAIN k.index : k.index[x] \in Nat
    BY DEF Delete, ManagerType
  <2> QED
    BY <1>3, <2>1, <2>2 DEF ManagerType, e
<1> QED
  BY <1>2, <1>3, <1>5, <1>6, <1>7, <1>8, <1>9 DEF d, e

\* The done objects afterwards, when o was not done before.
LEMMA DeleteDone ==
  ASSUME NEW S, NEW m, ManagerType(m, S), NEW o \in S, NEW n, NEW k, k = Delete(m, o, n)
  PROVE  /\ Evicted(m) \subseteq DoneOf(m)
         /\ DoneOf(k) \subseteq DoneOf(m) \cup {o}
         /\ Unrepeated(m.done) /\ o \notin DoneOf(m) =>
              Unrepeated(k.done) /\ DoneOf(k) \cap Evicted(m) = {}
<1>1. m.done \in Seq(S) /\ (DoneFull(m) => m.done # <<>>)
  <2>1. DoneFull(m) => m.done # <<>>
    BY ObjectAssumption, EmptySeq DEF DoneFull
  <2> QED
    BY <2>1 DEF ManagerType
<1>2. CASE ~DoneFull(m)
  <2>1. k.done = Append(m.done, o) /\ Evicted(m) = {}
    BY <1>2 DEF Delete, Evicted
  <2> QED
    BY <1>1, <2>1, AppendMember DEF DoneOf
<1>3. CASE DoneFull(m)
  <2> DEFINE d == m.done
             t == Tail(m.done)
  <2>1. k.done = Append(t, o) /\ Evicted(m) = {Head(d)}
    BY <1>3 DEF Delete, Evicted
  <2>2. d \in Seq(S) /\ d # <<>> /\ t \in Seq(S) /\ Head(d) = d[1]
        /\ Len(d) \in Nat \ {0} /\ Len(t) = Len(d) - 1
        /\ \A i \in 1 .. Len(t) : t[i] = d[i + 1]
    BY <1>1, <1>3, EmptySeq, HeadTailProperties
  <2> HIDE DEF d, t
  <2>3. Head(d) \in {d[i] : i \in 1 .. Len(d)}
    <3>1. 1 \in 1 .. Len(d)
      BY <2>2
    <3> QED
      BY <2>2, <3>1
  <2>4. {t[i] : i \in 1 .. Len(t)} \subseteq {d[i] : i \in 1 .. Len(d)}
    <3>1. \A i \in 1 .. Len(t) : i + 1 \in 1 .. Len(d)
      BY <2>2
    <3> QED
      BY <2>2, <3>1
  <2>5. DoneOf(k) = {t[i] : i \in 1 .. Len(t)} \cup {o} /\ DoneOf(m) = {d[i] : i \in 1 .. Len(d)}
    <3>1. DoneOf(k) = {Append(t, o)[i] : i \in 1 .. Len(Append(t, o))}
      BY <2>1 DEF DoneOf
    <3>2. {Append(t, o)[i] : i \in 1 .. Len(Append(t, o))} = {t[i] : i \in 1 .. Len(t)} \cup {o}
      BY <2>2, AppendMember
    <3> QED
      BY <3>1, <3>2 DEF DoneOf, d
  <2>6. ASSUME Unrepeated(d), o \notin DoneOf(m)
        PROVE  Unrepeated(k.done) /\ DoneOf(k) \cap Evicted(m) = {}
    <3>1. Unrepeated(t) /\ Head(d) \notin {t[i] : i \in 1 .. Len(t)}
      BY <2>2, <2>6, HeadTail DEF d, t
    <3>2. Unrepeated(Append(t, o))
      BY <2>2, <2>4, <2>5, <2>6, <3>1, AppendMember
    <3> QED
      BY <2>1, <2>3, <2>5, <2>6, <3>1, <3>2
  <2> QED
    BY <2>1, <2>3, <2>4, <2>5, <2>6 DEF d
<1> QED
  BY <1>2, <1>3

\* The names still lead where the numbers do.
LEMMA DeleteAgree ==
  ASSUME NEW S, Null \notin S, NEW m, ManagerType(m, S), NEW o \in S, NEW n \in Nat,
         NEW num, AgreeBy(m, num), ObjectAt(m, n) = o, NEW k, k = Delete(m, o, n)
  PROVE  AgreeBy(k, num)
<1>0. NumberedBy(m, num)
  BY DEF NumberedBy, AgreeBy
<1>1. /\ Len(m.db) \in Nat /\ Len(k.db) = Len(m.db) /\ NumberedBy(k, num)
      /\ \A i \in Nat : ObjectAt(k, i) = IF i = n THEN Null ELSE ObjectAt(m, i)
  BY <1>0, DeleteManager
<1>2. /\ DOMAIN k.index = DOMAIN m.index \ {Name[o]}
      /\ \A y \in DOMAIN m.index \ {Name[o]} : k.index[y] = m.index[y]
  BY DEF Delete
<1>3. Name[o] \in DOMAIN m.index /\ m.index[Name[o]] = n /\ n < Len(m.db) /\ m.db[n + 1] = o
  <2>1. n < Len(m.db) /\ m.db[n + 1] = o
    BY DEF ObjectAt
  <2>2. n + 1 \in 1 .. Len(m.db) /\ (n + 1) - 1 = n
    BY <1>1, <2>1
  <2> QED
    BY <2>1, <2>2 DEF AgreeBy
<1>4. \A i \in 1 .. Len(m.db) : i - 1 \in Nat /\ (i - 1) + 1 = i /\ i - 1 < Len(m.db)
  BY <1>1
<1>5. \A i \in 1 .. Len(k.db) : k.db[i] # Null =>
        /\ num[k.db[i]] = i - 1 /\ Name[k.db[i]] \in DOMAIN k.index
        /\ k.index[Name[k.db[i]]] = i - 1
  <2> SUFFICES ASSUME NEW i \in 1 .. Len(m.db), k.db[i] # Null
               PROVE  /\ num[k.db[i]] = i - 1 /\ Name[k.db[i]] \in DOMAIN k.index
                      /\ k.index[Name[k.db[i]]] = i - 1
    BY <1>1
  <2>1. ObjectAt(k, i - 1) = k.db[i] /\ ObjectAt(m, i - 1) = m.db[i]
    BY <1>1, <1>4 DEF ObjectAt
  <2>2. i - 1 # n /\ k.db[i] = m.db[i]
    BY <1>1, <1>4, <2>1
  <2>3. /\ num[m.db[i]] = i - 1 /\ Name[m.db[i]] \in DOMAIN m.index
        /\ m.index[Name[m.db[i]]] = i - 1
    BY <2>2 DEF AgreeBy
  <2>4. Name[m.db[i]] # Name[o]
    BY <1>3, <2>2, <2>3
  <2> QED
    BY <1>2, <2>2, <2>3, <2>4
<1>6. \A y \in DOMAIN k.index : InstalledObject(k, y) # Null /\ Name[InstalledObject(k, y)] = y
  <2> SUFFICES ASSUME NEW y \in DOMAIN k.index
               PROVE  InstalledObject(k, y) # Null /\ Name[InstalledObject(k, y)] = y
    OBVIOUS
  <2>1. y \in DOMAIN m.index /\ y # Name[o] /\ k.index[y] = m.index[y] /\ m.index[y] \in Nat
    BY <1>2 DEF ManagerType
  <2>2. InstalledObject(m, y) # Null /\ Name[InstalledObject(m, y)] = y
    BY <2>1 DEF AgreeBy
  <2>3. m.index[y] # n
    BY <2>1, <2>2 DEF InstalledObject
  <2>4. InstalledObject(k, y) = InstalledObject(m, y)
    BY <1>1, <2>1, <2>3 DEF InstalledObject
  <2> QED
    BY <2>2, <2>4
<1> QED
  BY <1>5, <1>6 DEF AgreeBy

-----------------------------------------------------------------------------

LEMMA HeadWaits ==
  ASSUME CallType, work.rest # <<>>
  PROVE  Head(work.rest) \in Waiting
<1>1. work.rest \in Seq(Objects)
  BY DEF CallType, IsCall
<1>2. 1 \in 1 .. Len(work.rest) /\ Head(work.rest) = work.rest[1]
  BY <1>1, LenProperties, EmptySeq, HeadTailProperties
<1> QED
  BY <1>2 DEF Waiting

\* The call goes on to the next object of its list.
LEMMA CallGoesOn ==
  ASSUME CallType, work.rest # <<>>,
         IsCall',
         work'.op = work.op, work'.rest = Tail(work.rest)
  PROVE  /\ CallType' /\ Head(work.rest) \in Waiting /\ Head(work.rest) \in Objects
         /\ Waiting' = Waiting \ {Head(work.rest)}
         /\ Adding' = Adding \ {Head(work.rest)} /\ Removing' = Removing \ {Head(work.rest)}
<1> DEFINE s == work.rest
           t == Tail(work.rest)
<1>1. s \in Seq(Objects) /\ s # <<>> /\ Unrepeated(s)
  BY DEF CallType, IsCall
<1>2. /\ Head(s) \in Objects /\ t \in Seq(Objects) /\ Unrepeated(t)
      /\ {s[i] : i \in 1 .. Len(s)} = {t[i] : i \in 1 .. Len(t)} \cup {Head(s)}
      /\ Head(s) \notin {t[i] : i \in 1 .. Len(t)}
  BY <1>1, HeadTail
<1>3. Waiting = {s[i] : i \in 1 .. Len(s)} /\ Waiting' = {t[i] : i \in 1 .. Len(t)}
  BY DEF Waiting
<1>4. Waiting' = Waiting \ {Head(s)} /\ Head(s) \in Waiting
  BY <1>2, <1>3
<1>5. Adding' = Adding \ {Head(s)} /\ Removing' = Removing \ {Head(s)}
  BY <1>4 DEF Adding, Removing
<1>6. work.op # "idle"
  BY DEF CallType
<1>7. /\ work'.op # "idle"
      /\ work'.op \in {"add auctions", "remove auctions"} => Waiting' \subseteq Auctions
      /\ work'.op \in {"add bids", "remove bids"} => Waiting' \subseteq Bids
  BY <1>4, <1>6 DEF CallType
<1>8. Unrepeated(work'.rest)
  BY <1>2
<1>9. CallType'
  BY <1>7, <1>8 DEF CallType, Unrepeated
<1> QED
  BY <1>2, <1>4, <1>5, <1>9

\* The call is over.
LEMMA CallEnds ==
  ASSUME work' = Idle
  PROVE  CallType' /\ Waiting' = {} /\ Adding' = {} /\ Removing' = {} /\ work'.added = {}
<1>1. /\ work'.op = "idle" /\ work'.rest = <<>> /\ work'.size = 0 /\ work'.added = {}
      /\ work' = [op |-> "idle", rest |-> <<>>, size |-> 0, added |-> {}]
  BY DEF Idle
<1>2. Len(<<>>) = 0 /\ <<>> \in Seq(Objects)
  BY EmptySeq
<1>3. Waiting' = {}
  BY <1>1, <1>2 DEF Waiting
<1>4. Adding' = {} /\ Removing' = {}
  BY <1>1 DEF Adding, Removing
<1>5. Unrepeated(work.rest)'
  BY <1>1, <1>2 DEF Unrepeated
<1>6. IsCall'
  BY <1>1, <1>2 DEF IsCall, Operations
<1>7. CallType'
  BY <1>1, <1>5, <1>6 DEF CallType, IsCall
<1> QED
  BY <1>1, <1>3, <1>4, <1>7

\* The call begins with a list of auctions or a list of bids.
LEMMA CallBegins ==
  ASSUME NEW op \in {"add auctions", "add bids", "remove auctions", "remove bids"},
         NEW S \in SUBSET Objects, NEW list \in Lists(S), Begin(op, list),
         op \in {"add auctions", "remove auctions"} => S \subseteq Auctions,
         op \in {"add bids", "remove bids"} => S \subseteq Bids
  PROVE  /\ CallType' /\ work'.op = op /\ work'.added = {}
         /\ Waiting' = Range(list) /\ Waiting' \subseteq S
<1>1. list \in Seq(S) /\ Unrepeated(list) /\ Len(list) \in Nat
  BY ListMembers
<1>2. /\ work' = [op |-> op, rest |-> list, size |-> Len(list), added |-> {}]
      /\ work'.op = op /\ work'.rest = list /\ work'.added = {}
  BY DEF Begin
<1>3. list \in Seq(Objects)
  BY <1>1, SeqMonotonic
<1>4. Waiting' = {list[i] : i \in 1 .. Len(list)}
  BY <1>2 DEF Waiting
<1>5. {list[i] : i \in 1 .. Len(list)} = Range(list) /\ \A i \in 1 .. Len(list) : list[i] \in S
  BY <1>1, RangeMembers, ElementOfSeq
<1>6. Waiting' = Range(list) /\ Waiting' \subseteq S
  BY <1>4, <1>5
<1>7. IsCall'
  <2>1. op \in Operations
    BY DEF Operations
  <2> QED
    BY <1>2, <1>3, <2>1 DEF IsCall
<1>8. Unrepeated(work.rest)'
  BY <1>1, <1>2 DEF Unrepeated
<1>9. CallType'
  BY <1>2, <1>6, <1>7, <1>8 DEF CallType, IsCall
<1> QED
  BY <1>2, <1>6, <1>9

\* A step that leaves the manager of auctions alone.
LEMMA AuctionsKept ==
  ASSUME ObjectInv, auctions' = auctions, \A o \in Auctions : number'[o] = number[o],
         Awaited' \cap Auctions \subseteq Awaited, gone' \cap DoneOf(auctions) = {}
  PROVE  /\ ManagerType(auctions, Auctions)' /\ AuctionsSound'
         /\ Stored(auctions)' = Stored(auctions) /\ DoneOf(auctions)' = DoneOf(auctions)
<1>1. Stored(auctions)' = Stored(auctions) /\ DoneOf(auctions)' = DoneOf(auctions)
  BY DEF Stored, DoneOf
<1>2. ManagerType(auctions, Auctions) /\ ManagerType(auctions, Auctions)'
  BY DEF ObjectInv, ObjectTypes, ManagerType
<1>3. \A i \in 1 .. Len(auctions.db) : auctions.db[i] # Null => auctions.db[i] \in Auctions
  BY <1>2, ElementOfSeq DEF ManagerType
<1>4. Numbered(auctions)'
  BY <1>3 DEF ObjectInv, AuctionsSound, Numbered
<1>5. Fresh(auctions)'
  BY <1>1 DEF ObjectInv, AuctionsSound, Fresh, Unrepeated
<1>6. Placed(auctions, Auctions)'
  BY DEF ObjectInv, AuctionsSound, Placed, ObjectAt
<1>7. Agree(auctions)'
  BY <1>3 DEF ObjectInv, AuctionsSound, Agree, InstalledObject, ObjectAt
<1> QED
  BY <1>1, <1>2, <1>4, <1>5, <1>6, <1>7 DEF AuctionsSound

\* A step that leaves the manager of bidding objects alone.
LEMMA BidsKept ==
  ASSUME ObjectInv, bids' = bids, byAuction' = byAuction, ~refused' => ~refused,
         \A o \in Bids : number'[o] = number[o],
         Awaited' \cap Bids \subseteq Awaited, ~refused' => gone' \cap DoneOf(bids) = {}
  PROVE  /\ ManagerType(bids, Bids)' /\ BidsSound'
         /\ Stored(bids)' = Stored(bids) /\ DoneOf(bids)' = DoneOf(bids)
<1>1. Stored(bids)' = Stored(bids) /\ DoneOf(bids)' = DoneOf(bids)
  BY DEF Stored, DoneOf
<1>2. ManagerType(bids, Bids) /\ ManagerType(bids, Bids)'
  BY DEF ObjectInv, ObjectTypes, ManagerType
<1>3. \A i \in 1 .. Len(bids.db) : bids.db[i] # Null => bids.db[i] \in Bids
  BY <1>2, ElementOfSeq DEF ManagerType
<1>4. Numbered(bids)'
  BY <1>3 DEF ObjectInv, BidsSound, Numbered
<1>5. ~refused' => Fresh(bids)'
  BY <1>1 DEF ObjectInv, BidsSound, Fresh, Unrepeated
<1>6. ~refused' => Placed(bids, Bids)'
  BY DEF ObjectInv, BidsSound, Placed, ObjectAt
<1>7. ~refused' => Agree(bids)'
  BY <1>3 DEF ObjectInv, BidsSound, Agree, InstalledObject, ObjectAt
<1>8. ~refused' => IndexedByAuction' /\ IndexBounded'
  BY DEF ObjectInv, BidsSound, IndexedByAuction, IndexBounded, ObjectAt
<1> QED
  BY <1>1, <1>2, <1>4, <1>5, <1>6, <1>7, <1>8 DEF BidsSound

LEMMA InitObjectInv == ObjectInit => ObjectInv
<1> SUFFICES ASSUME ObjectInit PROVE ObjectInv
  OBVIOUS
<1>0. /\ auctions = Empty /\ bids = Empty /\ byAuction = <<>> /\ work = Idle
      /\ number = [o \in Objects |-> 0] /\ removals = {} /\ read = {} /\ gone = {}
      /\ refused = FALSE /\ fault = "none"
      /\ Empty.db = <<>> /\ Empty.index = <<>> /\ Empty.done = <<>>
      /\ Idle.op = "idle" /\ Idle.rest = <<>> /\ Idle.added = {}
  BY DEF ObjectInit, Empty, Idle
<1>1. Len(<<>>) = 0 /\ 1 .. 0 = {} /\ DOMAIN <<>> = {}
  OBVIOUS
<1>2. Waiting = {} /\ Awaited = {} /\ Adding = {}
  BY <1>0, <1>1 DEF Waiting, Awaited, Removing, Adding
<1>3. Stored(auctions) = {} /\ Stored(bids) = {} /\ DoneOf(auctions) = {} /\ DoneOf(bids) = {}
  BY <1>0, <1>1 DEF Stored, DoneOf
<1>4. ObjectTypes
  <2>1. ManagerType(auctions, Auctions) /\ ManagerType(bids, Bids)
    BY <1>0, <1>1, EmptySeq DEF ManagerType
  <2>2. Unrepeated(work.rest)
    BY <1>0, <1>1 DEF Unrepeated
  <2>3. IsCall
    BY <1>0, EmptySeq DEF IsCall, Operations, Idle
  <2>4. CallType
    BY <1>0, <1>2, <2>2, <2>3 DEF CallType, IsCall
  <2> QED
    BY <1>0, <2>1, <2>4 DEF ObjectTypes
<1>5. Lifecycle
  BY <1>0, <1>2, <1>3 DEF Lifecycle
<1>6. \A m \in {auctions, bids} : Numbered(m) /\ Fresh(m) /\ Agree(m)
  BY <1>0, <1>1, <1>3 DEF Numbered, Fresh, Unrepeated, Agree
<1>7. Placed(auctions, Auctions) /\ Placed(bids, Bids)
  BY <1>2 DEF Placed
<1>8. IndexedByAuction /\ IndexBounded
  BY <1>0, <1>1 DEF IndexedByAuction, IndexBounded
<1> QED
  BY <1>0, <1>4, <1>5, <1>6, <1>7, <1>8
    DEF ObjectInv, AuctionsSound, BidsSound, Blameless

-----------------------------------------------------------------------------
\* A step that moves no object into or out of a manager.
LEMMA Steady ==
  ASSUME ObjectInv, UNCHANGED <<auctions, bids, byAuction, number>>,
         CallType', removals' \subseteq Objects, read \subseteq read', read' \subseteq Objects,
         refused' \in BOOLEAN, ~refused' => ~refused, Blameless',
         Awaited' \subseteq Awaited, Waiting' \subseteq read',
         Waiting' \cap (removals' \cup work'.added) = {},
         Waiting' \cap (DoneOf(auctions) \cup DoneOf(bids) \cup gone') = {},
         Adding' \cap (Stored(auctions) \cup Stored(bids)) = {},
         gone \subseteq gone', gone' \subseteq read,
         (gone' \ gone) \cap (Awaited \cup Stored(auctions) \cup Stored(bids)
                                \cup DoneOf(auctions) \cup DoneOf(bids)) = {}
  PROVE  ObjectInv'
<1>1. Lifecycle /\ number \in [Objects -> Nat] /\ Auctions \subseteq Objects /\ Bids \subseteq Objects
  BY DEF ObjectInv, ObjectTypes, Objects
<1>2. /\ gone \cap DoneOf(auctions) = {}
      /\ ~refused => gone \cap DoneOf(bids) = {}
  BY DEF ObjectInv, AuctionsSound, BidsSound, Fresh
<1>3. /\ ManagerType(auctions, Auctions)' /\ AuctionsSound'
      /\ Stored(auctions)' = Stored(auctions) /\ DoneOf(auctions)' = DoneOf(auctions)
  BY <1>2, AuctionsKept
<1>4. /\ ManagerType(bids, Bids)' /\ BidsSound'
      /\ Stored(bids)' = Stored(bids) /\ DoneOf(bids)' = DoneOf(bids)
  BY <1>2, BidsKept
<1>5. ObjectTypes'
  BY <1>1, <1>3, <1>4 DEF ObjectTypes
<1>6. Lifecycle'
  <2>1. /\ (Waiting' \cup Awaited') \cup Stored(auctions) \cup Stored(bids) \subseteq read'
        /\ DoneOf(auctions) \cup DoneOf(bids) \cup gone' \subseteq read'
    BY <1>1 DEF Lifecycle
  <2>2. (Awaited' \cup Stored(auctions) \cup Stored(bids))
          \cap (DoneOf(auctions) \cup DoneOf(bids) \cup gone') = {}
    BY <1>1 DEF Lifecycle
  <2> QED
    BY <1>3, <1>4, <2>1, <2>2 DEF Lifecycle
<1> QED
  BY <1>3, <1>4, <1>5, <1>6 DEF ObjectInv

LEMMA AddObjectsInv ==
  ASSUME ObjectInv,
         \/ AddObjects("add auctions", Auctions)
         \/ AddObjects("add bids", Bids)
  PROVE  ObjectInv'
<1>1. PICK op, S :
        /\ AddObjects(op, S)
        /\ \/ op = "add auctions" /\ S = Auctions
           \/ op = "add bids" /\ S = Bids
  OBVIOUS
<1>2. /\ work.op = "idle" /\ fault = "none" /\ \E list \in Lists(S \ read) :
             Begin(op, list) /\ read' = read \cup Range(list)
      /\ UNCHANGED <<auctions, bids, byAuction, number, removals, gone, refused, fault>>
  BY <1>1 DEF AddObjects, Quiet
<1>3. PICK list \in Lists(S \ read) : Begin(op, list) /\ read' = read \cup Range(list)
  BY <1>2
<1>4. S \ read \in SUBSET Objects /\ op \in {"add auctions", "add bids", "remove auctions", "remove bids"}
  BY <1>1 DEF Objects
<1>5. /\ op \in {"add auctions", "remove auctions"} => S \ read \subseteq Auctions
      /\ op \in {"add bids", "remove bids"} => S \ read \subseteq Bids
  BY <1>1
<1>6. /\ CallType' /\ work'.op = op /\ work'.added = {}
      /\ Waiting' = Range(list) /\ Waiting' \subseteq S \ read
  BY <1>3, <1>4, <1>5, CallBegins
<1>7. Adding' = Waiting' /\ Removing' = {}
  BY <1>1, <1>6 DEF Adding, Removing
<1>8. Lifecycle /\ removals \subseteq Objects /\ read \subseteq Objects /\ refused \in BOOLEAN /\ Blameless
  BY DEF ObjectInv, ObjectTypes
<1>9. Awaited' \subseteq Awaited
  BY <1>2, <1>6, <1>7 DEF Awaited
<1>10. Blameless'
  BY <1>2, <1>8 DEF Blameless
<1>11. Waiting' \cap read = {}
  BY <1>6
<1>12. removals \subseteq read
  BY <1>8 DEF Lifecycle, Awaited
<1>13. /\ Stored(auctions) \cup Stored(bids) \subseteq read
       /\ DoneOf(auctions) \cup DoneOf(bids) \cup gone \subseteq read
  BY <1>8 DEF Lifecycle
<1>14. read \subseteq read' /\ read' \subseteq Objects /\ Waiting' \subseteq read'
  BY <1>3, <1>4, <1>6, <1>8
<1> QED
  BY <1>2, <1>6, <1>7, <1>8, <1>9, <1>10, <1>11, <1>12, <1>13, <1>14, Steady

LEMMA FinishAddInv ==
  ASSUME ObjectInv, FinishAdd
  PROVE  ObjectInv'
<1>1. /\ removals' = removals \cup work.added /\ work' = Idle
      /\ UNCHANGED <<auctions, bids, byAuction, number, read, gone, refused, fault>>
  BY DEF FinishAdd
<1>2. CallType' /\ Waiting' = {} /\ Adding' = {} /\ Removing' = {} /\ work'.added = {}
  BY <1>1, CallEnds
<1>3. /\ Lifecycle /\ removals \subseteq Objects /\ work.added \subseteq Objects
      /\ read \subseteq Objects /\ refused \in BOOLEAN /\ Blameless
  BY DEF ObjectInv, ObjectTypes, CallType, IsCall
<1>4. Awaited' \subseteq Awaited
  BY <1>1, <1>2 DEF Awaited
<1>5. Blameless' /\ gone \subseteq read
  BY <1>1, <1>3 DEF Blameless, Lifecycle
<1> QED
  BY <1>1, <1>2, <1>3, <1>4, <1>5, Steady

LEMMA RemoveObjectsInv ==
  ASSUME ObjectInv,
         \/ RemoveObjects("remove auctions", Auctions)
         \/ RemoveObjects("remove bids", Bids)
  PROVE  ObjectInv'
<1>1. PICK op, S :
        /\ RemoveObjects(op, S)
        /\ \/ op = "remove auctions" /\ S = Auctions
           \/ op = "remove bids" /\ S = Bids
  OBVIOUS
<1>2. /\ \E list \in Lists(removals \cap S) :
             Begin(op, list) /\ removals' = removals \ Range(list)
      /\ UNCHANGED <<auctions, bids, byAuction, number, read, gone, refused, fault>>
  BY <1>1 DEF RemoveObjects
<1>3. PICK list \in Lists(removals \cap S) : Begin(op, list) /\ removals' = removals \ Range(list)
  BY <1>2
<1>4. removals \cap S \in SUBSET Objects
      /\ op \in {"add auctions", "add bids", "remove auctions", "remove bids"}
  BY <1>1 DEF Objects
<1>5. /\ op \in {"add auctions", "remove auctions"} => removals \cap S \subseteq Auctions
      /\ op \in {"add bids", "remove bids"} => removals \cap S \subseteq Bids
  BY <1>1
<1>6. /\ CallType' /\ work'.op = op /\ work'.added = {}
      /\ Waiting' = Range(list) /\ Waiting' \subseteq removals \cap S
  BY <1>3, <1>4, <1>5, CallBegins
<1>7. Adding' = {} /\ Removing' = Waiting'
  BY <1>1, <1>6 DEF Adding, Removing
<1>8. Lifecycle /\ removals \subseteq Objects /\ read \subseteq Objects /\ refused \in BOOLEAN /\ Blameless
  BY DEF ObjectInv, ObjectTypes
<1>9. Awaited' \subseteq removals /\ removals \subseteq Awaited
  BY <1>3, <1>6, <1>7 DEF Awaited
<1>10. Blameless'
  BY <1>2, <1>8 DEF Blameless
<1>11. removals \subseteq read /\ gone \subseteq read
       /\ removals \cap (DoneOf(auctions) \cup DoneOf(bids) \cup gone) = {}
  BY <1>8, <1>9 DEF Lifecycle
<1>12. /\ Waiting' \cap (removals' \cup work'.added) = {} /\ removals' \subseteq Objects
       /\ Waiting' \subseteq read /\ Waiting' \cap (DoneOf(auctions) \cup DoneOf(bids) \cup gone) = {}
  BY <1>3, <1>6, <1>8, <1>11
<1> QED
  BY <1>2, <1>6, <1>7, <1>8, <1>9, <1>10, <1>11, <1>12, Steady

LEMMA FinishRemoveInv ==
  ASSUME ObjectInv, FinishRemove
  PROVE  ObjectInv'
<1>1. /\ work' = Idle
      /\ UNCHANGED <<auctions, bids, byAuction, number, removals, read, gone, refused, fault>>
  BY DEF FinishRemove
<1>2. CallType' /\ Waiting' = {} /\ Adding' = {} /\ Removing' = {} /\ work'.added = {}
  BY <1>1, CallEnds
<1>3. /\ Lifecycle /\ removals \subseteq Objects
      /\ read \subseteq Objects /\ refused \in BOOLEAN /\ Blameless
  BY DEF ObjectInv, ObjectTypes
<1>4. Awaited' \subseteq Awaited
  BY <1>1, <1>2 DEF Awaited
<1>5. Blameless' /\ gone \subseteq read
  BY <1>1, <1>3 DEF Blameless, Lifecycle
<1> QED
  BY <1>1, <1>2, <1>3, <1>4, <1>5, Steady

\* A step of nothing but a fault, and of the flag.
LEMMA FaultInv ==
  ASSUME ObjectInv, UNCHANGED <<auctions, bids, byAuction, number, removals, work, read, gone>>,
         refused' \in BOOLEAN, ~refused' => ~refused, Blameless'
  PROVE  ObjectInv'
<1>1. Waiting' = Waiting /\ Adding' = Adding /\ Removing' = Removing /\ Awaited' = Awaited
  BY DEF Waiting, Adding, Removing, Awaited
<1>2. Lifecycle /\ CallType /\ removals \subseteq Objects /\ read \subseteq Objects
  BY DEF ObjectInv, ObjectTypes
<1>3. CallType'
  BY <1>1, <1>2 DEF CallType, IsCall, Unrepeated
<1>4. /\ Waiting \subseteq read /\ Waiting \cap (removals \cup work.added) = {}
      /\ Waiting \cap (DoneOf(auctions) \cup DoneOf(bids) \cup gone) = {}
      /\ Adding \cap (Stored(auctions) \cup Stored(bids)) = {} /\ gone \subseteq read
  BY <1>2 DEF Lifecycle
<1> QED
  BY <1>1, <1>2, <1>3, <1>4, Steady

LEMMA CrashInv ==
  ASSUME ObjectInv, Crash
  PROVE  ObjectInv'
<1>1. /\ work.rest # <<>> /\ fault = "none"
      /\ UNCHANGED <<auctions, bids, byAuction, number, removals, work, read, gone>>
      /\ refused' = (refused \/ work.op = "add bids")
  BY DEF Crash
<1>2. ObjectTypes /\ AuctionsSound /\ BidsSound /\ CallType
  BY DEF ObjectInv, ObjectTypes
<1>3. refused' \in BOOLEAN /\ (~refused' => ~refused /\ work.op # "add bids")
  BY <1>1, <1>2 DEF ObjectTypes
<1>4. Evicted(auctions) \subseteq DoneOf(auctions) /\ Evicted(bids) \subseteq DoneOf(bids)
  <2>1. \A o \in Auctions : Evicted(auctions) \subseteq DoneOf(auctions)
    BY <1>2, DeleteDone DEF ObjectTypes
  <2>2. \A o \in Bids : Evicted(bids) \subseteq DoneOf(bids)
    BY <1>2, DeleteDone DEF ObjectTypes
  <2>3. ASSUME NEW m, NEW S, S = {}, ManagerType(m, S) PROVE Evicted(m) = {}
    <3>1. m.done \in Seq({})
      BY <2>3 DEF ManagerType
    <3>2. Len(m.done) = 0
      <4>1. Len(m.done) \in Nat /\ \A i \in 1 .. Len(m.done) : m.done[i] \in {}
        BY <3>1, ElementOfSeq, LenProperties
      <4>2. Len(m.done) > 0 => 1 \in 1 .. Len(m.done)
        BY <4>1
      <4> QED
        BY <4>1, <4>2
    <3> QED
      BY <3>2, ObjectAssumption DEF Evicted, DoneFull
  <2> QED
    BY <1>2, <2>1, <2>2, <2>3 DEF ObjectTypes
<1>5. ~DoubleFree(auctions) /\ (~refused => ~DoubleFree(bids))
  BY <1>2, <1>4 DEF AuctionsSound, BidsSound, Fresh, DoubleFree
<1>6. ASSUME ~refused, work.op = "remove bids"
      PROVE  AuctionOf[Head(work.rest)] \in DOMAIN byAuction
  <2> DEFINE o == Head(work.rest)
             n == number[o]
  <2>1. o \in Waiting
    BY <1>1, <1>2, HeadWaits
  <2>2. o \in Awaited /\ o \in Bids
    BY <1>2, <1>6, <2>1 DEF CallType, Awaited, Removing
  <2>3. ObjectAt(bids, n) = o /\ n \in Nat /\ Len(bids.db) \in Nat /\ o # Null
    BY <1>2, <1>6, <2>2, ObjectAssumption, LenProperties
      DEF BidsSound, Placed, ObjectTypes, ManagerType, Objects
  <2>4. n \in 0 .. (Len(bids.db) - 1)
    BY <2>3 DEF ObjectAt
  <2>5. IndexedByAuction
    BY <1>2, <1>6 DEF BidsSound
  <2> HIDE DEF n
  <2> QED
    BY <2>2, <2>3, <2>4, <2>5 DEF IndexedByAuction
<1>7. Blameless'
  <2>1. CASE Doing("remove auctions") /\ DoubleFree(auctions)
    BY <1>5, <2>1
  <2>2. CASE Doing("remove bids")
    <3> SUFFICES ASSUME ~refused PROVE FALSE
      BY <1>1, <1>2, <2>2 DEF Blameless, ObjectTypes, Doing
    <3>1. DoubleFree(bids) \/ AuctionOf[Head(work.rest)] \notin DOMAIN byAuction
      BY <1>5, <2>2 DEF Crash, Doing
    <3> QED
      BY <1>5, <1>6, <2>2, <3>1 DEF Doing
  <2>3. CASE Doing("add bids")
    BY <1>1, <2>3 DEF Blameless, Doing
  <2> QED
    BY <2>1, <2>2, <2>3 DEF Crash
<1> QED
  BY <1>1, <1>3, <1>7, FaultInv

LEMMA GetInfoInv ==
  ASSUME ObjectInv, GetInfo \/ GetInfoOfSet
  PROVE  ObjectInv'
<1>1. /\ UNCHANGED <<auctions, bids, byAuction, number, removals, work, read, gone, refused>>
      /\ refused \in BOOLEAN
  BY DEF GetInfo, GetInfoOfSet, ObjectInv, ObjectTypes
<1>2. CASE GetInfo
  <2>1. PICK name, i : i \in DoneReads(bids, name) /\ bids.done[i] \in gone
    BY <1>2 DEF GetInfo
  <2>2. i \in 1 .. Len(bids.done)
    BY <2>1 DEF DoneReads
  <2>3. refused
    BY <2>1, <2>2 DEF ObjectInv, BidsSound, Fresh, DoneOf
  <2>4. Blameless'
    BY <1>1, <2>3 DEF Blameless
  <2> QED
    BY <1>1, <2>4, FaultInv
<1>3. CASE GetInfoOfSet
  <2>1. Blameless'
    BY <1>3 DEF Blameless, GetInfoOfSet
  <2> QED
    BY <1>1, <2>1, FaultInv
<1> QED
  BY <1>2, <1>3

-----------------------------------------------------------------------------
\* What is to be removed is still where its number says, with one object more.
LEMMA InstallPresent ==
  ASSUME NEW S, Null \notin S, NEW m, ManagerType(m, S), NEW o \in S, o \notin Stored(m),
         NEW num, NEW num2, NumberedBy(m, num), \A p \in S : num[p] \in Nat,
         num2[o] = Len(m.db), \A p \in S \ {o} : num2[p] = num[p],
         NEW k, k = Install(m, o),
         NEW p \in S, p # o => ObjectAt(m, num[p]) = p
  PROVE  ObjectAt(k, num2[p]) = p
<1>1. /\ Len(m.db) \in Nat
      /\ \A n \in Nat : ObjectAt(k, n) = IF n = Len(m.db) THEN o ELSE ObjectAt(m, n)
  BY InstallManager
<1>2. CASE p = o
  BY <1>1, <1>2
<1>3. CASE p # o
  <2>1. num2[p] = num[p] /\ num[p] \in Nat /\ ObjectAt(m, num[p]) = p /\ p # Null
    BY <1>3
  <2>2. num[p] # Len(m.db)
    BY <1>1, <2>1 DEF ObjectAt
  <2> QED
    BY <1>1, <2>1, <2>2
<1> QED
  BY <1>2, <1>3

LEMMA AddAuctionInv ==
  ASSUME ObjectInv, AddAuction
  PROVE  ObjectInv'
<1> DEFINE a == Head(work.rest)
<1>1. /\ work.op = "add auctions" /\ work.rest # <<>>
      /\ UNCHANGED <<bids, byAuction, removals, read, refused, fault>>
  BY DEF AddAuction, Doing
<1>2. /\ Lifecycle /\ CallType /\ IsCall /\ AuctionsSound /\ ManagerType(auctions, Auctions)
      /\ number \in [Objects -> Nat] /\ Auctions \subseteq Objects /\ Bids \subseteq Objects
      /\ Auctions \cap Bids = {} /\ Null \notin Auctions
      /\ removals \subseteq Objects /\ read \subseteq Objects /\ refused \in BOOLEAN /\ Blameless
  BY ObjectAssumption DEF ObjectInv, ObjectTypes, CallType, Objects
<1>3. Blameless' /\ a \in Waiting /\ a \in Auctions /\ a \in Objects
  <2>1. a \in Waiting
    BY <1>1, <1>2, HeadWaits
  <2> QED
    BY <1>1, <1>2, <2>1 DEF Blameless, CallType
<1>4. Adding = Waiting /\ Removing = {}
  BY <1>1 DEF Adding, Removing
<1>5. /\ a \notin Awaited /\ a \in read /\ a \notin Stored(auctions) \cup Stored(bids)
      /\ a \notin DoneOf(auctions) \cup DoneOf(bids) \cup gone
  BY <1>2, <1>3, <1>4 DEF Lifecycle, Awaited
<1> HIDE DEF a
<1>6. CASE InstalledObject(auctions, Name[a]) # Null
  <2>1. /\ gone' = gone \cup {a} /\ work' = [work EXCEPT !.rest = Tail(@)]
        /\ UNCHANGED <<auctions, number>>
    BY <1>6 DEF AddAuction, a
  <2>2. /\ work'.op = work.op /\ work'.rest = Tail(work.rest) /\ work'.added = work.added
        /\ work' = [op |-> work.op, rest |-> Tail(work.rest), size |-> work.size,
                    added |-> work.added]
    BY <1>2, <2>1 DEF IsCall
  <2>3. IsCall'
    BY <1>1, <1>2, <2>2, EmptySeq, HeadTailProperties DEF IsCall
  <2>4. /\ CallType' /\ Waiting' = Waiting \ {a}
        /\ Adding' = Adding \ {a} /\ Removing' = Removing \ {a}
    BY <1>1, <1>2, <2>2, <2>3, CallGoesOn DEF a
  <2>5. Awaited' = Awaited
    BY <1>1, <1>4, <2>2, <2>4 DEF Awaited
  <2>6. /\ Waiting' \subseteq read /\ Waiting' \cap (removals \cup work.added) = {}
        /\ Waiting' \cap (DoneOf(auctions) \cup DoneOf(bids) \cup gone') = {}
        /\ Adding' \cap (Stored(auctions) \cup Stored(bids)) = {} /\ gone' \subseteq read
    BY <1>2, <1>5, <2>1, <2>4 DEF Lifecycle
  <2>7. (gone' \ gone) \cap (Awaited \cup Stored(auctions) \cup Stored(bids)
                               \cup DoneOf(auctions) \cup DoneOf(bids)) = {}
    BY <1>5, <2>1
  <2>8. Waiting' \cap (removals' \cup work'.added) = {} /\ gone \subseteq gone' /\ read' = read
    BY <1>1, <2>1, <2>2, <2>6
  <2>9. UNCHANGED <<auctions, bids, byAuction, number>> /\ removals' = removals /\ refused' = refused
    BY <1>1, <2>1
  <2> QED
    BY <1>2, <1>3, <2>4, <2>5, <2>6, <2>7, <2>8, <2>9, Steady
<1>7. CASE InstalledObject(auctions, Name[a]) = Null
  <2>1. /\ auctions' = Install(auctions, a)
        /\ number' = [number EXCEPT ![a] = Len(auctions.db)]
        /\ work' = [work EXCEPT !.rest = Tail(@), !.added = @ \cup {a}] /\ gone' = gone
    BY <1>7 DEF AddAuction, a
  <2>2. /\ work'.op = work.op /\ work'.rest = Tail(work.rest) /\ work'.added = work.added \cup {a}
        /\ work' = [op |-> work.op, rest |-> Tail(work.rest), size |-> work.size,
                    added |-> work.added \cup {a}]
    BY <1>2, <2>1 DEF IsCall
  <2>3. IsCall'
    BY <1>1, <1>2, <1>3, <2>2, EmptySeq, HeadTailProperties DEF IsCall
  <2>4. /\ CallType' /\ Waiting' = Waiting \ {a}
        /\ Adding' = Adding \ {a} /\ Removing' = Removing \ {a}
    BY <1>1, <1>2, <2>2, <2>3, CallGoesOn DEF a
  <2>5. Awaited' = Awaited \cup {a}
    BY <1>1, <1>4, <2>2, <2>4 DEF Awaited
  <2>6. NumberedBy(auctions, number) /\ AgreeBy(auctions, number) /\ \A p \in Auctions : number[p] \in Nat
    BY <1>2 DEF AuctionsSound, Numbered, NumberedBy, Agree, AgreeBy
  <2>7. /\ number' \in [Objects -> Nat] /\ number'[a] = Len(auctions.db) /\ Len(auctions.db) \in Nat
        /\ \A p \in Objects \ {a} : number'[p] = number[p]
        /\ \A p \in Auctions \ {a} : number'[p] = number[p]
    <3>1. Len(auctions.db) \in Nat
      BY <1>2, LenProperties DEF ManagerType
    <3>2. /\ number' \in [Objects -> Nat] /\ number'[a] = Len(auctions.db)
          /\ \A p \in Objects \ {a} : number'[p] = number[p]
      BY <1>2, <1>3, <2>1, <3>1
    <3> QED
      BY <1>2, <3>1, <3>2
  <2>8. /\ Null \notin Auctions /\ ManagerType(auctions, Auctions) /\ a \in Auctions
        /\ a \notin Stored(auctions) /\ auctions' = Install(auctions, a)
        /\ number'[a] = Len(auctions.db) /\ \A p \in Auctions \ {a} : number'[p] = number[p]
        /\ \A p \in Auctions : number[p] \in Nat
    BY <1>2, <1>3, <1>5, <2>1, <2>6, <2>7
  <2>9. /\ ManagerType(auctions', Auctions) /\ auctions'.done = auctions.done
        /\ Stored(auctions') = Stored(auctions) \cup {a} /\ NumberedBy(auctions', number')
    BY <2>6, <2>8, InstallManager
  <2>10. AgreeBy(auctions', number')
    BY <1>7, <2>6, <2>8, InstallAgree
  <2>16. \A p \in Awaited' \cap Auctions : ObjectAt(auctions', number'[p]) = p
    <3>1. \A p \in Awaited \cap Auctions : ObjectAt(auctions, number[p]) = p
      BY <1>2 DEF AuctionsSound, Placed
    <3> SUFFICES ASSUME NEW p \in Awaited' \cap Auctions
                 PROVE  ObjectAt(auctions', number'[p]) = p
      OBVIOUS
    <3>2. p \in Auctions /\ (p # a => ObjectAt(auctions, number[p]) = p)
      BY <2>5, <3>1
    <3> QED
      BY <2>6, <2>8, <3>2, InstallPresent
  <2>11. DoneOf(auctions)' = DoneOf(auctions) /\ Stored(auctions)' = Stored(auctions) \cup {a}
    BY <2>9 DEF DoneOf, Stored
  <2>12. ManagerType(auctions, Auctions)' /\ AuctionsSound'
    <3>1. Fresh(auctions)'
      BY <1>2, <2>1, <2>9, <2>11 DEF AuctionsSound, Fresh, Unrepeated
    <3> QED
      BY <2>9, <2>10, <2>16, <3>1
        DEF AuctionsSound, Numbered, NumberedBy, Agree, AgreeBy, Placed, ManagerType
  <2>13. /\ ManagerType(bids, Bids)' /\ BidsSound'
         /\ Stored(bids)' = Stored(bids) /\ DoneOf(bids)' = DoneOf(bids)
    <3>1. gone' \cap DoneOf(bids) = {} \/ refused'
      BY <1>1, <2>1 DEF ObjectInv, BidsSound, Fresh
    <3>2. \A o \in Bids : number'[o] = number[o]
      BY <1>2, <1>3, <2>7
    <3>3. Awaited' \cap Bids \subseteq Awaited
      BY <1>2, <1>3, <2>5
    <3> QED
      BY <1>1, <3>1, <3>2, <3>3, BidsKept
  <2>14. ObjectTypes'
    BY <1>1, <1>2, <2>4, <2>7, <2>12, <2>13 DEF ObjectTypes
  <2>15. Lifecycle'
    <3>1. (Waiting' \cup Awaited') = Waiting \cup Awaited
      BY <1>3, <2>4, <2>5
    <3>2. (Waiting \cup Awaited) \cup (Stored(auctions) \cup {a}) \cup Stored(bids) \subseteq read
      BY <1>2, <1>5 DEF Lifecycle
    <3>3. Waiting' \cap (removals \cup work.added \cup {a}) = {}
      BY <1>2, <2>4 DEF Lifecycle
    <3>4. Adding' \cap ((Stored(auctions) \cup {a}) \cup Stored(bids)) = {}
      BY <1>2, <2>4 DEF Lifecycle
    <3>5. ((Waiting \cup Awaited) \cup (Stored(auctions) \cup {a}) \cup Stored(bids))
            \cap (DoneOf(auctions) \cup DoneOf(bids) \cup gone) = {}
      BY <1>2, <1>5 DEF Lifecycle
    <3>6. DoneOf(auctions) \cup DoneOf(bids) \cup gone \subseteq read
      BY <1>2 DEF Lifecycle
    <3> QED
      BY <1>1, <2>1, <2>2, <2>11, <2>13, <3>1, <3>2, <3>3, <3>4, <3>5, <3>6 DEF Lifecycle
  <2> QED
    BY <1>3, <2>12, <2>13, <2>14, <2>15 DEF ObjectInv
<1> QED
  BY <1>6, <1>7

LEMMA InstallBidInv ==
  ASSUME ObjectInv, InstallBid
  PROVE  ObjectInv'
<1> DEFINE b == Head(work.rest)
<1>1. /\ work.op = "add bids" /\ work.rest # <<>>
      /\ InstalledObject(bids, Name[b]) = Null
      /\ bids' = Install(bids, b)
      /\ number' = [number EXCEPT ![b] = Len(bids.db)]
      /\ IndexBid(b)
      /\ work' = [work EXCEPT !.rest = Tail(@), !.added = @ \cup {b}]
      /\ UNCHANGED <<auctions, removals, read, gone, refused, fault>>
  BY DEF InstallBid, Doing
<1>2. /\ Lifecycle /\ CallType /\ IsCall /\ BidsSound /\ ManagerType(bids, Bids)
      /\ number \in [Objects -> Nat] /\ Auctions \subseteq Objects /\ Bids \subseteq Objects
      /\ Auctions \cap Bids = {} /\ Null \notin Bids
      /\ removals \subseteq Objects /\ read \subseteq Objects /\ refused \in BOOLEAN /\ Blameless
  BY ObjectAssumption DEF ObjectInv, ObjectTypes, CallType, Objects
<1>3. Blameless' /\ b \in Waiting /\ b \in Bids /\ b \in Objects
  <2>1. b \in Waiting
    BY <1>1, <1>2, HeadWaits
  <2> QED
    BY <1>1, <1>2, <2>1 DEF Blameless, CallType
<1>4. Adding = Waiting /\ Removing = {}
  BY <1>1 DEF Adding, Removing
<1>5. /\ b \notin Awaited /\ b \in read /\ b \notin Stored(auctions) \cup Stored(bids)
      /\ b \notin DoneOf(auctions) \cup DoneOf(bids) \cup gone
  BY <1>2, <1>3, <1>4 DEF Lifecycle, Awaited
<1> HIDE DEF b
<1>6. /\ CallType' /\ Waiting' = Waiting \ {b} /\ Awaited' = Awaited \cup {b}
      /\ Adding' = Adding \ {b} /\ work'.added = work.added \cup {b}
  <2>1. /\ work'.op = work.op /\ work'.rest = Tail(work.rest) /\ work'.added = work.added \cup {b}
        /\ work' = [op |-> work.op, rest |-> Tail(work.rest), size |-> work.size,
                    added |-> work.added \cup {b}]
    BY <1>1, <1>2 DEF IsCall
  <2>2. IsCall'
    <3>1. /\ work.rest \in Seq(Objects) /\ work.rest # <<>> /\ work.op \in Operations
          /\ work.added \cup {b} \subseteq Objects
      BY <1>1, <1>2, <1>3 DEF IsCall
    <3>2. Tail(work.rest) \in Seq(Objects)
      BY <3>1, EmptySeq, HeadTailProperties
    <3> QED
      BY <2>1, <3>1, <3>2 DEF IsCall
  <2>3. /\ CallType' /\ Waiting' = Waiting \ {b}
        /\ Adding' = Adding \ {b} /\ Removing' = Removing \ {b}
    BY <1>1, <1>2, <2>1, <2>2, CallGoesOn DEF b
  <2> QED
    BY <1>1, <1>4, <2>1, <2>3 DEF Awaited
<1>7. /\ number' \in [Objects -> Nat] /\ number'[b] = Len(bids.db) /\ Len(bids.db) \in Nat
      /\ \A p \in Objects \ {b} : number'[p] = number[p]
      /\ \A p \in Bids \ {b} : number'[p] = number[p]
  <2>1. Len(bids.db) \in Nat
    BY <1>2, LenProperties DEF ManagerType
  <2>2. /\ number' \in [Objects -> Nat] /\ number'[b] = Len(bids.db)
        /\ \A p \in Objects \ {b} : number'[p] = number[p]
    BY <1>1, <1>2, <1>3, <2>1
  <2> QED
    BY <1>2, <2>1, <2>2
<1>8. /\ NumberedBy(bids, number) /\ Null \notin Bids /\ ManagerType(bids, Bids) /\ b \in Bids
      /\ b \notin Stored(bids) /\ bids' = Install(bids, b)
      /\ number'[b] = Len(bids.db) /\ \A p \in Bids \ {b} : number'[p] = number[p]
      /\ \A p \in Bids : number[p] \in Nat
  <2>1. NumberedBy(bids, number) /\ \A p \in Bids : number[p] \in Nat
    BY <1>2 DEF BidsSound, Numbered, NumberedBy
  <2> QED
    BY <1>1, <1>2, <1>3, <1>5, <1>7, <2>1
<1>9. /\ ManagerType(bids', Bids) /\ bids'.done = bids.done
      /\ Stored(bids') = Stored(bids) \cup {b} /\ NumberedBy(bids', number')
      /\ Len(bids'.db) = Len(bids.db) + 1
      /\ \A n \in Nat : ObjectAt(bids', n) = IF n = Len(bids.db) THEN b ELSE ObjectAt(bids, n)
  BY <1>8, InstallManager
<1>10. DoneOf(bids)' = DoneOf(bids) /\ Stored(bids)' = Stored(bids) \cup {b}
  BY <1>9 DEF DoneOf, Stored
<1>11. ASSUME ~refused PROVE Fresh(bids)' /\ Placed(bids, Bids)' /\ Agree(bids)'
  <2>1. Fresh(bids)'
    BY <1>1, <1>2, <1>9, <1>10, <1>11 DEF BidsSound, Fresh, Unrepeated
  <2>2. AgreeBy(bids, number)
    BY <1>2, <1>11 DEF BidsSound, Agree, AgreeBy
  <2>3. AgreeBy(bids', number')
    <3>1. InstalledObject(bids, Name[b]) = Null
      BY <1>1
    <3> QED
      BY <1>8, <2>2, <3>1, InstallAgree
  <2>4. ASSUME NEW p \in Awaited' \cap Bids PROVE ObjectAt(bids', number'[p]) = p
    <3>1. p \in Bids /\ (p # b => ObjectAt(bids, number[p]) = p)
      BY <1>2, <1>6, <1>11 DEF BidsSound, Placed
    <3> QED
      BY <1>8, <3>1, InstallPresent
  <2> QED
    BY <2>1, <2>3, <2>4 DEF Agree, AgreeBy, Placed
<1>12. ASSUME ~refused PROVE IndexedByAuction' /\ IndexBounded'
  <2>1. /\ IndexedByAuction
        /\ \A x \in DOMAIN byAuction : \A n \in byAuction[x] : n \in 0 .. (Len(bids.db) - 1)
    BY <1>2, <1>12 DEF BidsSound, IndexBounded
  <2>2. /\ DOMAIN byAuction' = DOMAIN byAuction \cup {AuctionOf[b]}
        /\ \A x \in DOMAIN byAuction' :
             byAuction'[x] = (IF x \in DOMAIN byAuction THEN byAuction[x] ELSE {})
                               \cup (IF x = AuctionOf[b] THEN {Len(bids.db)} ELSE {})
    BY <1>1 DEF IndexBid
  <2>3. IndexBounded'
    <3> SUFFICES ASSUME NEW x \in DOMAIN byAuction', NEW n \in byAuction'[x]
                 PROVE  n \in 0 .. (Len(bids'.db) - 1)
      BY DEF IndexBounded
    <3>1. n \in 0 .. (Len(bids.db) - 1) \/ n = Len(bids.db)
      BY <2>1, <2>2
    <3> QED
      BY <1>7, <1>9, <3>1
  <2>4. ASSUME NEW n \in 0 .. (Len(bids'.db) - 1), NEW x \in {AuctionOf[c] : c \in Bids}
        PROVE  (x \in DOMAIN byAuction' /\ n \in byAuction'[x])
                 <=> (ObjectAt(bids', n) # Null /\ AuctionOf[ObjectAt(bids', n)] = x)
    <3>1. CASE n = Len(bids.db)
      <4>1. ObjectAt(bids', n) = b /\ b # Null
        BY <1>7, <1>8, <1>9, <3>1
      <4>2. x \in DOMAIN byAuction => n \notin byAuction[x]
        BY <1>7, <2>1, <3>1
      <4> QED
        BY <2>2, <3>1, <4>1, <4>2
    <3>2. CASE n # Len(bids.db)
      <4>1. n \in 0 .. (Len(bids.db) - 1) /\ n \in Nat
        BY <1>7, <1>9, <3>2
      <4>2. ObjectAt(bids', n) = ObjectAt(bids, n)
        BY <1>9, <3>2, <4>1
      <4>3. (x \in DOMAIN byAuction' /\ n \in byAuction'[x])
              <=> (x \in DOMAIN byAuction /\ n \in byAuction[x])
        BY <2>2, <3>2
      <4>4. (x \in DOMAIN byAuction /\ n \in byAuction[x])
              <=> (ObjectAt(bids, n) # Null /\ AuctionOf[ObjectAt(bids, n)] = x)
        BY <2>1, <4>1 DEF IndexedByAuction
      <4> QED
        BY <4>2, <4>3, <4>4
    <3> QED
      BY <3>1, <3>2
  <2> QED
    BY <2>3, <2>4 DEF IndexedByAuction, ObjectAt
<1>13. ManagerType(bids, Bids)' /\ BidsSound'
  BY <1>1, <1>9, <1>11, <1>12 DEF BidsSound, Numbered, NumberedBy, ManagerType
<1>14. /\ ManagerType(auctions, Auctions)' /\ AuctionsSound'
       /\ Stored(auctions)' = Stored(auctions) /\ DoneOf(auctions)' = DoneOf(auctions)
  <2>1. gone' \cap DoneOf(auctions) = {}
    BY <1>1 DEF ObjectInv, AuctionsSound, Fresh
  <2>2. \A o \in Auctions : number'[o] = number[o]
    BY <1>2, <1>3, <1>7
  <2>3. Awaited' \cap Auctions \subseteq Awaited
    BY <1>2, <1>3, <1>6
  <2> QED
    BY <1>1, <2>1, <2>2, <2>3, AuctionsKept
<1>15. ObjectTypes'
  BY <1>1, <1>2, <1>6, <1>7, <1>13, <1>14 DEF ObjectTypes
<1>16. Lifecycle'
  <2>1. Waiting' \cup Awaited' = Waiting \cup Awaited
    BY <1>3, <1>6
  <2>2. (Waiting \cup Awaited) \cup Stored(auctions) \cup (Stored(bids) \cup {b}) \subseteq read
    BY <1>2, <1>5 DEF Lifecycle
  <2>3. Waiting' \cap (removals \cup (work.added \cup {b})) = {}
    BY <1>2, <1>6 DEF Lifecycle
  <2>4. Adding' \cap (Stored(auctions) \cup (Stored(bids) \cup {b})) = {}
    BY <1>2, <1>6 DEF Lifecycle
  <2>5. ((Waiting \cup Awaited) \cup Stored(auctions) \cup (Stored(bids) \cup {b}))
          \cap (DoneOf(auctions) \cup DoneOf(bids) \cup gone) = {}
    BY <1>2, <1>5 DEF Lifecycle
  <2>6. DoneOf(auctions) \cup DoneOf(bids) \cup gone \subseteq read
    BY <1>2 DEF Lifecycle
  <2> QED
    BY <1>1, <1>6, <1>10, <1>14, <2>1, <2>2, <2>3, <2>4, <2>5, <2>6 DEF Lifecycle
<1> QED
  BY <1>3, <1>13, <1>14, <1>15, <1>16 DEF ObjectInv

-----------------------------------------------------------------------------
\* A removal goes on, or the database ends it: what it deletes now is not awaited
\* any more, and nothing else becomes awaited.
LEMMA RemovalGoesOn ==
  ASSUME CallType, Lifecycle, work.rest # <<>>,
         work.op \in {"remove auctions", "remove bids"}, removals' \subseteq removals,
         work' = [work EXCEPT !.rest = Tail(@)] \/ work' = Idle
  PROVE  /\ CallType' /\ Waiting' \subseteq Waiting \ {Head(work.rest)}
         /\ Awaited' \subseteq Awaited \ {Head(work.rest)} /\ Adding' = {}
         /\ Waiting' \cap (removals' \cup work'.added) = {}
<1> DEFINE o == Head(work.rest)
<1>1. o \in Waiting /\ Waiting \cap (removals \cup work.added) = {} /\ Removing = Waiting
  BY HeadWaits DEF Lifecycle, Removing
<1>2. CASE work' = [work EXCEPT !.rest = Tail(@)]
  <2>1. /\ work'.op = work.op /\ work'.rest = Tail(work.rest) /\ work'.added = work.added
        /\ work' = [op |-> work.op, rest |-> Tail(work.rest), size |-> work.size,
                    added |-> work.added]
    BY <1>2 DEF CallType, IsCall
  <2>2. IsCall'
    <3>1. /\ work.rest \in Seq(Objects) /\ work.rest # <<>> /\ work.op \in Operations
          /\ work.added \subseteq Objects
      BY DEF CallType, IsCall
    <3>2. Tail(work.rest) \in Seq(Objects)
      BY <3>1, EmptySeq, HeadTailProperties
    <3> QED
      BY <2>1, <3>1, <3>2 DEF IsCall
  <2>3. CallType' /\ Waiting' = Waiting \ {o} /\ Removing' = Removing \ {o}
    BY <2>1, <2>2, CallGoesOn
  <2>4. Adding' = {}
    BY <2>1 DEF Adding
  <2> HIDE DEF o
  <2> QED
    BY <1>1, <2>1, <2>3, <2>4 DEF Awaited, o
<1>3. CASE work' = Idle
  <2>1. CallType' /\ Waiting' = {} /\ Adding' = {} /\ Removing' = {} /\ work'.added = {}
    BY <1>3, CallEnds
  <2> QED
    BY <1>1, <2>1 DEF Awaited
<1> QED
  BY <1>2, <1>3

\* The object that is removed was made, and is neither done nor deleted.
LEMMA RemovedObject ==
  ASSUME ObjectInv, work.rest # <<>>, work.op \in {"remove auctions", "remove bids"}
  PROVE  /\ Head(work.rest) \in Awaited /\ Head(work.rest) \in read
         /\ Head(work.rest) \in Objects /\ number[Head(work.rest)] \in Nat
         /\ work.op = "remove auctions" => Head(work.rest) \in Auctions
         /\ work.op = "remove bids" => Head(work.rest) \in Bids
         /\ Head(work.rest) \notin DoneOf(auctions) \cup DoneOf(bids) \cup gone
<1>1. CallType /\ Lifecycle /\ number \in [Objects -> Nat]
  BY DEF ObjectInv, ObjectTypes
<1>2. Head(work.rest) \in Waiting /\ Removing = Waiting
  BY <1>1, HeadWaits DEF Removing
<1>3. /\ work.op = "remove auctions" => Head(work.rest) \in Auctions
      /\ work.op = "remove bids" => Head(work.rest) \in Bids
  BY <1>1, <1>2 DEF CallType
<1>4. Head(work.rest) \in Objects
  BY <1>3 DEF Objects
<1> QED
  BY <1>1, <1>2, <1>3, <1>4 DEF Lifecycle, Awaited

\* What is still to be removed is where its number says, with one object less.
LEMMA DeletePresent ==
  ASSUME NEW S, Null \notin S, NEW m, ManagerType(m, S), NEW num, NumberedBy(m, num),
         NEW o \in S, num[o] \in Nat, ObjectAt(m, num[o]) = o, NEW k, k = Delete(m, o, num[o]),
         NEW p \in S, p # o, num[p] \in Nat, ObjectAt(m, num[p]) = p
  PROVE  ObjectAt(k, num[p]) = p
<1>1. \A i \in Nat : ObjectAt(k, i) = IF i = num[o] THEN Null ELSE ObjectAt(m, i)
  BY DeleteManager
<1> QED
  BY <1>1

LEMMA RemoveAuctionInv ==
  ASSUME ObjectInv, RemoveAuction
  PROVE  ObjectInv'
<1> DEFINE a == Head(work.rest)
<1>1. /\ work.op = "remove auctions" /\ work.rest # <<>>
      /\ auctions' = Delete(auctions, a, number[a])
      /\ removals' = {o \in removals : o \in Auctions => number[o] # number[a]}
      /\ gone' = gone \cup Evicted(auctions)
      /\ work' = [work EXCEPT !.rest = Tail(@)]
      /\ UNCHANGED <<bids, byAuction, number, read, refused, fault>>
  BY DEF RemoveAuction, Doing
<1>2. /\ Lifecycle /\ CallType /\ AuctionsSound /\ ManagerType(auctions, Auctions)
      /\ number \in [Objects -> Nat] /\ Auctions \subseteq Objects /\ Bids \subseteq Objects
      /\ Auctions \cap Bids = {} /\ Null \notin Auctions
      /\ removals \subseteq Objects /\ read \subseteq Objects /\ refused \in BOOLEAN /\ Blameless
      /\ Stored(bids) \subseteq Bids /\ DoneOf(bids) \subseteq Bids
  <2>1. Stored(bids) \subseteq Bids /\ DoneOf(bids) \subseteq Bids
    <3>1. bids.db \in Seq(Bids \cup {Null}) /\ bids.done \in Seq(Bids)
      BY DEF ObjectInv, ObjectTypes, ManagerType
    <3> QED
      BY <3>1, ElementOfSeq DEF Stored, DoneOf
  <2> QED
    BY <2>1, ObjectAssumption DEF ObjectInv, ObjectTypes, Objects
<1>3. /\ a \in Awaited /\ a \in read /\ a \in Auctions /\ number[a] \in Nat
      /\ a \notin DoneOf(auctions) \cup DoneOf(bids) \cup gone
  BY <1>1, RemovedObject
<1>4. /\ CallType' /\ Waiting' \subseteq Waiting \ {a} /\ Awaited' \subseteq Awaited \ {a}
      /\ Adding' = {} /\ Waiting' \cap (removals' \cup work'.added) = {}
  BY <1>1, <1>2, RemovalGoesOn
<1> HIDE DEF a
<1>5. /\ NumberedBy(auctions, number) /\ AgreeBy(auctions, number) /\ Fresh(auctions)
      /\ ObjectAt(auctions, number[a]) = a
      /\ Null \notin Auctions /\ ManagerType(auctions, Auctions) /\ a \in Auctions
      /\ number[a] \in Nat /\ auctions' = Delete(auctions, a, number[a])
  BY <1>1, <1>2, <1>3 DEF AuctionsSound, Numbered, NumberedBy, Agree, AgreeBy, Placed
<1>6. /\ ManagerType(auctions', Auctions) /\ Stored(auctions') \subseteq Stored(auctions)
      /\ a \notin Stored(auctions') /\ NumberedBy(auctions', number)
  BY <1>5, DeleteManager
<1>7. AgreeBy(auctions', number)
  BY <1>5, DeleteAgree
<1>8. /\ Evicted(auctions) \subseteq DoneOf(auctions)
      /\ DoneOf(auctions') \subseteq DoneOf(auctions) \cup {a}
      /\ Unrepeated(auctions.done) /\ a \notin DoneOf(auctions) =>
           Unrepeated(auctions'.done) /\ DoneOf(auctions') \cap Evicted(auctions) = {}
  BY <1>5, DeleteDone
<1>9. Stored(auctions)' = Stored(auctions') /\ DoneOf(auctions)' = DoneOf(auctions')
  BY DEF Stored, DoneOf
<1>10. Fresh(auctions)'
  <2>1. /\ Unrepeated(auctions.done) /\ DoneOf(auctions) \cap gone = {}
        /\ gone' = gone \cup Evicted(auctions)
    BY <1>1, <1>5 DEF Fresh
  <2>2. Unrepeated(auctions'.done) /\ DoneOf(auctions') \cap gone' = {}
    BY <1>3, <1>8, <2>1
  <2> QED
    BY <1>9, <2>2 DEF Fresh, Unrepeated
<1>11. Placed(auctions, Auctions)'
  <2>1. ASSUME NEW p \in Awaited' \cap Auctions PROVE ObjectAt(auctions', number[p]) = p
    <3>1. p \in Auctions /\ p # a /\ number[p] \in Nat /\ ObjectAt(auctions, number[p]) = p
      BY <1>2, <1>4 DEF AuctionsSound, Placed
    <3> QED
      BY <1>5, <3>1, DeletePresent
  <2> QED
    BY <1>1, <2>1 DEF Placed
<1>12. ManagerType(auctions, Auctions)' /\ AuctionsSound'
  BY <1>1, <1>6, <1>7, <1>10, <1>11
    DEF AuctionsSound, Numbered, NumberedBy, Agree, AgreeBy, ManagerType
<1>13. /\ ManagerType(bids, Bids)' /\ BidsSound'
       /\ Stored(bids)' = Stored(bids) /\ DoneOf(bids)' = DoneOf(bids)
  <2>1. DoneOf(auctions) \cap DoneOf(bids) = {}
    <3>1. DoneOf(auctions) \subseteq Auctions
      BY <1>2, ElementOfSeq DEF ManagerType, DoneOf
    <3> QED
      BY <1>2, <3>1
  <2>2. ~refused => gone \cap DoneOf(bids) = {}
    BY DEF ObjectInv, BidsSound, Fresh
  <2>3. ~refused' => gone' \cap DoneOf(bids) = {}
    BY <1>1, <1>8, <2>1, <2>2
  <2> QED
    BY <1>1, <1>4, <2>3, BidsKept
<1>14. ObjectTypes'
  BY <1>1, <1>2, <1>4, <1>12, <1>13 DEF ObjectTypes
<1>15. Lifecycle'
  <2>1. a \notin Stored(bids)
    BY <1>2, <1>3
  <2> DEFINE live == Waiting \cup Awaited \cup Stored(auctions) \cup Stored(bids)
             dead == DoneOf(auctions) \cup DoneOf(bids) \cup gone
  <2>2. live \subseteq read /\ dead \subseteq read /\ live \cap dead = {}
    BY <1>2 DEF Lifecycle
  <2>3. (Waiting' \cup Awaited') \cup Stored(auctions') \cup Stored(bids) \subseteq live \ {a}
    BY <1>4, <1>6, <2>1
  <2>4. DoneOf(auctions') \cup DoneOf(bids) \cup gone' \subseteq dead \cup {a}
    BY <1>1, <1>8
  <2>5. /\ Waiting' \cup Awaited' \cup Stored(auctions') \cup Stored(bids) \subseteq read
        /\ DoneOf(auctions') \cup DoneOf(bids) \cup gone' \subseteq read
        /\ (Waiting' \cup Awaited' \cup Stored(auctions') \cup Stored(bids))
             \cap (DoneOf(auctions') \cup DoneOf(bids) \cup gone') = {}
    <3> HIDE DEF live, dead
    <3> QED
      BY <1>3, <2>2, <2>3, <2>4
  <2> HIDE DEF live, dead
  <2> QED
    BY <1>1, <1>4, <1>9, <1>13, <2>5 DEF Lifecycle
<1>16. Blameless'
  BY <1>1, <1>2 DEF Blameless
<1> QED
  BY <1>12, <1>13, <1>14, <1>15, <1>16 DEF ObjectInv

\* The number leaves the index by auction with the object.
LEMMA UnindexBidIndexed ==
  ASSUME NEW b \in Bids, NEW n \in Nat, UnindexBid(b, n), IndexedByAuction, IndexBounded,
         ObjectAt(bids, n) = b, Len(bids.db) \in Nat, Len(bids'.db) = Len(bids.db),
         \A i \in Nat : ObjectAt(bids', i) = IF i = n THEN Null ELSE ObjectAt(bids, i)
  PROVE  IndexedByAuction' /\ IndexBounded'
<1> DEFINE left == byAuction[AuctionOf[b]] \ {n}
<1>1. /\ \A x : x \in DOMAIN byAuction' <=>
                  (x \in DOMAIN byAuction /\ (x = AuctionOf[b] => left # {}))
      /\ \A x \in DOMAIN byAuction' :
           byAuction'[x] = IF x = AuctionOf[b] THEN left ELSE byAuction[x]
  BY DEF UnindexBid
<1> HIDE DEF left
<1>2. IndexBounded'
  <2>1. \A x \in DOMAIN byAuction' : x \in DOMAIN byAuction /\ byAuction'[x] \subseteq byAuction[x]
    BY <1>1 DEF left
  <2> QED
    BY <2>1 DEF IndexBounded
<1>3. ASSUME NEW i \in 0 .. (Len(bids'.db) - 1), NEW x \in {AuctionOf[c] : c \in Bids}
      PROVE  (x \in DOMAIN byAuction' /\ i \in byAuction'[x])
               <=> (ObjectAt(bids', i) # Null /\ AuctionOf[ObjectAt(bids', i)] = x)
  <2>1. /\ i \in 0 .. (Len(bids.db) - 1) /\ i \in Nat
        /\ (x \in DOMAIN byAuction /\ i \in byAuction[x])
             <=> (ObjectAt(bids, i) # Null /\ AuctionOf[ObjectAt(bids, i)] = x)
    BY DEF IndexedByAuction
  <2>2. CASE i = n
    <3>1. ObjectAt(bids', i) = Null
      BY <2>2
    <3>2. ~(x \in DOMAIN byAuction' /\ i \in byAuction'[x])
      BY <1>1, <2>1, <2>2 DEF left
    <3> QED
      BY <3>1, <3>2
  <2>3. CASE i # n
    <3>1. ObjectAt(bids', i) = ObjectAt(bids, i)
      BY <2>1, <2>3
    <3>2. (x \in DOMAIN byAuction' /\ i \in byAuction'[x])
            <=> (x \in DOMAIN byAuction /\ i \in byAuction[x])
      BY <1>1, <2>3 DEF left
    <3> QED
      BY <2>1, <3>1, <3>2
  <2> QED
    BY <2>2, <2>3
<1> QED
  BY <1>2, <1>3 DEF IndexedByAuction, ObjectAt

LEMMA RemoveBidInv ==
  ASSUME ObjectInv, RemoveBid
  PROVE  ObjectInv'
<1> DEFINE b == Head(work.rest)
<1>1. /\ work.op = "remove bids" /\ work.rest # <<>>
      /\ bids' = Delete(bids, b, number[b]) /\ UnindexBid(b, number[b])
      /\ removals' = {o \in removals : o \in Bids => number[o] # number[b]}
      /\ gone' = gone \cup Evicted(bids)
      /\ work' = [work EXCEPT !.rest = Tail(@)] \/ work' = Idle
      /\ UNCHANGED <<auctions, number, read, refused, fault>>
  BY DEF RemoveBid, Doing, DeleteBid, AfterSave
<1>2. /\ Lifecycle /\ CallType /\ BidsSound /\ ManagerType(bids, Bids)
      /\ number \in [Objects -> Nat] /\ Auctions \subseteq Objects /\ Bids \subseteq Objects
      /\ Auctions \cap Bids = {} /\ Null \notin Bids
      /\ removals \subseteq Objects /\ read \subseteq Objects /\ refused \in BOOLEAN /\ Blameless
      /\ Stored(auctions) \subseteq Auctions /\ DoneOf(auctions) \subseteq Auctions
  <2>1. Stored(auctions) \subseteq Auctions /\ DoneOf(auctions) \subseteq Auctions
    <3>1. auctions.db \in Seq(Auctions \cup {Null}) /\ auctions.done \in Seq(Auctions)
      BY DEF ObjectInv, ObjectTypes, ManagerType
    <3> QED
      BY <3>1, ElementOfSeq DEF Stored, DoneOf
  <2> QED
    BY <2>1, ObjectAssumption DEF ObjectInv, ObjectTypes, Objects
<1>3. /\ b \in Awaited /\ b \in read /\ b \in Bids /\ number[b] \in Nat
      /\ b \notin DoneOf(auctions) \cup DoneOf(bids) \cup gone
  BY <1>1, RemovedObject
<1>4. /\ CallType' /\ Waiting' \subseteq Waiting \ {b} /\ Awaited' \subseteq Awaited \ {b}
      /\ Adding' = {} /\ Waiting' \cap (removals' \cup work'.added) = {}
  BY <1>1, <1>2, RemovalGoesOn
<1> HIDE DEF b
<1>5. /\ NumberedBy(bids, number)
      /\ Null \notin Bids /\ ManagerType(bids, Bids) /\ b \in Bids
      /\ number[b] \in Nat /\ bids' = Delete(bids, b, number[b])
  BY <1>1, <1>2, <1>3 DEF BidsSound, Numbered, NumberedBy
<1>6. /\ ManagerType(bids', Bids) /\ Stored(bids') \subseteq Stored(bids)
      /\ b \notin Stored(bids') /\ NumberedBy(bids', number)
      /\ Len(bids.db) \in Nat /\ Len(bids'.db) = Len(bids.db)
      /\ \A i \in Nat : ObjectAt(bids', i) = IF i = number[b] THEN Null ELSE ObjectAt(bids, i)
  BY <1>5, DeleteManager
<1>7. /\ Evicted(bids) \subseteq DoneOf(bids)
      /\ DoneOf(bids') \subseteq DoneOf(bids) \cup {b}
      /\ Unrepeated(bids.done) /\ b \notin DoneOf(bids) =>
           Unrepeated(bids'.done) /\ DoneOf(bids') \cap Evicted(bids) = {}
  BY <1>5, DeleteDone
<1>8. Stored(bids)' = Stored(bids') /\ DoneOf(bids)' = DoneOf(bids')
  BY DEF Stored, DoneOf
<1>9. ASSUME ~refused
      PROVE  Fresh(bids)' /\ Placed(bids, Bids)' /\ Agree(bids)' /\ IndexedByAuction' /\ IndexBounded'
  <2>1. /\ Fresh(bids) /\ AgreeBy(bids, number) /\ IndexedByAuction /\ IndexBounded
        /\ \A p \in Awaited \cap Bids : ObjectAt(bids, number[p]) = p
    BY <1>2, <1>9 DEF BidsSound, Agree, AgreeBy, Placed
  <2>2. ObjectAt(bids, number[b]) = b
    BY <1>3, <2>1
  <2>3. Fresh(bids)'
    <3>1. Unrepeated(bids.done) /\ DoneOf(bids) \cap gone = {} /\ gone' = gone \cup Evicted(bids)
      BY <1>1, <2>1 DEF Fresh
    <3>2. Unrepeated(bids'.done) /\ DoneOf(bids') \cap gone' = {}
      BY <1>3, <1>7, <3>1
    <3> QED
      BY <1>8, <3>2 DEF Fresh, Unrepeated
  <2>4. ASSUME NEW p \in Awaited' \cap Bids PROVE ObjectAt(bids', number[p]) = p
    <3>1. p \in Bids /\ p # b /\ number[p] \in Nat /\ ObjectAt(bids, number[p]) = p
      BY <1>2, <1>4, <2>1
    <3> QED
      BY <1>5, <2>2, <3>1, DeletePresent
  <2>5. AgreeBy(bids', number)
    BY <1>5, <2>1, <2>2, DeleteAgree
  <2>6. IndexedByAuction' /\ IndexBounded'
    <3>1. UnindexBid(b, number[b])
      BY <1>1
    <3> QED
      BY <1>5, <1>6, <2>1, <2>2, <3>1, UnindexBidIndexed
  <2> QED
    BY <1>1, <2>3, <2>4, <2>5, <2>6 DEF Placed, Agree, AgreeBy
<1>10. ManagerType(bids, Bids)' /\ BidsSound'
  BY <1>1, <1>6, <1>9 DEF BidsSound, Numbered, NumberedBy, ManagerType
<1>11. /\ ManagerType(auctions, Auctions)' /\ AuctionsSound'
       /\ Stored(auctions)' = Stored(auctions) /\ DoneOf(auctions)' = DoneOf(auctions)
  <2>1. DoneOf(bids) \subseteq Bids
    BY <1>2, ElementOfSeq DEF ManagerType, DoneOf
  <2>2. gone \cap DoneOf(auctions) = {}
    BY DEF ObjectInv, AuctionsSound, Fresh
  <2>3. gone' \cap DoneOf(auctions) = {}
    BY <1>1, <1>2, <1>7, <2>1, <2>2
  <2> QED
    BY <1>1, <1>4, <2>3, AuctionsKept
<1>12. ObjectTypes'
  BY <1>1, <1>2, <1>4, <1>10, <1>11 DEF ObjectTypes
<1>13. Lifecycle'
  <2> DEFINE live == Waiting \cup Awaited \cup Stored(auctions) \cup Stored(bids)
             dead == DoneOf(auctions) \cup DoneOf(bids) \cup gone
  <2>1. b \notin Stored(auctions)
    BY <1>2, <1>3
  <2>2. live \subseteq read /\ dead \subseteq read /\ live \cap dead = {}
    BY <1>2 DEF Lifecycle
  <2>3. (Waiting' \cup Awaited') \cup Stored(auctions) \cup Stored(bids') \subseteq live \ {b}
    BY <1>4, <1>6, <2>1
  <2>4. DoneOf(auctions) \cup DoneOf(bids') \cup gone' \subseteq dead \cup {b}
    BY <1>1, <1>7
  <2>5. /\ Waiting' \cup Awaited' \cup Stored(auctions) \cup Stored(bids') \subseteq read
        /\ DoneOf(auctions) \cup DoneOf(bids') \cup gone' \subseteq read
        /\ (Waiting' \cup Awaited' \cup Stored(auctions) \cup Stored(bids'))
             \cap (DoneOf(auctions) \cup DoneOf(bids') \cup gone') = {}
    <3> HIDE DEF live, dead
    <3> QED
      BY <1>3, <2>2, <2>3, <2>4
  <2> HIDE DEF live, dead
  <2> QED
    BY <1>1, <1>4, <1>8, <1>11, <2>5 DEF Lifecycle
<1>14. Blameless'
  BY <1>1, <1>2 DEF Blameless
<1> QED
  BY <1>10, <1>11, <1>12, <1>13, <1>14 DEF ObjectInv

LEMMA RefuseBidInv ==
  ASSUME ObjectInv, RefuseBid
  PROVE  ObjectInv'
<1> DEFINE b == Head(work.rest)
<1>1. /\ work.op = "add bids" /\ work.rest # <<>>
      /\ bids' = Delete(bids, b, number[b])
      /\ gone' = gone \cup Evicted(bids) \cup {b}
      /\ work' = Idle \/ work' = [work EXCEPT !.rest = Tail(@), !.size = @ - 1]
      /\ refused' = TRUE
      /\ UNCHANGED <<auctions, number, read, fault, removals>>
  BY DEF RefuseBid, Doing, DeleteBid
<1>2. /\ Lifecycle /\ CallType /\ BidsSound /\ ManagerType(bids, Bids)
      /\ number \in [Objects -> Nat] /\ Auctions \subseteq Objects /\ Bids \subseteq Objects
      /\ Auctions \cap Bids = {} /\ Null \notin Bids
      /\ removals \subseteq Objects /\ read \subseteq Objects
  BY ObjectAssumption DEF ObjectInv, ObjectTypes, Objects
<1>3. b \in Waiting /\ Adding = Waiting /\ Removing = {}
  BY <1>1, <1>2, HeadWaits DEF Adding, Removing
<1>4. /\ b \in Bids /\ number[b] \in Nat /\ b \in read /\ b \notin Awaited
      /\ b \notin Stored(auctions) \cup Stored(bids)
      /\ b \notin DoneOf(auctions) \cup DoneOf(bids) \cup gone
  BY <1>1, <1>2, <1>3 DEF Lifecycle, CallType, Awaited
<1>5. /\ CallType' /\ Waiting' \subseteq Waiting \ {b} /\ Awaited' \subseteq Awaited
      /\ Adding' \subseteq Adding /\ Waiting' \cap (removals' \cup work'.added) = {}
  <2>0. Waiting \cap (removals \cup work.added) = {}
    BY <1>2 DEF Lifecycle
  <2>1. CASE work' = Idle
    <3>1. CallType' /\ Waiting' = {} /\ Adding' = {} /\ Removing' = {} /\ work'.added = {}
      BY <2>1, CallEnds
    <3> QED
      BY <1>1, <3>1 DEF Awaited
  <2>2. CASE work' = [work EXCEPT !.rest = Tail(@), !.size = @ - 1]
    <3>1. /\ work'.op = work.op /\ work'.rest = Tail(work.rest) /\ work'.added = work.added
          /\ work' = [op |-> work.op, rest |-> Tail(work.rest), size |-> work.size - 1,
                      added |-> work.added]
      BY <1>2, <2>2 DEF CallType, IsCall
    <3>2. IsCall'
      <4>1. /\ work.rest \in Seq(Objects) /\ work.rest # <<>> /\ work.op \in Operations
            /\ work.added \subseteq Objects
        BY <1>1, <1>2 DEF CallType, IsCall
      <4>2. Tail(work.rest) \in Seq(Objects)
        BY <4>1, EmptySeq, HeadTailProperties
      <4>3. work'.size = work.size - 1
        BY <3>1
      <4> QED
        BY <3>1, <4>1, <4>2, <4>3 DEF IsCall
    <3>3. /\ CallType' /\ Waiting' = Waiting \ {b}
          /\ Adding' = Adding \ {b} /\ Removing' = Removing \ {b}
      BY <1>1, <1>2, <3>1, <3>2, CallGoesOn
    <3> HIDE DEF b
    <3> QED
      BY <1>1, <1>3, <2>0, <3>1, <3>3 DEF Awaited
  <2> QED
    BY <1>1, <2>1, <2>2
<1> HIDE DEF b
<1>6. /\ NumberedBy(bids, number)
      /\ Null \notin Bids /\ ManagerType(bids, Bids) /\ b \in Bids
      /\ number[b] \in Nat /\ bids' = Delete(bids, b, number[b])
  BY <1>1, <1>2, <1>4 DEF BidsSound, Numbered, NumberedBy
<1>7. /\ ManagerType(bids', Bids) /\ Stored(bids') \subseteq Stored(bids)
      /\ NumberedBy(bids', number)
  BY <1>6, DeleteManager
<1>8. Evicted(bids) \subseteq DoneOf(bids) /\ DoneOf(bids') \subseteq DoneOf(bids) \cup {b}
  BY <1>6, DeleteDone
<1>9. Stored(bids)' = Stored(bids') /\ DoneOf(bids)' = DoneOf(bids')
  BY DEF Stored, DoneOf
<1>10. ManagerType(bids, Bids)' /\ BidsSound'
  BY <1>1, <1>7 DEF BidsSound, Numbered, NumberedBy, ManagerType
<1>11. /\ ManagerType(auctions, Auctions)' /\ AuctionsSound'
       /\ Stored(auctions)' = Stored(auctions) /\ DoneOf(auctions)' = DoneOf(auctions)
  <2>1. DoneOf(bids) \subseteq Bids /\ DoneOf(auctions) \subseteq Auctions
    <3>1. auctions.done \in Seq(Auctions) /\ bids.done \in Seq(Bids)
      BY DEF ObjectInv, ObjectTypes, ManagerType
    <3> QED
      BY <3>1, ElementOfSeq DEF DoneOf
  <2>2. gone \cap DoneOf(auctions) = {}
    BY DEF ObjectInv, AuctionsSound, Fresh
  <2>3. gone' \cap DoneOf(auctions) = {}
    BY <1>1, <1>2, <1>4, <1>8, <2>1, <2>2
  <2> QED
    BY <1>1, <1>5, <2>3, AuctionsKept
<1>12. ObjectTypes'
  BY <1>1, <1>2, <1>5, <1>10, <1>11 DEF ObjectTypes
<1>13. Lifecycle'
  <2> DEFINE live == Waiting \cup Awaited \cup Stored(auctions) \cup Stored(bids)
             dead == DoneOf(auctions) \cup DoneOf(bids) \cup gone
  <2>1. /\ live \subseteq read /\ dead \subseteq read /\ live \cap dead = {}
        /\ Adding \cap (Stored(auctions) \cup Stored(bids)) = {}
    BY <1>2 DEF Lifecycle
  <2>2. (Waiting' \cup Awaited') \cup Stored(auctions) \cup Stored(bids') \subseteq live \ {b}
    BY <1>4, <1>5, <1>7
  <2>3. DoneOf(auctions) \cup DoneOf(bids') \cup gone' \subseteq dead \cup {b}
    BY <1>1, <1>8
  <2>5. /\ Waiting' \cup Awaited' \cup Stored(auctions) \cup Stored(bids') \subseteq read
        /\ DoneOf(auctions) \cup DoneOf(bids') \cup gone' \subseteq read
        /\ (Waiting' \cup Awaited' \cup Stored(auctions) \cup Stored(bids'))
             \cap (DoneOf(auctions) \cup DoneOf(bids') \cup gone') = {}
    <3> HIDE DEF live, dead
    <3> QED
      BY <1>4, <2>1, <2>2, <2>3
  <2>6. Adding' \cap (Stored(auctions) \cup Stored(bids')) = {}
    BY <1>5, <1>7, <2>1
  <2> HIDE DEF live, dead
  <2> QED
    BY <1>1, <1>5, <1>9, <1>11, <2>5, <2>6 DEF Lifecycle
<1>14. Blameless'
  BY <1>1 DEF Blameless
<1> QED
  BY <1>10, <1>11, <1>12, <1>13, <1>14 DEF ObjectInv

-----------------------------------------------------------------------------
LEMMA NextObjectInv == ObjectInv /\ [ObjectNext]_objectVars => ObjectInv'
<1> SUFFICES ASSUME ObjectInv, [ObjectNext]_objectVars PROVE ObjectInv'
  OBVIOUS
<1>1. CASE ParseAuctions \/ ParseBids
  BY <1>1, AddObjectsInv DEF ParseAuctions, ParseBids
<1>2. CASE AddAuction
  BY <1>2, AddAuctionInv
<1>3. CASE InstallBid
  BY <1>3, InstallBidInv
<1>4. CASE RefuseBid
  BY <1>4, RefuseBidInv
<1>5. CASE FinishAdd
  BY <1>5, FinishAddInv
<1>6. CASE HandleRemoveAuctions \/ HandleRemoveBiddingObjects
  BY <1>6, RemoveObjectsInv DEF HandleRemoveAuctions, HandleRemoveBiddingObjects
<1>7. CASE RemoveAuction
  BY <1>7, RemoveAuctionInv
<1>8. CASE RemoveBid
  BY <1>8, RemoveBidInv
<1>9. CASE FinishRemove
  BY <1>9, FinishRemoveInv
<1>10. CASE Crash
  BY <1>10, CrashInv
<1>11. CASE GetInfo \/ GetInfoOfSet
  BY <1>11, GetInfoInv
<1>12. CASE UNCHANGED objectVars
  <2>1. refused \in BOOLEAN /\ Blameless
    BY DEF ObjectInv, ObjectTypes
  <2> QED
    BY <1>12, <2>1, FaultInv DEF objectVars, Blameless
<1> QED
  BY <1>1, <1>2, <1>3, <1>4, <1>5, <1>6, <1>7, <1>8, <1>9, <1>10, <1>11, <1>12 DEF ObjectNext

\* As long as no bid was refused for its name, what is installed is found by its
\* name, its number and its auction, and what was removed by none of them: for
\* every set of objects, names used more than once, and length of the list of
\* done objects (AuctioningObjectManager, BiddingObjectManager).
THEOREM InstalledObjectsAreFound == ObjectSpec => []NamesFind
<1>1. ObjectInit => ObjectInv
  BY InitObjectInv
<1>2. ObjectInv /\ [ObjectNext]_objectVars => ObjectInv'
  BY NextObjectInv
<1>3. ObjectInv => NamesFind
  BY ObjectInvImplies
<1> QED
  BY <1>1, <1>2, <1>3, PTL DEF ObjectSpec

\* What a queued removal holds, and what is installed, was not deleted, and deleted
\* memory is used only when a bid was refused
\* (AuctioningObjectManager::storeAuctioningObjectAsDone and its callers).
THEOREM QueuedObjectsAreAlive == ObjectSpec => []MemorySound
<1>1. ObjectInit => ObjectInv
  BY InitObjectInv
<1>2. ObjectInv /\ [ObjectNext]_objectVars => ObjectInv'
  BY NextObjectInv
<1>3. ObjectInv => MemorySound
  BY ObjectInvImplies
<1> QED
  BY <1>1, <1>2, <1>3, PTL DEF ObjectSpec

=============================================================================
