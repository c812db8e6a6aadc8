---------------------------- MODULE ModuleLoader ----------------------------
(***************************************************************************)
(* The modules of auctions and of requests, and who uses them.  The        *)
(* auctioneer has a process for an auction under the auction's number, the *)
(* agent one for a request under a number that may be given out twice; each *)
(* holds a reference to the module it executes.  A module is loaded when    *)
(* it is first asked for, by whatever name - two names may lead to one      *)
(* library - and deleted with its last reference.  What is asked about on   *)
(* a page gets a reference that nobody gives back.                          *)
(***************************************************************************)
EXTENDS Naturals, FiniteSets, Functions

CONSTANTS
  Names,       \* names of modules: in files, in answers, in commands
  FileOf,      \* the library dlopen finds for a name
  Quality,     \* of a library: "good", "absent", "foreign" (no magic number),
               \*   "partial" (no list of functions)
  Short,       \* the names of less than three characters
  Preloaded,   \* the modules of the configuration
  Processes,   \* numbers of processes
  MaxRefs      \* bound: references that are counted

ASSUME LoaderAssumption ==
  /\ Short \subseteq Names /\ Preloaded \subseteq Names \ Short
  /\ IsFiniteSet(Names) /\ Names \subseteq DOMAIN FileOf
  /\ IsFiniteSet(Processes) /\ MaxRefs \in Nat
  /\ Quality \in [Range(FileOf) -> {"good", "absent", "foreign", "partial"}]
  /\ \A m \in Preloaded : Quality[FileOf[m]] = "good"

VARIABLES
  daemon,      \* whose loader it is
  modules,     \* ModuleLoader::modules: the references of a module, by its name
  handles,     \* how often dlopen has been called for a library and not dlclose
  inited,      \* how often a library was initialised and not destroyed
  table,       \* the processes: the name of the module, by number
  kept,        \* modules with references that nobody gives back
  up           \* "up", or what has ended the daemon

vars == <<daemon, modules, handles, inited, table, kept, up>>

Files == Range(FileOf)

Init ==
  /\ daemon \in {"auctioneer", "agent"}
  /\ modules = [m \in Preloaded |-> 1]
  /\ handles = [f \in Files |-> Cardinality({m \in Preloaded : FileOf[m] = f})]
  /\ inited = handles
  /\ table = <<>> /\ kept = {} /\ up = "up"

----------------------------------------------------------------------------
(* Module, ProcModule, ModuleLoader *)

Link(m) == [modules EXCEPT ![m] = @ + 1]

Loadable(m) == m \notin Short /\ Quality[FileOf[m]] = "good"

\* getModule of a name that can be loaded
GetModule(m) ==
  IF m \in DOMAIN modules
  THEN modules' = Link(m) /\ UNCHANGED <<handles, inited>>
  ELSE /\ modules' = [n \in DOMAIN modules \cup {m} |-> IF n = m THEN 1 ELSE modules[n]]
       /\ handles' = [handles EXCEPT ![FileOf[m]] = @ + 1]
       /\ inited' = [inited EXCEPT ![FileOf[m]] = @ + 1]

\* Mutant: one reference is taken for none.
LastEarly(m) == modules[m] <= 2

\* unlink() == 0
Last(m) == modules[m] <= 1

\* Mutant: the entry is erased and its object is not deleted.
ReleaseErased(m) ==
  /\ modules' = IF Last(m) THEN [n \in DOMAIN modules \ {m} |-> modules[n]] ELSE [modules EXCEPT ![m] = @ - 1]
  /\ UNCHANGED <<handles, inited>>

\* releaseModule: destroyModule, dlclose and no entry any more.
ReleaseModule(m) ==
  IF Last(m)
  THEN /\ modules' = [n \in DOMAIN modules \ {m} |-> modules[n]]
       /\ handles' = [handles EXCEPT ![FileOf[m]] = @ - 1]
       /\ inited' = [inited EXCEPT ![FileOf[m]] = @ - 1]
  ELSE modules' = [modules EXCEPT ![m] = @ - 1] /\ UNCHANGED <<handles, inited>>

\* A name that cannot be loaded.  The magic number is looked for before a Module
\* is made; when its constructor fails the library is closed by ~Module, and then
\* once more.  A short name makes substr throw what is no Error.
LoadFails(m) ==
  /\ m \notin DOMAIN modules /\ ~Loadable(m)
  /\ up' = CASE m \in Short -> "out of range"
             [] m \notin Short /\ Quality[FileOf[m]] = "partial" -> "closed twice"
             [] OTHER -> "up"
  /\ UNCHANGED <<daemon, modules, handles, inited, table, kept>>

----------------------------------------------------------------------------
(* AUMProcessor and AgentProcessor *)

Entry(i, m) == [j \in DOMAIN table \cup {i} |-> IF j = i THEN m ELSE table[j]]

\* addAuctionProcess, addRequest.  A number that the agent has given out before
\* makes the new entry the only one; the reference of the old one stays.
AddProcess(i, m) ==
  /\ up = "up" /\ Loadable(m)
  /\ i \in DOMAIN table => daemon = "agent"
  /\ m \in DOMAIN modules => modules[m] < MaxRefs
  /\ GetModule(m)
  /\ table' = Entry(i, m)
  /\ kept' = IF i \in DOMAIN table THEN kept \cup {table[i]} ELSE kept
  /\ UNCHANGED <<daemon, up>>

AddFails == up = "up" /\ \E m \in Names : LoadFails(m)

\* delAuctionProcess; delRequest, and releaseRequest from delAuctions.
DelProcess(i) ==
  /\ up = "up" /\ i \in DOMAIN table
  /\ ReleaseModule(table[i])
  /\ table' = [j \in DOMAIN table \ {i} |-> table[j]]
  /\ UNCHANGED <<daemon, kept, up>>

\* handleGetModInfo: getModule, and no releaseModule.
GetModInfo(m) ==
  /\ up = "up" /\ daemon = "auctioneer" /\ Loadable(m)
  /\ m \in DOMAIN modules => modules[m] < MaxRefs
  /\ GetModule(m)
  /\ kept' = kept \cup {m}
  /\ UNCHANGED <<daemon, table, up>>

\* The loader's destructor, in the auctioneer; the agent does not delete its own.
Shutdown ==
  /\ up = "up"
  /\ up' = "stopped"
  /\ table' = <<>> /\ kept' = {}
  /\ IF daemon = "auctioneer"
     THEN /\ modules' = <<>>
          /\ handles' = [f \in Files |-> handles[f] - Cardinality({m \in DOMAIN modules : FileOf[m] = f})]
          /\ inited' = [f \in Files |-> inited[f] - Cardinality({m \in DOMAIN modules : FileOf[m] = f})]
     ELSE UNCHANGED <<modules, handles, inited>>
  /\ UNCHANGED daemon

Next ==
  \/ \E i \in Processes, m \in Names : AddProcess(i, m)
  \/ \E i \in Processes : DelProcess(i)
  \/ \E m \in Names : GetModInfo(m)
  \/ AddFails \/ Shutdown

Spec == Init /\ [][Next]_vars

----------------------------------------------------------------------------
(* Properties *)

Users(m) == {i \in DOMAIN table : table[i] = m}

\* A process executes code that is there: its module is loaded with at least as
\* many references as there are processes, and its library is open and was not
\* destroyed - with numbers given out twice, names of one library, libraries that
\* cannot be loaded and pages about modules in between.
InUseLoaded ==
  \A i \in DOMAIN table :
    /\ table[i] \in DOMAIN modules
    /\ modules[table[i]] >= Cardinality(Users(table[i]))
    /\ handles[FileOf[table[i]]] > 0 /\ inited[FileOf[table[i]]] > 0

\* Nothing is loaded for longer than somebody uses it, but for what is preloaded
\* and what has a reference too many; a library is open once for every name it is
\* loaded under.  The agent leaves what is loaded to the end of its process.
UnusedUnloaded ==
  (up = "stopped" => daemon = "auctioneer") =>
    /\ \A m \in DOMAIN modules : Users(m) # {} \/ m \in Preloaded \cup kept
    /\ \A f \in Files :
         /\ handles[f] = Cardinality({m \in DOMAIN modules : FileOf[m] = f})
         /\ inited[f] = handles[f]
=============================================================================
