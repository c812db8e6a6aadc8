------------------------------ MODULE MCStores ------------------------------
(* The tables of a daemon, one at a time: which one is chosen in the initial  *)
(* state.                                                                     *)
(* Modules: six names, two of one library, one of another, one of a library   *)
(* without functions, one of no module and one of two characters; three       *)
(* processes.                                                                 *)
(* Objects: three auctions of which two have one name, four bids for two      *)
(* auctions of which three share a name, and room for one done object.        *)
(* Allocations: five of two auctions in one set to two bids, one name used    *)
(* twice, and the set of some allocations is the set of the auctions.         *)
EXTENDS ModuleLoader, AllocationStore, ObjectStore, TLC

CONSTANTS a1, a2, a3, b1, b2, b3, b4, x1, x2, x3, x4, x5

VARIABLE store

storesVars == <<store, vars, objectVars, allocationVars>>

MCFileOf == "libbas" :> "bas" @@ "libbas.so" :> "bas" @@ "libtwo" :> "two"
         @@ "libodd" :> "odd" @@ "libold" :> "old" @@ "no" :> "none"
MCQuality == "bas" :> "good" @@ "two" :> "good" @@ "odd" :> "partial" @@ "old" :> "foreign"
          @@ "none" :> "absent"

N(s, n) == [set |-> s, name |-> n]
MCName == a1 :> N("d", 1) @@ a2 :> N("d", 1) @@ a3 :> N("d", 2)
       @@ b1 :> N("s", 1) @@ b2 :> N("s", 2) @@ b3 :> N("s", 1) @@ b4 :> N("t", 1)
MCAuctionOf == b1 :> N("d", 1) @@ b2 :> N("d", 1) @@ b3 :> N("d", 2) @@ b4 :> N("d", 2)

K(n, a, b) == [allocation |-> n, auction |-> a, bid |-> b]
MCKey == x1 :> K(<<"s", 1>>, <<"s", 1>>, <<"b", 1>>) @@ x2 :> K(<<"t", 1>>, <<"s", 2>>, <<"b", 1>>)
      @@ x3 :> K(<<"s", 1>>, <<"s", 2>>, <<"b", 2>>) @@ x4 :> K(<<"t", 2>>, <<"s", 1>>, <<"b", 2>>)
      @@ x5 :> K(<<"t", 1>>, <<"s", 1>>, <<"c", 1>>)

StoresInit ==
  /\ store \in {"modules", "objects", "allocations"}
  /\ Init /\ ObjectInit /\ AllocationInit
  /\ store # "modules" => daemon = "auctioneer"

StoresNext ==
  \/ store = "modules" /\ Next /\ UNCHANGED <<store, objectVars, allocationVars>>
  \/ store = "objects" /\ ObjectNext /\ UNCHANGED <<store, vars, allocationVars>>
  \/ store = "allocations" /\ AllocationNext /\ UNCHANGED <<store, vars, objectVars>>

StoresSpec == StoresInit /\ [][StoresNext]_storesVars
=============================================================================
