--------------------------- MODULE CommandsProofs ---------------------------
(***************************************************************************)
(* The inductive invariant of Commands and what follows from it, for any   *)
(* number of commands and tests and any options, filters and paths.        *)
(*                                                                         *)
(* An expression of -k or -m is evaluated through its parts, which are     *)
(* shorter; the cache needs nothing more of a filter than that it looks at *)
(* one test at a time.                                                     *)
(***************************************************************************)
EXTENDS Commands, Induction

\* A context has the hash of its tests once it collected any, and a command saves the
\* inventory of such a context.
HashInv == hash = inv \/ (inv = {} /\ hash = None)
SaveInv == \A c \in Cmds : pc[c] = "save" => seen[c] # None

CmdInv == CmdTypeOK /\ CacheComplete /\ HashInv /\ SaveInv

AllOptions == {NoOptions} \cup {Merged(o) : o \in Options \cup {NoOptions}}

Labels == {"off", "inventory", "collect", "choose", "list", "fetch", "save",
           "run", "recollect", "listing", "status"}

\* The part of CmdTypeOK about the commands.
CommandsOK ==
    /\ holder \in Cmds \cup {None}
    /\ holder # None => pc[holder] \in {"fetch", "save", "run"}
    /\ pc \in [Cmds -> Labels]
    /\ opts \in [Cmds -> AllOptions]
    /\ seen \in [Cmds -> (SUBSET Tests) \cup {None}]
    /\ sel \in [Cmds -> SUBSET Tests]

\* The rest: the files, the daemon and the cache.
DataOK ==
    /\ disk \subseteq Tests /\ known \in BOOLEAN
    /\ inv \subseteq Tests /\ hash \in (SUBSET Tests) \cup {None}
    /\ meta \in (SUBSET Tests) \cup {None} /\ nodes \subseteq Tests

LEMMA Parts == CmdInv <=> DataOK /\ CommandsOK /\ CacheComplete /\ HashInv /\ SaveInv
BY DEF CmdInv, CmdTypeOK, DataOK, CommandsOK, AllOptions, Labels

LEMMA PartsNext ==
    DataOK' /\ CommandsOK' /\ CacheComplete' /\ HashInv' /\ SaveInv' => CmdInv'
BY DEF CmdInv, CmdTypeOK, DataOK, CommandsOK, AllOptions, Labels

LEMMA NoneIsNone ==
    /\ None \notin SUBSET Tests
    /\ \A c \in Cmds : c # None
BY CommandsAssumption

-----------------------------------------------------------------------------
(* What the steps share *)

\* A command exits, or dies.
LEMMA ExitStep ==
    ASSUME CommandsOK, SaveInv, NEW c \in Cmds, Exit(c)
    PROVE  CommandsOK' /\ SaveInv'
<1>1. NoOptions \in AllOptions
    BY DEF AllOptions
<1>2. holder' \in Cmds \cup {None} /\ (holder' # None => holder' = holder /\ holder # c)
    BY DEF Exit, CommandsOK
<1>3. holder' # None => pc'[holder'] \in {"fetch", "save", "run"}
    BY <1>2 DEF Exit, CommandsOK
<1>4. /\ pc' \in [Cmds -> Labels]
      /\ seen' \in [Cmds -> (SUBSET Tests) \cup {None}]
      /\ sel' \in [Cmds -> SUBSET Tests]
    BY DEF Exit, CommandsOK, Labels
<1>5. opts' \in [Cmds -> AllOptions]
    BY <1>1 DEF Exit, CommandsOK
<1>6. SaveInv'
    BY DEF Exit, CommandsOK, SaveInv
<1> QED BY <1>2, <1>3, <1>4, <1>5, <1>6 DEF CommandsOK

\* A command that had no part in the cache goes somewhere else with what it
\* was told, what it has chosen and the cache it may now have open.
LEMMA GoesStep ==
    ASSUME CommandsOK, SaveInv, NEW c \in Cmds, NEW l \in Labels,
           pc' = [pc EXCEPT ![c] = l],
           holder' = holder \/ holder' = c,
           holder' = c => l \in {"fetch", "save", "run"},
           opts' \in [Cmds -> AllOptions],
           NEW h \in (SUBSET Tests) \cup {None}, l = "save" => h # None,
           seen' = seen \/ seen' = [seen EXCEPT ![c] = h],
           l = "save" => seen' = [seen EXCEPT ![c] = h],
           NEW s \in SUBSET Tests,
           sel' = sel \/ sel' = [sel EXCEPT ![c] = s]
    PROVE  CommandsOK' /\ SaveInv'
<1>1. holder' \in Cmds \cup {None}
    BY DEF CommandsOK
<1>2. holder' # None => pc'[holder'] \in {"fetch", "save", "run"}
    <2>1. CASE holder' = c
        BY <2>1 DEF CommandsOK
    <2>2. CASE holder' # c /\ holder' = holder
        BY <2>2 DEF CommandsOK
    <2> QED BY <2>1, <2>2
<1>3. pc' \in [Cmds -> Labels] /\ seen' \in [Cmds -> (SUBSET Tests) \cup {None}]
      /\ sel' \in [Cmds -> SUBSET Tests]
    BY DEF CommandsOK
<1>4. SaveInv'
    <2> SUFFICES ASSUME NEW d \in Cmds, pc'[d] = "save" PROVE seen'[d] # None
        BY DEF SaveInv
    <2>1. CASE d = c
        BY <2>1 DEF CommandsOK
    <2>2. CASE d # c
        BY <2>2 DEF CommandsOK, SaveInv
    <2> QED BY <2>1, <2>2
<1> QED BY <1>1, <1>2, <1>3, <1>4 DEF CommandsOK

\* What is chosen is chosen from the tests there are.
LEMMA Chosen ==
    ASSUME NEW s \in SUBSET Tests, NEW o, NEW paths
    PROVE  /\ CachedFilter(s, o) \subseteq s /\ LocalFilter(s, o) \subseteq s
           /\ FilterByPaths(s, paths) \subseteq s
BY DEF CachedFilter, LocalFilter, FilterByPaths

\* The daemon's part of a collection.
LEMMA CollectedStep ==
    ASSUME DataOK, HashInv, CacheComplete, Collected, UNCHANGED <<meta, nodes>>
    PROVE  DataOK' /\ HashInv' /\ CacheComplete'
BY DEF DataOK, HashInv, CacheComplete, Collected

\* Nothing of the files, the daemon and the cache changes.
LEMMA SameData ==
    ASSUME DataOK, HashInv, CacheComplete, UNCHANGED <<disk, known, inv, hash, meta, nodes>>
    PROVE  DataOK' /\ HashInv' /\ CacheComplete'
BY DEF DataOK, HashInv, CacheComplete

-----------------------------------------------------------------------------
(* The steps *)

LEMMA BeginStep ==
    ASSUME CmdInv, NEW c \in Cmds, Begin(c)
    PROVE  CmdInv'
<1>1. PICK l \in {"inventory", "recollect", "status"}, o \in Options \cup {NoOptions} : Open(c, l, o)
    BY DEF Begin
<1>2. Merged(o) \in AllOptions
    BY DEF AllOptions
<1>3. opts' \in [Cmds -> AllOptions]
    BY <1>1, <1>2, Parts DEF Open, CommandsOK
<1>4. pc[c] = "off" /\ pc' = [pc EXCEPT ![c] = l] /\ UNCHANGED <<holder, seen, sel>>
    BY <1>1 DEF Open, Goto, cache
<1>5. holder # c
    BY <1>4, NoneIsNone, Parts DEF CommandsOK
<1>6. CommandsOK' /\ SaveInv'
    <2>1. l \in Labels /\ l # "save" /\ None \in (SUBSET Tests) \cup {None} /\ {} \in SUBSET Tests
        BY DEF Labels
    <2> QED BY <1>3, <1>4, <1>5, <2>1, Parts, GoesStep
<1>7. DataOK' /\ HashInv' /\ CacheComplete'
    BY <1>1, Parts DEF Open, cache, DataOK, HashInv, CacheComplete
<1> QED BY <1>6, <1>7, PartsNext

\* The steps after which the command is gone and nothing else has changed.
LEMMA EndStep ==
    ASSUME CmdInv, NEW c \in Cmds, Exit(c), UNCHANGED <<disk, daemon, meta, nodes>>
    PROVE  CmdInv'
<1>1. CommandsOK' /\ SaveInv'
    BY Parts, ExitStep
<1>2. DataOK' /\ HashInv' /\ CacheComplete'
    BY Parts, SameData DEF daemon
<1> QED BY <1>1, <1>2, PartsNext

LEMMA InventoryStep ==
    ASSUME CmdInv, NEW c \in Cmds, Inventory(c)
    PROVE  CmdInv'
<1>1. PICK l \in {"collect", "choose"} : pc' = [pc EXCEPT ![c] = l]
    BY DEF Inventory, Goto
<1>2. /\ l \in Labels /\ l # "save" /\ hash \in (SUBSET Tests) \cup {None} /\ {} \in SUBSET Tests
      /\ pc[c] = "inventory" /\ seen' = [seen EXCEPT ![c] = hash]
      /\ UNCHANGED <<holder, opts, sel>> /\ opts \in [Cmds -> AllOptions]
      /\ UNCHANGED <<disk, known, inv, hash, meta, nodes>>
    BY Parts DEF Inventory, cache, daemon, Labels, DataOK, CommandsOK
<1>3. holder # c
    BY <1>2, NoneIsNone, Parts DEF CommandsOK
<1>4. CommandsOK' /\ SaveInv'
    BY <1>1, <1>2, <1>3, Parts, GoesStep
<1> QED BY <1>2, <1>4, Parts, SameData, PartsNext

LEMMA CollectStep ==
    ASSUME CmdInv, NEW c \in Cmds, Collect(c) \/ Recollect(c)
    PROVE  CmdInv'
<1>1. PICK l \in {"choose", "listing"} : pc' = [pc EXCEPT ![c] = l]
    BY DEF Collect, Recollect, Goto
<1>2. /\ l \in Labels /\ l # "save" /\ None \in (SUBSET Tests) \cup {None} /\ {} \in SUBSET Tests
      /\ pc[c] \in {"collect", "recollect"} /\ Collected
      /\ UNCHANGED <<holder, opts, sel, seen>> /\ opts \in [Cmds -> AllOptions]
      /\ UNCHANGED <<meta, nodes>>
    BY Parts DEF Collect, Recollect, cache, Labels, CommandsOK
<1>3. holder # c
    BY <1>2, NoneIsNone, Parts DEF CommandsOK
<1>4. CommandsOK' /\ SaveInv'
    BY <1>1, <1>2, <1>3, Parts, GoesStep
<1> QED BY <1>2, <1>4, Parts, CollectedStep, PartsNext

LEMMA NoFilterStep ==
    ASSUME CmdInv, NEW c \in Cmds, NoFilter(c)
    PROVE  CmdInv'
<1>1. /\ "list" \in Labels /\ None \in (SUBSET Tests) \cup {None} /\ {} \in SUBSET Tests
      /\ pc[c] = "choose" /\ pc' = [pc EXCEPT ![c] = "list"]
      /\ seen' = [seen EXCEPT ![c] = None]
      /\ UNCHANGED <<holder, opts, sel>> /\ opts \in [Cmds -> AllOptions]
      /\ UNCHANGED <<disk, known, inv, hash, meta, nodes>>
    BY Parts DEF NoFilter, Goto, Forget, cache, daemon, Labels, CommandsOK
<1>2. holder # c
    BY <1>1, NoneIsNone, Parts DEF CommandsOK
<1>3. CommandsOK' /\ SaveInv'
    BY <1>1, <1>2, Parts, GoesStep
<1> QED BY <1>1, <1>3, Parts, SameData, PartsNext

LEMMA ListStep ==
    ASSUME CmdInv, NEW c \in Cmds, List(c)
    PROVE  CmdInv'
<1> DEFINE s == FilterByPaths(inv, opts[c].paths)
<1>1. /\ "run" \in Labels /\ None \in (SUBSET Tests) \cup {None}
      /\ pc[c] = "list" /\ pc' = [pc EXCEPT ![c] = "run"]
      /\ sel' = [sel EXCEPT ![c] = s]
      /\ UNCHANGED <<holder, opts, seen>> /\ opts \in [Cmds -> AllOptions]
      /\ UNCHANGED <<disk, known, inv, hash, meta, nodes>>
    BY Parts DEF List, Select, Goto, cache, daemon, Labels, CommandsOK
<1>2. s \in SUBSET Tests
    BY Chosen, Parts DEF DataOK
<1> HIDE DEF s
<1>3. CommandsOK' /\ SaveInv'
    BY <1>1, <1>2, Parts, GoesStep
<1> QED BY <1>1, <1>3, Parts, SameData, PartsNext

LEMMA UseCacheStep ==
    ASSUME CmdInv, NEW c \in Cmds, UseCache(c)
    PROVE  CmdInv'
<1> DEFINE s == FilterByPaths(CachedFilter(nodes, opts[c]), opts[c].paths)
<1>1. /\ "run" \in Labels /\ None \in (SUBSET Tests) \cup {None}
      /\ pc' = [pc EXCEPT ![c] = "run"] /\ holder' = c
      /\ sel' = [sel EXCEPT ![c] = s] /\ seen' = [seen EXCEPT ![c] = None]
      /\ UNCHANGED opts /\ opts \in [Cmds -> AllOptions]
      /\ UNCHANGED <<disk, known, inv, hash, meta, nodes>>
    BY Parts DEF UseCache, Select, Goto, Forget, daemon, Labels, CommandsOK
<1>2. s \in SUBSET Tests
    <2>1. CachedFilter(nodes, opts[c]) \in SUBSET Tests
        BY Chosen, Parts DEF DataOK
    <2> QED BY <2>1, Chosen
<1> HIDE DEF s
<1>3. CommandsOK' /\ SaveInv'
    BY <1>1, <1>2, Parts, GoesStep
<1> QED BY <1>1, <1>3, Parts, SameData, PartsNext

LEMMA MissCacheStep ==
    ASSUME CmdInv, NEW c \in Cmds, MissCache(c)
    PROVE  CmdInv'
<1>1. /\ "fetch" \in Labels /\ None \in (SUBSET Tests) \cup {None} /\ {} \in SUBSET Tests
      /\ pc' = [pc EXCEPT ![c] = "fetch"] /\ holder' \in {c, holder}
      /\ UNCHANGED <<opts, sel, seen>> /\ opts \in [Cmds -> AllOptions]
      /\ UNCHANGED <<disk, known, inv, hash, meta, nodes>>
    BY Parts DEF MissCache, Goto, daemon, Labels, CommandsOK
<1>2. CommandsOK' /\ SaveInv'
    BY <1>1, Parts, GoesStep
<1> QED BY <1>1, <1>2, Parts, SameData, PartsNext

LEMMA FetchStep ==
    ASSUME CmdInv, NEW c \in Cmds, Fetch(c)
    PROVE  CmdInv'
<1> DEFINE s == FilterByPaths(LocalFilter(inv, opts[c]), opts[c].paths)
<1>1. /\ {"save", "run"} \subseteq Labels /\ None \in (SUBSET Tests) \cup {None}
      /\ hash \in (SUBSET Tests) \cup {None}
      /\ sel' = [sel EXCEPT ![c] = s] /\ holder' \in {c, holder}
      /\ UNCHANGED opts /\ opts \in [Cmds -> AllOptions]
      /\ UNCHANGED <<disk, known, inv, hash, nodes>>
    BY Parts DEF Fetch, Select, daemon, Labels, CommandsOK, DataOK
<1>2. s \in SUBSET Tests
    <2>1. LocalFilter(inv, opts[c]) \in SUBSET Tests
        BY Chosen, Parts DEF DataOK
    <2> QED BY <2>1, Chosen
<1> HIDE DEF s
<1>3. CommandsOK' /\ SaveInv'
    <2>1. CASE CanOpen(c) /\ inv # {}
        <3>1. pc' = [pc EXCEPT ![c] = "save"] /\ seen' = [seen EXCEPT ![c] = hash]
            BY <2>1 DEF Fetch, Goto
        <3>2. hash # None
            BY <2>1, NoneIsNone, Parts DEF HashInv, DataOK
        <3> QED BY <1>1, <1>2, <3>1, <3>2, Parts, GoesStep
    <2>2. CASE ~(CanOpen(c) /\ inv # {})
        <3>1. pc' = [pc EXCEPT ![c] = "run"] /\ seen' = [seen EXCEPT ![c] = None]
            BY <2>2 DEF Fetch, Goto, Forget
        <3> QED BY <1>1, <1>2, <3>1, Parts, GoesStep
    <2> QED BY <2>1, <2>2
<1>4. DataOK' /\ HashInv' /\ CacheComplete'
    <2>1. CASE inv = {}
        <3>1. hash \in {{}, None}
            BY <2>1, Parts DEF HashInv
        <3> QED BY <1>1, <2>1, <3>1, Parts DEF Fetch, DataOK, HashInv, CacheComplete
    <2>2. CASE inv # {}
        BY <1>1, <2>2, Parts DEF Fetch, DataOK, HashInv, CacheComplete
    <2> QED BY <2>1, <2>2
<1> QED BY <1>3, <1>4, PartsNext

\* Nodes of the inventory are added; the metadata is written last.
LEMMA SavedStep ==
    ASSUME CmdInv, NEW c \in Cmds, Saved(c)
    PROVE  CmdInv'
<1>1. /\ "run" \in Labels /\ None \in (SUBSET Tests) \cup {None} /\ {} \in SUBSET Tests
      /\ pc' = [pc EXCEPT ![c] = "run"] /\ seen' = [seen EXCEPT ![c] = None]
      /\ UNCHANGED <<holder, opts, sel>> /\ opts \in [Cmds -> AllOptions]
    BY Parts DEF Saved, Goto, Forget, daemon, Labels, CommandsOK
<1>2. CommandsOK' /\ SaveInv'
    BY <1>1, Parts, GoesStep
<1>3. seen[c] \in SUBSET Tests
    BY Parts DEF Saved, SaveInv, CommandsOK
<1>4. DataOK' /\ HashInv' /\ CacheComplete'
    BY <1>3, Parts DEF Saved, daemon, DataOK, HashInv, CacheComplete
<1> QED BY <1>2, <1>4, PartsNext

LEMMA SaveBreaksStep ==
    ASSUME CmdInv, NEW c \in Cmds, SaveBreaks(c)
    PROVE  CmdInv'
<1>1. seen[c] \in SUBSET Tests
    BY Parts DEF SaveBreaks, SaveInv, CommandsOK
<1>2. DataOK' /\ HashInv' /\ CacheComplete'
    BY <1>1, Parts DEF SaveBreaks, daemon, DataOK, HashInv, CacheComplete
<1>3. CommandsOK' /\ SaveInv'
    <2>1. CASE Exit(c)
        BY <2>1, Parts, ExitStep
    <2>2. CASE Goto(c, "run") /\ Forget(c) /\ UNCHANGED <<disk, daemon, holder, opts, sel>>
        <3>1. /\ "run" \in Labels /\ None \in (SUBSET Tests) \cup {None} /\ {} \in SUBSET Tests
              /\ pc' = [pc EXCEPT ![c] = "run"] /\ seen' = [seen EXCEPT ![c] = None]
              /\ UNCHANGED <<holder, opts, sel>> /\ opts \in [Cmds -> AllOptions]
            BY <2>2, Parts DEF Goto, Forget, Labels, CommandsOK
        <3>2. holder' = c => "run" \in {"fetch", "save", "run"}
            OBVIOUS
        <3> QED BY <3>1, <3>2, Parts, GoesStep
    <2> QED BY <2>1, <2>2 DEF SaveBreaks
<1> QED BY <1>2, <1>3, PartsNext

LEMMA GoesOnStep ==
    ASSUME CmdInv, NEW c \in Cmds, GoesOn(c)
    PROVE  CmdInv'
<1>1. CASE Inventory(c)
    BY <1>1, InventoryStep
<1>2. CASE Collect(c) \/ Recollect(c)
    BY <1>2, CollectStep
<1>3. CASE NoFilter(c) \/ List(c)
    BY <1>3, NoFilterStep, ListStep
<1>4. CASE UseCache(c) \/ MissCache(c)
    BY <1>4, UseCacheStep, MissCacheStep
<1>5. CASE Fetch(c)
    BY <1>5, FetchStep
<1>6. CASE Saved(c) \/ SaveBreaks(c)
    BY <1>6, SavedStep, SaveBreaksStep
<1>7. CASE Run(c) \/ Listing(c) \/ Status(c) \/ Refused(c)
    BY <1>7, EndStep DEF Run, Listing, Status, Refused
<1> QED BY <1>1, <1>2, <1>3, <1>4, <1>5, <1>6, <1>7 DEF GoesOn

\* The daemon goes, or somebody edits the tests.
LEMMA WorldStep ==
    ASSUME CmdInv, Restart \/ Edit
    PROVE  CmdInv'
<1>1. UNCHANGED <<holder, pc, opts, seen, sel, meta, nodes>>
    BY DEF Restart, Edit, cache
<1>2. CommandsOK' /\ SaveInv' /\ CacheComplete'
    BY <1>1, Parts DEF CommandsOK, SaveInv, CacheComplete
<1>3. DataOK' /\ HashInv'
    BY <1>1, Parts DEF Restart, Edit, daemon, DataOK, HashInv
<1> QED BY <1>2, <1>3, PartsNext

LEMMA CmdInductive == CmdInv /\ [CmdNext]_cmdVars => CmdInv'
<1> SUFFICES ASSUME CmdInv, [CmdNext]_cmdVars PROVE CmdInv'
    OBVIOUS
<1>1. CASE Restart \/ Edit
    BY <1>1, WorldStep
<1>2. ASSUME NEW c \in Cmds, Begin(c) PROVE CmdInv'
    BY <1>2, BeginStep
<1>3. ASSUME NEW c \in Cmds, GoesOn(c) PROVE CmdInv'
    BY <1>3, GoesOnStep
<1>4. ASSUME NEW c \in Cmds, Quits(c) PROVE CmdInv'
    BY <1>4, EndStep DEF Quits
<1>5. CASE UNCHANGED cmdVars
    BY <1>5 DEF cmdVars, daemon, cache, CmdInv, CmdTypeOK, CacheComplete, HashInv, SaveInv
<1> QED BY <1>1, <1>2, <1>3, <1>4, <1>5 DEF CmdNext

-----------------------------------------------------------------------------
(* Theorems *)

LEMMA CmdInit_CmdInv == CmdInit => CmdInv
<1> SUFFICES ASSUME CmdInit PROVE CmdInv
    OBVIOUS
<1>1. DataOK /\ CacheComplete /\ HashInv
    BY DEF CmdInit, DataOK, CacheComplete, HashInv
<1>2. CommandsOK /\ SaveInv
    BY DEF CmdInit, CommandsOK, SaveInv, AllOptions, Labels
<1> QED BY <1>1, <1>2, Parts

(* The inductive invariant of the commands and their cache: a save is of an  *)
(* inventory with its hash, and only a command at the cache has it open      *)
(* (main.rs:628-700, store.rs:151-189).                                      *)
THEOREM Invariance == CmdSpec => []CmdInv
BY CmdInit_CmdInv, CmdInductive, PTL DEF CmdSpec

(* Type correctness; the cache is open only in a command that uses it, which *)
(* lets go of it when it ends or dies.                                       *)
THEOREM TypeCorrect == CmdSpec => []CmdTypeOK
<1>1. CmdInv => CmdTypeOK
    BY DEF CmdInv
<1> QED BY <1>1, Invariance, PTL

(* The cache always holds every test of the inventory its hash names,        *)
(* whatever commands die while they write it (store.rs:151-189).             *)
THEOREM CacheAlwaysComplete == CmdSpec => []CacheComplete
<1>1. CmdInv => CacheComplete
    BY DEF CmdInv
<1> QED BY <1>1, Invariance, PTL

(* A filtered run from a valid cache leaves out no test that matches of the  *)
(* inventory the daemon named, for any filter (main.rs:643-656).             *)
THEOREM CachedRunsCover == CmdSpec => CachedRunCovers
<1> DEFINE Covers(c) ==
      UseCache(c) /\ seen[c] # None =>
          FilterByPaths(CachedFilter(seen[c], opts[c]), opts[c].paths) \subseteq sel'[c]
<1>1. ASSUME CmdInv, NEW c \in Cmds
      PROVE  Covers(c)
    <2> SUFFICES ASSUME UseCache(c), seen[c] # None
                 PROVE  FilterByPaths(CachedFilter(seen[c], opts[c]), opts[c].paths) \subseteq sel'[c]
        OBVIOUS
    <2>1. meta = seen[c] /\ seen[c] \subseteq nodes
        BY <1>1, Parts DEF UseCache, CacheValid, CacheComplete
    <2>2. CachedFilter(seen[c], opts[c]) \subseteq CachedFilter(nodes, opts[c])
        BY <2>1 DEF CachedFilter
    <2>3. sel'[c] = FilterByPaths(CachedFilter(nodes, opts[c]), opts[c].paths)
        BY <1>1, Parts DEF UseCache, Select, CommandsOK
    <2> QED BY <2>2, <2>3 DEF FilterByPaths
<1>2. CmdInv /\ [CmdNext]_cmdVars => [\A c \in Cmds : Covers(c)]_cmdVars
    BY <1>1
<1> QED BY <1>2, Invariance, PTL DEF CmdSpec, CachedRunCovers

-----------------------------------------------------------------------------
(* Expressions *)

\* What e is worth when f is what its parts are worth.
Value(e, f, has) ==
    CASE e.op = "not" -> ~f[e.arg]
      [] e.op = "and" -> f[e.left] /\ f[e.right]
      [] e.op = "or"  -> f[e.left] \/ f[e.right]
      [] e.op = "is"  -> e.word \in has

\* f is right about all expressions shorter than n.
RightBelow(n, f, has) == \A e \in Exprs : Length[e] < n => f[e] = Value(e, f, has)

\* Two that agree on what is shorter than e give it one value.
LEMMA SameValue ==
    ASSUME NEW has, NEW e \in Exprs, NEW f, NEW g,
           \A x \in Exprs : Length[x] < Length[e] => f[x] = g[x]
    PROVE  Value(e, f, has) = Value(e, g, has)
<1>1. CASE e.op = "not"
  <2>1. f[e.arg] = g[e.arg]
    BY <1>1, CommandsAssumption
  <2>2. QED  BY <1>1, <2>1 DEF Value
<1>2. CASE e.op \in {"and", "or"}
  <2>1. f[e.left] = g[e.left] /\ f[e.right] = g[e.right]
    BY <1>2, CommandsAssumption
  <2>2. QED  BY <1>2, <2>1 DEF Value
<1>3. CASE e.op = "is"
  BY <1>3 DEF Value
<1>4. QED  BY <1>1, <1>2, <1>3, CommandsAssumption

LEMMA ValueType ==
    ASSUME NEW has, NEW e \in Exprs, NEW f \in [Exprs -> BOOLEAN]
    PROVE  Value(e, f, has) \in BOOLEAN
<1>1. CASE e.op = "not"
  BY <1>1 DEF Value
<1>2. CASE e.op \in {"and", "or"}
  BY <1>2 DEF Value
<1>3. CASE e.op = "is"
  BY <1>3 DEF Value
<1>4. QED  BY <1>1, <1>2, <1>3, CommandsAssumption

LEMMA SomeRight ==
    ASSUME NEW has, NEW n \in Nat
    PROVE  \E f \in [Exprs -> BOOLEAN] : RightBelow(n, f, has)
<1> DEFINE Good(k) == \E f \in [Exprs -> BOOLEAN] : RightBelow(k, f, has)
           S == {k \in 0 .. n : Good(k)}
<1>1. 0 \in S
  <2>1. [e \in Exprs |-> TRUE] \in [Exprs -> BOOLEAN] /\ RightBelow(0, [e \in Exprs |-> TRUE], has)
    <3>1. \A e \in Exprs : ~(Length[e] < 0)
      BY CommandsAssumption
    <3>2. QED  BY <3>1 DEF RightBelow
  <2>2. Good(0)
    BY <2>1, Zenon
  <2>3. QED  BY <2>2
<1>2. ASSUME NEW k \in 0 .. n - 1, k \in S  PROVE k + 1 \in S
  <2>1. PICK f \in [Exprs -> BOOLEAN] : RightBelow(k, f, has)
    BY <1>2
  <2> DEFINE g == [e \in Exprs |-> Value(e, f, has)]
  <2>2. g \in [Exprs -> BOOLEAN]
    BY ValueType
  <2>3. \A e \in Exprs : g[e] = Value(e, f, has)
    OBVIOUS
  <2> HIDE DEF g
  <2>4. ASSUME NEW e \in Exprs, Length[e] < k + 1  PROVE g[e] = Value(e, g, has)
    <3>1. ASSUME NEW x \in Exprs, Length[x] < Length[e]  PROVE f[x] = g[x]
      <4>1. Length[x] < k
        BY <2>4, <3>1, CommandsAssumption
      <4>2. QED  BY <2>1, <2>3, <4>1 DEF RightBelow
    <3>2. Value(e, f, has) = Value(e, g, has)
      BY <3>1, SameValue
    <3>3. QED  BY <2>3, <3>2
  <2>5. Good(k + 1)
    BY <2>2, <2>4 DEF RightBelow
  <2>6. QED  BY <2>5
<1>3. 0 .. n \subseteq S
  <2> HIDE DEF S
  <2>1. QED  BY <1>1, <1>2, UpTo
<1>4. QED  BY <1>3

LEMMA OneRight ==
    ASSUME NEW has, NEW m \in Nat, NEW n \in Nat, NEW f, NEW g,
           RightBelow(m, f, has), RightBelow(n, g, has),
           NEW e \in Exprs, Length[e] < m, Length[e] < n
    PROVE  f[e] = g[e]
<1> DEFINE S == {Length[x] : x \in {y \in Exprs : Length[y] <= Length[e] /\ f[y] # g[y]}}
<1>1. SUFFICES ASSUME f[e] # g[e]  PROVE FALSE
  OBVIOUS
<1>2. PICK k \in S : \A l \in S : k <= l
  <2>1. S \in SUBSET Nat
    BY CommandsAssumption
  <2>2. Length[e] \in S
    BY <1>1, CommandsAssumption
  <2> HIDE DEF S
  <2>3. QED  BY <2>1, <2>2, LeastNumber
<1>3. PICK x \in Exprs : k = Length[x] /\ Length[x] <= Length[e] /\ f[x] # g[x]
  BY <1>2
<1>4. ASSUME NEW y \in Exprs, Length[y] < Length[x]  PROVE f[y] = g[y]
  <2>1. Length[y] <= Length[e] /\ ~(k <= Length[y])
    BY <1>3, <1>4, CommandsAssumption
  <2>2. QED  BY <1>2, <2>1
<1>5. Value(x, f, has) = Value(x, g, has)
  BY <1>4, SameValue
<1>6. Length[x] < m /\ Length[x] < n
  BY <1>3, CommandsAssumption
<1>7. QED  BY <1>3, <1>5, <1>6 DEF RightBelow

(* matches_keyword and matches_marker come to an end, for the parts of an    *)
(* expression are shorter; a word matches what has it.                       *)
LEMMA MatchesWord ==
    ASSUME NEW has, NEW e \in Exprs, e.op = "is"
    PROVE  Matches(e, has) = (e.word \in has)
<1> DEFINE F(n) == CHOOSE f \in [Exprs -> BOOLEAN] : RightBelow(n, f, has)
           h == [x \in Exprs |-> F(Length[x] + 1)[x]]
           Rec(f) == [x \in Exprs |-> Value(x, f, has)]
<1>1. \A n \in Nat : F(n) \in [Exprs -> BOOLEAN] /\ RightBelow(n, F(n), has)
  BY SomeRight
<1> HIDE DEF F
<1>2. \A x \in Exprs : h[x] = F(Length[x] + 1)[x]
  OBVIOUS
<1>3. DOMAIN h = Exprs /\ h = [x \in Exprs |-> h[x]]
  OBVIOUS
<1> HIDE DEF h
<1>4. ASSUME NEW x \in Exprs  PROVE h[x] = Value(x, h, has)
  <2>1. PICK n \in Nat : n = Length[x] + 1
    BY CommandsAssumption
  <2>2. RightBelow(n, F(n), has) /\ Length[x] < n
    BY <1>1, <2>1, CommandsAssumption
  <2>3. h[x] = F(n)[x] /\ F(n)[x] = Value(x, F(n), has)
    BY <1>2, <2>1, <2>2 DEF RightBelow
  <2>4. ASSUME NEW y \in Exprs, Length[y] < Length[x]  PROVE F(n)[y] = h[y]
    <3>1. PICK m \in Nat : m = Length[y] + 1
      BY CommandsAssumption
    <3>2. RightBelow(m, F(m), has) /\ Length[y] < m /\ Length[y] < n
      BY <1>1, <2>1, <2>4, <3>1, CommandsAssumption
    <3>3. F(n)[y] = F(m)[y]
      BY <2>2, <3>2, OneRight
    <3>4. QED  BY <1>2, <3>1, <3>3
  <2>5. Value(x, F(n), has) = Value(x, h, has)
    BY <2>4, SameValue
  <2>6. QED  BY <2>3, <2>5
<1>5. h = Rec(h)
  <2>1. \A x \in Exprs : h[x] = Rec(h)[x]
    BY <1>4
  <2>2. Rec(h) = [x \in Exprs |-> Rec(h)[x]]
    OBVIOUS
  <2> HIDE DEF Rec
  <2>3. QED  BY <1>3, <2>1, <2>2
<1> DEFINE q == CHOOSE f : f = Rec(f)
<1>6. q = Rec(q)
  <2> HIDE DEF Rec
  <2>1. QED  BY <1>5
<1>7. Matches(e, has) = q[e]
  BY DEF Matches, Value
<1> HIDE DEF q
<1>8. Rec(q)[e] = (e.word \in has)
  BY DEF Value
<1>9. QED  BY <1>6, <1>7, <1>8, Zenon

-----------------------------------------------------------------------------
(* What is run *)

\* The tests that options allow.
Allowed(o) ==
    {t \in CachedFilter(Tests, o) : o.paths # {} => t \in UNION {Begins[p] : p \in o.paths}}

\* A command without a filter lists, and one that runs has chosen what its
\* options allow.
ChosenWell(l, o, s) ==
    /\ l = "list" => o.keyword = None /\ o.marker = None
    /\ l \in {"save", "run"} => s \subseteq Allowed(o)

RunInv == \A c \in Cmds : ChosenWell(pc[c], opts[c], sel[c])

(* Every choice is filtered by paths, of tests that the options allow. *)
LEMMA PathsAllow ==
    ASSUME NEW o, NEW s \in SUBSET CachedFilter(Tests, o)
    PROVE  FilterByPaths(s, o.paths) \subseteq Allowed(o)
BY DEF FilterByPaths, Allowed

(* The filter of a command that fetched the inventory is the narrower one. *)
LEMMA LocalAllows ==
    ASSUME NEW o \in AllOptions, NEW s \in SUBSET Tests
    PROVE  LocalFilter(s, o) \in SUBSET CachedFilter(Tests, o)
<1>1. {o.keyword, o.marker} \subseteq Exprs \cup {None}
  <2>1. CASE o = NoOptions \/ o = Merged(NoOptions)
    BY <2>1 DEF NoOptions, Merged
  <2>2. ASSUME NEW p \in Options, o = Merged(p)  PROVE o.keyword = p.keyword /\ o.marker = p.marker
    <3>1. CASE p.paths = {}
      <4>1. o = [p EXCEPT !.paths = TestPaths] /\ DOMAIN p = {"keyword", "marker", "paths"}
        BY <2>2, <3>1, CommandsAssumption DEF Merged
      <4>2. QED  BY <4>1
    <3>2. CASE p.paths # {}
      BY <2>2, <3>2 DEF Merged
    <3>3. QED  BY <3>1, <3>2
  <2>3. QED  BY <2>1, <2>2, CommandsAssumption DEF AllOptions
<1>2. ASSUME NEW t \in LocalFilter(s, o)  PROVE t \in CachedFilter(Tests, o)
  <2>1. t \in Tests
    BY <1>2 DEF LocalFilter
  <2>2. ASSUME o.keyword # None  PROVE Matches(o.keyword, Keywords(t))
    <3>1. o.keyword \in Exprs /\ o.keyword.op = "is" /\ o.keyword.word \in Words[t]
      BY <1>1, <1>2, <2>2 DEF LocalFilter
    <3>2. Matches(o.keyword, Keywords(t)) = (o.keyword.word \in Keywords(t))
      BY <3>1, MatchesWord
    <3>3. QED  BY <3>1, <3>2 DEF Keywords
  <2>3. ASSUME o.marker # None  PROVE Matches(o.marker, Markers[t])
    <3>1. o.marker \in Exprs /\ o.marker.op = "is" /\ o.marker.word \in Markers[t]
      BY <1>1, <1>2, <2>3 DEF LocalFilter
    <3>2. Matches(o.marker, Markers[t]) = (o.marker.word \in Markers[t])
      BY <3>1, MatchesWord
    <3>3. QED  BY <3>1, <3>2
  <2>4. QED  BY <2>1, <2>2, <2>3 DEF CachedFilter
<1>3. QED  BY <1>2

(* A step of one command leaves the others as they are. *)
LEMMA OneMoves ==
    ASSUME RunInv, CommandsOK, NEW c \in Cmds, NEW l, NEW o, NEW s,
           pc' = [pc EXCEPT ![c] = l],
           (opts' = opts /\ o = opts[c]) \/ opts' = [opts EXCEPT ![c] = o],
           (sel' = sel /\ s = sel[c]) \/ sel' = [sel EXCEPT ![c] = s],
           ChosenWell(l, o, s)
    PROVE  RunInv'
<1>1. pc'[c] = l /\ opts'[c] = o /\ sel'[c] = s
  BY DEF CommandsOK
<1>2. \A d \in Cmds : d # c => pc'[d] = pc[d] /\ opts'[d] = opts[d] /\ sel'[d] = sel[d]
  BY DEF CommandsOK
<1>3. ASSUME NEW d \in Cmds  PROVE ChosenWell(pc'[d], opts'[d], sel'[d])
  <2>1. CASE d = c
    BY <1>1, <2>1
  <2>2. CASE d # c
    BY <1>2, <2>2 DEF RunInv
  <2>3. QED  BY <2>1, <2>2
<1>4. QED  BY <1>3 DEF RunInv

LEMMA RunStep ==
    ASSUME CmdInv, RunInv, NEW c \in Cmds, Begin(c) \/ GoesOn(c) \/ Quits(c)
    PROVE  RunInv'
<1>1. CommandsOK /\ opts[c] \in AllOptions /\ inv \subseteq Tests /\ nodes \subseteq Tests
  BY Parts DEF CommandsOK, DataOK
<1>2. ChosenWell(pc[c], opts[c], sel[c])
  BY DEF RunInv
<1>3. CASE Begin(c)
  <2>1. PICK l \in {"inventory", "recollect", "status"} : \E o \in Options \cup {NoOptions} : Open(c, l, o)
    BY <1>3 DEF Begin
  <2>2. PICK o \in Options \cup {NoOptions} : Open(c, l, o)
    BY <2>1
  <2>3. ChosenWell(l, Merged(o), sel[c])
    BY DEF ChosenWell
  <2>4. QED  BY <1>1, <2>2, <2>3, OneMoves DEF Open, Goto
<1>4. CASE Exit(c)
  <2>1. ChosenWell("off", NoOptions, {})
    BY DEF ChosenWell
  <2>2. QED  BY <1>1, <1>4, <2>1, OneMoves DEF Exit
<1>5. CASE Inventory(c) \/ Collect(c) \/ Recollect(c) \/ MissCache(c)
  <2>1. PICK l \in {"collect", "choose", "listing", "fetch"} : Goto(c, l) /\ UNCHANGED <<opts, sel>>
    BY <1>5 DEF Inventory, Collect, Recollect, MissCache
  <2>2. ChosenWell(l, opts[c], sel[c])
    BY DEF ChosenWell
  <2>3. QED  BY <1>1, <2>1, <2>2, OneMoves DEF Goto
<1>6. CASE NoFilter(c)
  <2>1. ChosenWell("list", opts[c], sel[c])
    BY <1>6 DEF NoFilter, Filtered, ChosenWell
  <2>2. QED  BY <1>1, <1>6, <2>1, OneMoves DEF NoFilter, Goto
<1>7. CASE List(c)
  <2> DEFINE s == FilterByPaths(inv, opts[c].paths)
  <2>1. inv \in SUBSET CachedFilter(Tests, opts[c])
    BY <1>1, <1>2, <1>7 DEF List, ChosenWell, CachedFilter
  <2>2. s \subseteq Allowed(opts[c])
    BY <2>1, PathsAllow
  <2>3. Goto(c, "run") /\ UNCHANGED opts /\ sel' = [sel EXCEPT ![c] = s]
    BY <1>7 DEF List, Select
  <2> HIDE DEF s
  <2>4. ChosenWell("run", opts[c], s)
    BY <2>2 DEF ChosenWell
  <2>5. QED  BY <1>1, <2>3, <2>4, OneMoves DEF Goto
<1>8. CASE UseCache(c)
  <2> DEFINE s == FilterByPaths(CachedFilter(nodes, opts[c]), opts[c].paths)
  <2>1. CachedFilter(nodes, opts[c]) \in SUBSET CachedFilter(Tests, opts[c])
    BY <1>1 DEF CachedFilter
  <2>2. s \subseteq Allowed(opts[c])
    BY <2>1, PathsAllow
  <2>3. Goto(c, "run") /\ UNCHANGED opts /\ sel' = [sel EXCEPT ![c] = s]
    BY <1>8 DEF UseCache, Select
  <2> HIDE DEF s
  <2>4. ChosenWell("run", opts[c], s)
    BY <2>2 DEF ChosenWell
  <2>5. QED  BY <1>1, <2>3, <2>4, OneMoves DEF Goto
<1>9. CASE Fetch(c)
  <2> DEFINE s == FilterByPaths(LocalFilter(inv, opts[c]), opts[c].paths)
  <2>1. LocalFilter(inv, opts[c]) \in SUBSET CachedFilter(Tests, opts[c])
    BY <1>1, LocalAllows
  <2>2. s \subseteq Allowed(opts[c])
    BY <2>1, PathsAllow
  <2>3. UNCHANGED opts /\ sel' = [sel EXCEPT ![c] = s]
    BY <1>9 DEF Fetch, Select
  <2>4. PICK l \in {"save", "run"} : Goto(c, l)
    BY <1>9 DEF Fetch
  <2> HIDE DEF s
  <2>5. ChosenWell(l, opts[c], s)
    BY <2>2 DEF ChosenWell
  <2>6. QED  BY <1>1, <2>3, <2>4, <2>5, OneMoves DEF Goto
<1>10. CASE pc[c] = "save" /\ Goto(c, "run") /\ UNCHANGED <<opts, sel>>
  <2>1. ChosenWell("run", opts[c], sel[c])
    BY <1>2, <1>10 DEF ChosenWell
  <2>2. QED  BY <1>1, <1>10, <2>1, OneMoves DEF Goto
<1>11. CASE GoesOn(c)
  <2>1. CASE Saved(c) \/ SaveBreaks(c)
    BY <1>4, <1>10, <2>1 DEF Saved, SaveBreaks
  <2>2. CASE Run(c) \/ Listing(c) \/ Status(c) \/ Refused(c)
    BY <1>4, <2>2 DEF Run, Listing, Status, Refused
  <2>3. QED  BY <1>5, <1>6, <1>7, <1>8, <1>9, <1>11, <2>1, <2>2 DEF GoesOn
<1>12. CASE Quits(c)
  BY <1>4, <1>12 DEF Quits
<1>13. QED  BY <1>3, <1>11, <1>12

(* A run with -k, -m or paths runs nothing they do not match, from the cache *)
(* or without it, whatever expressions it is given: the filter of a command  *)
(* that fetched the inventory is narrower than that of the cache             *)
(* (main.rs:675-690, nodes.rs:187-245).                                      *)
THEOREM NothingElseIsRun == CmdSpec => []NothingElseRuns
<1>1. CmdInit => RunInv
  BY DEF CmdInit, RunInv, ChosenWell
<1>2. ASSUME CmdInv, RunInv, [CmdNext]_cmdVars  PROVE RunInv'
  <2>1. CASE UNCHANGED <<pc, opts, sel>>
    BY <1>2, <2>1 DEF RunInv
  <2>2. Restart \/ Edit \/ UNCHANGED cmdVars => UNCHANGED <<pc, opts, sel>>
    BY DEF Restart, Edit, cmdVars
  <2>3. QED  BY <1>2, <2>1, <2>2, RunStep DEF CmdNext
<1>3. ASSUME CmdInv, RunInv  PROVE NothingElseRuns
  BY <1>3 DEF RunInv, ChosenWell, Allowed, NothingElseRuns
<1>4. QED  BY <1>1, <1>2, <1>3, Invariance, PTL DEF CmdSpec
=============================================================================
