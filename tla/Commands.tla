------------------------------- MODULE Commands -------------------------------
(***************************************************************************)
(* The commands that look at or run tests (rpytest/src/main.rs) and the    *)
(* inventory they cache in the repository (cache/mod.rs, and store.rs and  *)
(* nodes.rs of rpytest-core). Several commands may be under way; each      *)
(* request to the daemon is one step, for the daemon serves one at a time  *)
(* (DaemonServer), and the cache is a database only one process can open.  *)
(* -k and -m hold a word or what matches_keyword and matches_marker split  *)
(* an expression into, where `not' takes all that follows it.              *)
(***************************************************************************)
EXTENDS Naturals, FiniteSets

CONSTANTS
    Cmds,      \* the command lines
    Tests,     \* node ids
    Words,     \* what the id of a test contains of the words asked for
    Markers,   \* its markers
    Exprs,     \* expressions and their parts
    Length,    \* how long an expression is; its parts are cut from it
    Options,   \* the options commands are given: -k, -m and paths
    Paths,     \* what may be named on the command line
    TestPaths, \* testpaths of the configuration
    Begins,    \* the ids a path is the beginning of, or whose file is in it
    None       \* no filter, no hash, no holder

ASSUME CommandsAssumption ==
    /\ Words \in [Tests -> SUBSET STRING] /\ Markers \in [Tests -> SUBSET STRING]
    /\ Length \in [Exprs -> Nat]
    /\ \A e \in Exprs :
          /\ e.op \in {"not", "and", "or", "is"}
          /\ e.op = "not" => e.arg \in Exprs /\ Length[e.arg] < Length[e]
          /\ e.op \in {"and", "or"} => /\ e.left \in Exprs /\ Length[e.left] < Length[e]
                                      /\ e.right \in Exprs /\ Length[e.right] < Length[e]
    /\ \A o \in Options : /\ DOMAIN o = {"keyword", "marker", "paths"}
                          /\ {o.keyword, o.marker} \subseteq Exprs \cup {None}
                          /\ o.paths \subseteq Paths
    /\ TestPaths \subseteq Paths
    /\ Begins \in [Paths -> SUBSET Tests]
    /\ \A c \in Cmds : c # None
    /\ \A s \in SUBSET Tests : s # None

VARIABLES
    disk,    \* the tests in the files
    known,   \* whether the daemon has the context
    inv,     \* its inventory, and
    hash,    \* its hash, None for the empty string of a new context
    meta,    \* the hash in the cache, None before anything was cached
    nodes,   \* the nodes in the cache
    holder,  \* the command that has the cache open
    pc,      \* where each command is
    opts,    \* its options
    seen,    \* the inventory hash it was told
    sel      \* the tests it has chosen

daemon == <<known, inv, hash>>
cache  == <<meta, nodes, holder>>
cmdVars == <<disk, daemon, cache, pc, opts, seen, sel>>

NoOptions == [keyword |-> None, marker |-> None, paths |-> {}]

CmdInit ==
    /\ disk \in SUBSET Tests
    /\ known = FALSE /\ inv = {} /\ hash = None
    /\ meta = None /\ nodes = {} /\ holder = None
    /\ pc = [c \in Cmds |-> "off"]
    /\ opts = [c \in Cmds |-> NoOptions]
    /\ seen = [c \in Cmds |-> None]
    /\ sel = [c \in Cmds |-> {}]

-----------------------------------------------------------------------------
(* Filters *)

\* TestNode::matches_keyword, matches_marker: does e hold of what a test has.
Matches(e, has) ==
    LET holds[x \in Exprs] ==
            CASE x.op = "not" -> ~holds[x.arg]
              [] x.op = "and" -> holds[x.left] /\ holds[x.right]
              [] x.op = "or"  -> holds[x.left] \/ holds[x.right]
              [] x.op = "is"  -> x.word \in has
    IN  holds[e]

\* build_keywords: the markers are keywords too.
Keywords(t) == Words[t] \cup Markers[t]

\* Inventory::filter, of the cached nodes.
CachedFilter(s, o) ==
    {t \in s : /\ o.keyword # None => Matches(o.keyword, Keywords(t))
               /\ o.marker # None => Matches(o.marker, Markers[t])}

\* The filter handle_run applies to an inventory it has just fetched takes
\* an expression for a word, which no node id and no marker contains.
LocalFilter(s, o) ==
    {t \in s : /\ o.keyword # None => o.keyword.op = "is" /\ o.keyword.word \in Words[t]
               /\ o.marker # None => o.marker.op = "is" /\ o.marker.word \in Markers[t]}

FilterByPaths(s, paths) ==
    IF paths = {} THEN s ELSE {t \in s : \E p \in paths : t \in Begins[p]}

-----------------------------------------------------------------------------
(* A command begins, ends, and may die *)

\* Mutant: the lock stays.
ExitLocked(c) ==
    /\ pc' = [pc EXCEPT ![c] = "off"]
    /\ opts' = [opts EXCEPT ![c] = NoOptions]
    /\ seen' = [seen EXCEPT ![c] = None]
    /\ sel' = [sel EXCEPT ![c] = {}]
    /\ UNCHANGED holder

\* The command line exits, and with it its lock on the cache.
Exit(c) ==
    /\ pc' = [pc EXCEPT ![c] = "off"]
    /\ opts' = [opts EXCEPT ![c] = NoOptions]
    /\ seen' = [seen EXCEPT ![c] = None]
    /\ sel' = [sel EXCEPT ![c] = {}]
    /\ holder' = IF holder = c THEN None ELSE holder

Goto(c, l) == pc' = [pc EXCEPT ![c] = l]

\* The hash told is not looked at again.
Forget(c) == seen' = [seen EXCEPT ![c] = None]

\* merge_with_config: the configured paths, when none are given.
Merged(o) == IF o.paths = {} THEN [o EXCEPT !.paths = TestPaths] ELSE o

\* Connect and InitContext, which makes the context when there is none.
Open(c, l, o) ==
    /\ pc[c] = "off"
    /\ Goto(c, l)
    /\ opts' = [opts EXCEPT ![c] = Merged(o)]
    /\ known' = TRUE
    /\ UNCHANGED <<disk, inv, hash, cache, seen, sel>>

\* A request for a context the daemon does not have: an error, and the
\* command gives up.
Refused(c) ==
    /\ \/ pc[c] \in {"inventory", "collect", "list", "fetch", "recollect", "listing", "status"}
       \/ pc[c] = "run" /\ sel[c] # {}
    /\ ~known
    /\ Exit(c)
    /\ UNCHANGED <<disk, daemon, meta, nodes>>

\* Any command may be interrupted, or its request fail or time out.
Quits(c) ==
    /\ pc[c] \notin {"off", "save"}
    /\ Exit(c)
    /\ UNCHANGED <<disk, daemon, meta, nodes>>

-----------------------------------------------------------------------------
(* handle_run *)

\* The inventory: its hash is kept, also when it is empty and the command
\* has the tests collected.
Inventory(c) ==
    /\ pc[c] = "inventory" /\ known
    /\ seen' = [seen EXCEPT ![c] = hash]
    /\ Goto(c, IF inv = {} THEN "collect" ELSE "choose")
    /\ UNCHANGED <<disk, daemon, cache, opts, sel>>

\* What Collect(force) does to a context.
Collected ==
    /\ known
    /\ inv' = inv \cup disk
    /\ hash' = inv'
    /\ UNCHANGED <<disk, known>>

Collect(c) ==
    /\ pc[c] = "collect"
    /\ Collected
    /\ Goto(c, "choose")
    /\ UNCHANGED <<cache, opts, seen, sel>>

Filtered(c) == opts[c].keyword # None \/ opts[c].marker # None

\* Mutant: paths are for runs without a filter.
SelectUnlessFiltered(c, s) ==
    sel' = [sel EXCEPT ![c] = IF opts[c].keyword = None /\ opts[c].marker = None
                                THEN {t \in s : opts[c].paths = {} \/ \E p \in opts[c].paths : t \in Begins[p]}
                                ELSE s]

Select(c, s) == sel' = [sel EXCEPT ![c] = FilterByPaths(s, opts[c].paths)]

NoFilter(c) ==
    /\ pc[c] = "choose" /\ ~Filtered(c)
    /\ Goto(c, "list") /\ Forget(c)
    /\ UNCHANGED <<disk, daemon, cache, opts, sel>>

List(c) ==
    /\ pc[c] = "list" /\ known
    /\ Select(c, inv)
    /\ Goto(c, "run")
    /\ UNCHANGED <<disk, daemon, cache, opts, seen>>

CanOpen(c) == holder \in {None, c}

\* get_inventory: a cache without nodes is none.
Nothing == nodes = {}

\* Mutant: a cache that holds anything is used.
CacheValidAlways(c) == ~Nothing

\* is_cache_valid. The hash of a context that collected nothing yet, the
\* empty string, is that of no metadata too.
CacheValid(c) == ~Nothing /\ meta = seen[c]

\* The cache is open and valid.
UseCache(c) ==
    /\ pc[c] = "choose" /\ Filtered(c)
    /\ CanOpen(c) /\ CacheValid(c)
    /\ holder' = c
    /\ Select(c, CachedFilter(nodes, opts[c]))
    /\ Goto(c, "run") /\ Forget(c)
    /\ UNCHANGED <<disk, daemon, meta, nodes, opts>>

\* It is not, or another command has it.
MissCache(c) ==
    /\ pc[c] = "choose" /\ Filtered(c)
    /\ CanOpen(c) => ~CacheValid(c)
    /\ holder' = IF CanOpen(c) THEN c ELSE holder
    /\ Goto(c, "fetch")
    /\ UNCHANGED <<disk, daemon, meta, nodes, opts, seen, sel>>

\* The inventory is asked for again, filtered here and then cached; seen is
\* the hash it comes with.
Fetch(c) ==
    /\ pc[c] = "fetch" /\ known
    /\ Select(c, LocalFilter(inv, opts[c]))
    /\ holder' = IF CanOpen(c) THEN c ELSE holder
    /\ IF CanOpen(c) /\ inv # {}
         THEN Goto(c, "save") /\ seen' = [seen EXCEPT ![c] = hash]
         ELSE Goto(c, "run") /\ Forget(c)
    /\ meta' = IF CanOpen(c) /\ inv = {} THEN hash ELSE meta
    /\ UNCHANGED <<disk, daemon, nodes, opts>>

\* Inventory::save: nodes are added one by one, then the metadata is set.
\* Nodes of tests that are no more stay.
Saved(c) ==
    /\ pc[c] = "save"
    /\ nodes' = nodes \cup seen[c]
    /\ meta' = seen[c]
    /\ Goto(c, "run") /\ Forget(c)
    /\ UNCHANGED <<disk, daemon, holder, opts, sel>>

\* Mutant: the metadata is written first.
SaveBreaksAfterMeta(c) ==
    /\ pc[c] = "save"
    /\ \E some \in SUBSET seen[c] : nodes' = nodes \cup some
    /\ meta' = seen[c]
    /\ \/ Exit(c) /\ UNCHANGED <<disk, daemon>>
       \/ Goto(c, "run") /\ Forget(c) /\ UNCHANGED <<disk, daemon, holder, opts, sel>>

\* A write fails, which is ignored, or the command dies in the middle.
SaveBreaks(c) ==
    /\ pc[c] = "save"
    /\ \E some \in SUBSET seen[c] : nodes' = nodes \cup some
    /\ UNCHANGED meta
    /\ \/ Exit(c) /\ UNCHANGED <<disk, daemon>>
       \/ Goto(c, "run") /\ Forget(c) /\ UNCHANGED <<disk, daemon, holder, opts, sel>>

\* Run, or nothing to run: the command ends.
Run(c) ==
    /\ pc[c] = "run"
    /\ known \/ sel[c] = {}
    /\ Exit(c)
    /\ UNCHANGED <<disk, daemon, meta, nodes>>

-----------------------------------------------------------------------------
(* handle_collect_only, handle_inventory_status *)

Recollect(c) ==
    /\ pc[c] = "recollect"
    /\ Collected
    /\ Goto(c, "listing")
    /\ UNCHANGED <<cache, opts, seen, sel>>

\* The tests listed are shown.
Listing(c) ==
    /\ pc[c] = "listing" /\ known
    /\ Exit(c)
    /\ UNCHANGED <<disk, daemon, meta, nodes>>

\* The inventory is shown, whatever it holds.
Status(c) ==
    /\ pc[c] = "status" /\ known
    /\ Exit(c)
    /\ UNCHANGED <<disk, daemon, meta, nodes>>

-----------------------------------------------------------------------------
(* The rest of the world *)

\* The daemon goes and the next command finds a new one.
Restart ==
    /\ known' = FALSE /\ inv' = {} /\ hash' = None
    /\ UNCHANGED <<disk, cache, pc, opts, seen, sel>>

Edit ==
    /\ disk' \in SUBSET Tests
    /\ UNCHANGED <<daemon, cache, pc, opts, seen, sel>>

Begin(c) ==
    \/ \E o \in Options : Open(c, "inventory", o)
    \/ Open(c, "recollect", NoOptions)
    \/ Open(c, "status", NoOptions)

GoesOn(c) ==
    \/ Inventory(c) \/ Collect(c)
    \/ NoFilter(c) \/ List(c)
    \/ UseCache(c) \/ MissCache(c) \/ Fetch(c) \/ Saved(c) \/ SaveBreaks(c)
    \/ Run(c) \/ Recollect(c) \/ Listing(c) \/ Status(c)
    \/ Refused(c)

CmdNext == Restart \/ Edit \/ \E c \in Cmds : Begin(c) \/ GoesOn(c) \/ Quits(c)

CmdSpec == CmdInit /\ [][CmdNext]_cmdVars

-----------------------------------------------------------------------------
(* Properties *)

CmdTypeOK ==
    /\ disk \subseteq Tests /\ known \in BOOLEAN
    /\ inv \subseteq Tests /\ hash \in (SUBSET Tests) \cup {None}
    /\ meta \in (SUBSET Tests) \cup {None} /\ nodes \subseteq Tests
    /\ holder \in Cmds \cup {None}
    /\ holder # None => pc[holder] \in {"fetch", "save", "run"}
    /\ pc \in [Cmds -> {"off", "inventory", "collect", "choose", "list", "fetch", "save",
                        "run", "recollect", "listing", "status"}]
    /\ opts \in [Cmds -> {NoOptions} \cup {Merged(o) : o \in Options \cup {NoOptions}}]
    /\ seen \in [Cmds -> (SUBSET Tests) \cup {None}]
    /\ sel \in [Cmds -> SUBSET Tests]

(* The cache holds every test of the inventory its hash names, whatever      *)
(* commands were interrupted while they wrote it and however often the       *)
(* daemon or the tests changed in between (store.rs:151-189).                *)
CacheComplete == meta # None => meta \subseteq nodes

(* A filtered run from a valid cache leaves out no test that matches of the  *)
(* inventory the daemon named (main.rs:643-656, cache/mod.rs:129-143).       *)
CachedRunCovers ==
    [][\A c \in Cmds : UseCache(c) /\ seen[c] # None =>
          FilterByPaths(CachedFilter(seen[c], opts[c]), opts[c].paths) \subseteq sel'[c]]_cmdVars

(* A run with -k, -m or paths runs nothing they do not match, from the cache *)
(* or without it (main.rs:442-499, 675-690, nodes.rs:174-245).               *)
NothingElseRuns ==
    \A c \in Cmds : pc[c] = "run" =>
        /\ sel[c] \subseteq CachedFilter(Tests, opts[c])
        /\ opts[c].paths # {} => sel[c] \subseteq UNION {Begins[p] : p \in opts[c].paths}
=============================================================================
