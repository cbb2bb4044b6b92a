--------------------------- MODULE PluginRegistry ---------------------------
(***************************************************************************)
(* cytadel_plugin_registry_load: the plugin files are registered in name   *)
(* order, the dependency graph is checked, and a topological sort (Kahn's  *)
(* algorithm, lowest index first) puts every plugin behind its             *)
(* dependencies.  A file that does not register is skipped; a graph that   *)
(* is not sound refuses the whole directory.                               *)
(***************************************************************************)
EXTENDS Integers, Sequences, FiniteSets, Functions

VARIABLES
    reg,    \* the step, the files not yet read (in strcmp order; a file is what
            \* its chunk does and the header it registers), the headers, and
            \* the in-degrees and the order of the sort
    oom     \* how many allocations (or opendir) have failed

Wildcard(k) == k[1] = "Services/*"

\* One wildcard at most, and none that is malformed or empty.
RequiredKeysOk(keys) ==
    /\ \A i \in DOMAIN keys : keys[i] # <<"malformed">>
    /\ Cardinality({i \in DOMAIN keys : Wildcard(keys[i])}) <= 1

\* The chunk loads and runs, calls register{} once with the fields it needs,
\* and leaves a global run().
RegisterOneFile(f) == f.loads /\ f.registers = 1 /\ RequiredKeysOk(f.keys) /\ f.run

Header(f) == [id |-> f.id, deps |-> f.deps, keys |-> f.keys]

Registered(headers, id) == \E i \in DOMAIN headers : headers[i].id = id

RegInit(d) ==
    reg = [pc |-> "open", dir |-> d, headers |-> <<>>, degree |-> <<>>, order |-> <<>>]

\* opendir fails, or memory for the names, the headers or the graph runs out
\* (inside the sort that is reported as a cycle): nothing is loaded.
LoadFails(max) ==
    /\ reg.pc \in {"open", "register", "check", "sort"}
    /\ oom < max
    /\ oom' = oom + 1
    /\ reg' = [reg EXCEPT !.pc = "unavailable", !.dir = <<>>, !.headers = <<>>,
                          !.degree = <<>>, !.order = <<>>]

ScanFilenames ==
    /\ reg.pc = "open"
    /\ reg' = [reg EXCEPT !.pc = "register"]
    /\ UNCHANGED oom

\* The file at the head of the list: the first file with a script_id wins.
RegisterFile ==
    /\ reg.pc = "register" /\ reg.dir # <<>>
    /\ LET f == Head(reg.dir)
           keep == RegisterOneFile(f) /\ ~Registered(reg.headers, f.id)
       IN  reg' = [reg EXCEPT !.dir = Tail(@),
                              !.headers = IF keep THEN Append(@, Header(f)) ELSE @]
    /\ UNCHANGED oom

Listed ==
    /\ reg.pc = "register" /\ reg.dir = <<>>
    /\ reg' = [reg EXCEPT !.pc = "check"]
    /\ UNCHANGED oom

MissingDependency(headers) ==
    \E i \in DOMAIN headers : \E d \in DOMAIN headers[i].deps :
        ~Registered(headers, headers[i].deps[d])

\* A dependency listed twice counts twice.
InDegree(headers) == [i \in DOMAIN headers |-> Len(headers[i].deps)]

CheckDependencies ==
    /\ reg.pc = "check"
    /\ reg' = IF MissingDependency(reg.headers)
              THEN [reg EXCEPT !.pc = "refused"]
              ELSE [reg EXCEPT !.pc = "sort", !.degree = InDegree(reg.headers)]
    /\ UNCHANGED oom

Placed == {reg.order[i] : i \in DOMAIN reg.order}

Ready == {i \in DOMAIN reg.headers : i \notin Placed /\ reg.degree[i] = 0}

Lowest(S) == CHOOSE i \in S : \A j \in S : i <= j

(* Mutant: a duplicate dependency is paid off once. *)
MentionsOnce(deps, id) == IF \E d \in DOMAIN deps : deps[d] = id THEN 1 ELSE 0

Mentions(deps, id) == Cardinality({d \in DOMAIN deps : deps[d] = id})

\* The lowest ready index is placed and every unplaced plugin loses one
\* degree for each time it names it.
PlaceNext ==
    /\ reg.pc = "sort" /\ Ready # {}
    /\ LET r == Lowest(Ready)
       IN  reg' = [reg EXCEPT
               !.order = Append(@, r),
               !.degree = [i \in DOMAIN @ |->
                   IF i \in Placed \union {r} THEN @[i]
                   ELSE @[i] - Mentions(reg.headers[i].deps, reg.headers[r].id)]]
    /\ UNCHANGED oom

FindCycle ==
    /\ reg.pc = "sort" /\ Ready = {} /\ Len(reg.order) < Len(reg.headers)
    /\ reg' = [reg EXCEPT !.pc = "refused"]
    /\ UNCHANGED oom

(* Mutant: the sort's result dropped: plugins stay in name order. *)
ReorderedNot(headers, order) == headers

Reordered(headers, order) == [i \in DOMAIN order |-> headers[order[i]]]

Reorder ==
    /\ reg.pc = "sort" /\ Len(reg.order) = Len(reg.headers)
    /\ reg' = [reg EXCEPT !.pc = "loaded", !.degree = <<>>,
                          !.headers = Reordered(reg.headers, reg.order), !.order = <<>>]
    /\ UNCHANGED oom

RegNext(max) ==
    \/ LoadFails(max)
    \/ ScanFilenames
    \/ RegisterFile
    \/ Listed
    \/ CheckDependencies
    \/ PlaceNext
    \/ FindCycle
    \/ Reorder

-----------------------------------------------------------------------------
(* The plugins of s can be put in an order that runs dependencies first. *)
Before(s, i) == {s[j].id : j \in 1..(i - 1)}

LegalOrder(s) ==
    \A i \in DOMAIN s : {s[i].deps[d] : d \in DOMAIN s[i].deps} \subseteq Before(s, i)

Orderable(s) ==
    \E p \in Bijection(DOMAIN s, DOMAIN s) : LegalOrder([i \in DOMAIN s |-> s[p[i]]])

=============================================================================
