-------------------------------- MODULE Vfs --------------------------------
(***************************************************************************)
(* The virtual filesystem of the honeypot (HoneyPotFilesystem): a tree of  *)
(* entries held as nested Python lists.  A node stands for one list        *)
(* object, so the same node in two contents lists is one shared object.    *)
(* Every session works on a copy of its own; `mode' says who works on it:  *)
(* the commands of the shell, an SFTP client, or fsctl, the editor of the  *)
(* pickle the copies are made from.                                        *)
(*                                                                         *)
(* A path is the sequence of its names.  Names are compared and never      *)
(* looked into; owner and permissions are one attribute, meta.  A time is  *)
(* 0 when it was given (the pickle, an archive, a client), otherwise it is *)
(* like no other: only equality matters, since list.remove() compares.     *)
(* Entries have lists as contents, or bytes where fsctl loaded some.       *)
(***************************************************************************)
EXTENDS Naturals, Sequences, FiniteSets, SequencesExt, FiniteSetsExt

CONSTANTS Nodes,         \* bound on the entries alive at a time
          Modes,         \* who works on the tree
          Specs,         \* paths as they are typed; "/" in front: absolute
          SpecialPaths,  \* SPECIAL_PATHS
          NewLimit,      \* 10000 in the code
          MaxOps         \* bound on the operations of a session, by mode

ASSUME VfsAssumption ==
    /\ Nodes \in SUBSET (Nat \ {0}) /\ {1, 2, 3, 4, 5} \subseteq Nodes
    /\ Modes \subseteq {"shell", "sftp", "fsctl"}
    /\ NewLimit \in Nat /\ MaxOps \in [Modes -> Nat]

VARIABLES mode, 
          fs,     \* the tree t, and newcount n
          cwd,    \* protocol.cwd of a shell, self.pwd of fsctl
          last,   \* the last operation (history)
          ops     \* operations so far

vfsVars == <<mode, fs, cwd, last, ops>>

Root == 1
None == 0
Null == [name |-> "", type |-> "none", kids |-> <<>>, target |-> <<>>, real |-> "none",
         meta |-> 0, time |-> 0, data |-> FALSE]
Dir(nm, k) == [Null EXCEPT !.name = nm, !.type = "dir", !.kids = k]
File(nm) == [Null EXCEPT !.name = nm, !.type = "file"]
Link(nm, to) == [Null EXCEPT !.name = nm, !.type = "link", !.target = to]

(* Some fs.pickle: /a with a file (backed by an archive of the operator), *)
(* a link to /a and a link to nothing.                                    *)
GetTree == [n \in Nodes |->
    CASE n = 1 -> Dir("/", <<2, 4, 5>>)
      [] n = 2 -> Dir("a", <<3>>)
      [] n = 3 -> [File("f") EXCEPT !.real = "archive"]
      [] n = 4 -> Link("l", <<"a">>)
      [] n = 5 -> Link("k", <<"z">>)
      [] OTHER -> Null]

Nothing == [op |-> "none", src |-> <<>>, dst |-> <<>>, flag |-> FALSE, ok |-> FALSE]

VfsInit == /\ mode \in Modes
           /\ fs = [t |-> GetTree, n |-> 0]
           /\ cwd = <<>> /\ last = Nothing /\ ops = 0

(***************************************************************************)
(* Paths.                                                                  *)
(***************************************************************************)
ResolvePath(spec, from) ==
    LET piece(acc, p) == CASE p = ".." -> IF acc = <<>> THEN acc ELSE Front(acc)
                           [] p \in {".", "/"} -> acc
                           [] OTHER -> Append(acc, p)
    IN FoldLeft(piece, IF spec # <<>> /\ spec[1] = "/" THEN <<>> ELSE from, spec)

Dirname(p) == IF p = <<>> THEN <<>> ELSE Front(p)
Basename(p) == IF p = <<>> THEN "" ELSE p[Len(p)]

(* The entries of a contents list with a name, in order. *)
Named(t, d, nm) == SelectSeq(t[d].kids, LAMBDA x : t[x].name = nm)

(* getfile(): the LAST entry of a name counts, a broken link among them ends *)
(* the search.  Targets are taken from the root.  With links not followed    *)
(* the test is for the name of the last piece, wherever it comes in the path.*)
RECURSIVE WalkFile(_, _, _, _, _)
GetFile(t, p, follow) == WalkFile(t, Root, p, Basename(p), follow)
WalkFile(t, n, p, final, follow) ==
    IF p = <<>> THEN n
    ELSE LET found == Named(t, n, Head(p))
             object(x) == IF t[x].type = "link" /\ (follow \/ Head(p) # final)
                          THEN WalkFile(t, Root, t[x].target, Basename(t[x].target), follow)
                          ELSE x
         IN IF found = <<>> \/ \E i \in DOMAIN found : object(found[i]) = None
            THEN None
            ELSE WalkFile(t, object(Last(found)), Tail(p), final, follow)

(* get_path(): the node whose contents list the code gets; FIRST entry counts. *)
RECURSIVE WalkPath(_, _, _)
GetPath(t, p) == WalkPath(t, Root, p)
WalkPath(t, n, p) ==
    IF n = None \/ p = <<>> THEN n
    ELSE LET found == Named(t, n, Head(p))
         IN IF found = <<>> THEN None
            ELSE LET x == Head(found)
                 IN WalkPath(t, IF t[x].type = "link" THEN GetFile(t, t[x].target, TRUE) ELSE x,
                             Tail(p))

Exists(t, p) == GetFile(t, p, TRUE) # None
IsDir(t, p) == LET n == GetFile(t, p, TRUE) IN n # None /\ t[n].type = "dir"

(***************************************************************************)
(* Contents lists.  What no list holds any more is collected.              *)
(***************************************************************************)
RECURSIVE Grow(_, _, _)
Grow(t, S, new) == IF new = {} THEN S
                   ELSE LET kids == UNION {ToSet(t[n].kids) : n \in new}
                        IN Grow(t, S \cup kids, kids \ S)
Below(t, n) == Grow(t, {n}, {n})
Alive(t) == Below(t, Root)
Collect(t) == LET alive == Alive(t) IN [n \in Nodes |-> IF n \in alive THEN t[n] ELSE Null]

Free(t) == {n \in Nodes : t[n].type = "none"}
Fresh(t) == Min(Free(t))
Room(k) == Cardinality(Free(fs.t)) >= k  \* bound: Nodes

(* Python's == of two entries: one object, or alike all the way down. *)
RECURSIVE Alike(_, _, _, _)
Alike(t, x, y, depth) ==
    \/ x = y
    \/ /\ depth > 0 /\ [t[x] EXCEPT !.kids = <<>>] = [t[y] EXCEPT !.kids = <<>>]
       /\ Len(t[x].kids) = Len(t[y].kids)
       /\ \A i \in DOMAIN t[x].kids : Alike(t, t[x].kids[i], t[y].kids[i], depth - 1)
Same(t, x, y) == Alike(t, x, y, Cardinality(Nodes))

(* list.append() and list.remove(): the first entry that is equal goes. *)
Put(t, d, n) == [t EXCEPT ![d].kids = Append(@, n)]
Drop(t, d, n) == [t EXCEPT ![d].kids = RemoveFirstMatch(@, LAMBDA x : Same(t, x, n))]
Holds(t, d, n) == \E x \in ToSet(t[d].kids) : Same(t, x, n)

(* The time of a new entry: the one given, or time.time(). *)
Stamp(t, given) ==
    IF given THEN 0 ELSE Min((1..(Cardinality(Nodes) + 1)) \ {t[n].time : n \in Nodes})

Attach(t, d, nm, entry) ==
    LET n == Fresh(t) IN Put([t EXCEPT ![n] = [entry EXCEPT !.name = nm]], d, n)

DropNamed(t, d, nm) ==
    IF Named(t, d, nm) = <<>> THEN t ELSE Drop(t, d, Head(Named(t, d, nm)))

Refuse(f, why) == [t |-> f.t, n |-> f.n, ok |-> why]

MkfileKeepsOld(f, p, given) ==
    CASE f.n > NewLimit -> Refuse(f, "full")
      [] \E s \in SpecialPaths : IsPrefix(s, Dirname(p)) -> Refuse(f, "denied")
      [] GetPath(f.t, Dirname(p)) = None -> Refuse(f, "missing")
      [] OTHER -> LET d == GetPath(f.t, Dirname(p))
                  IN [t |-> Attach(f.t, d, Basename(p), [File("") EXCEPT !.time = Stamp(f.t, given)]),
                      n |-> f.n + 1, ok |-> "ok"]

Mkfile(f, p, given) ==
    CASE f.n > NewLimit -> Refuse(f, "full")
      [] \E s \in SpecialPaths : IsPrefix(s, Dirname(p)) -> Refuse(f, "denied")
      [] GetPath(f.t, Dirname(p)) = None -> Refuse(f, "missing")
      [] OTHER ->
           LET d == GetPath(f.t, Dirname(p))
           IN [t |-> Attach(DropNamed(f.t, d, Basename(p)), d, Basename(p),
                            [File("") EXCEPT !.time = Stamp(f.t, given)]),
               n |-> f.n + 1, ok |-> "ok"]

Mkdir(f, p, given) ==
    CASE f.n > NewLimit -> Refuse(f, "full")
      [] p = <<>> \/ GetPath(f.t, Dirname(p)) = None -> Refuse(f, "missing")
      [] OTHER -> LET d == GetPath(f.t, Dirname(p))
                  IN [t |-> Attach(f.t, d, Basename(p), [Dir("", <<>>) EXCEPT !.time = Stamp(f.t, given)]),
                      n |-> f.n + 1, ok |-> "ok"]

(* copy.deepcopy(): the entry and everything below it, as new nodes. *)
CopyOf(t, n) ==
    LET below == SetToSortSeq(Below(t, n), <)
        free == SetToSortSeq(Free(t), <)
        twin(x) == free[CHOOSE i \in DOMAIN below : below[i] = x]
        copy(x) == [t[x] EXCEPT !.kids = [i \in DOMAIN @ |-> twin(@[i])]]
        orig(y) == below[CHOOSE i \in DOMAIN below : free[i] = y]
    IN [node |-> twin(n),
        t |-> [y \in Nodes |-> IF \E i \in DOMAIN below : free[i] = y THEN copy(orig(y)) ELSE t[y]]]


(* What an operation left behind: f, and how it ended. *)
Did(op, src, dst, flag, f) ==
    /\ fs' = [t |-> Collect(f.t), n |-> f.n]
    /\ last' = [op |-> op, src |-> src, dst |-> dst, flag |-> flag, ok |-> f.ok = "ok"]
    /\ ops' = ops + 1 /\ UNCHANGED mode

Turn(m) == mode = m /\ ops < MaxOps[m]
=============================================================================
