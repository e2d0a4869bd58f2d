----------------------------- MODULE FsCommands -----------------------------
(***************************************************************************)
(* The commands of the shell that change the virtual filesystem: cd, rm,   *)
(* cp, mv, mkdir, rmdir, touch, chmod, tar and unzip.  A command with      *)
(* several operands is as many steps.                                      *)
(***************************************************************************)
EXTENDS Vfs

Target(spec) == ResolvePath(spec, cwd)

(* Operands a command is given something to move or remove by.  Bound: none *)
(* of them is the root or ends in "..".                                     *)
Sources == {s \in Specs : Last(s) \notin {"..", "/"} /\ Target(s) # <<>>}

Cd == Turn("shell") /\ \E s \in Specs :
        /\ IsDir(fs.t, Target(s))
        /\ cwd' = Target(s)
        /\ Did("cd", <<>>, Target(s), FALSE, Refuse(fs, "ok"))

RmFirstEntry(p, recursive) ==
    LET d == GetPath(fs.t, Dirname(p))
        gone(x) == fs.t[x].name = Basename(p) /\ (fs.t[x].type # "dir" \/ recursive)
    IN [t |-> [fs.t EXCEPT ![d].kids = RemoveFirstMatch(@, gone)], n |-> fs.n, ok |-> "ok"]
RmEntries(p, recursive) ==
    LET d == GetPath(fs.t, Dirname(p))
        keep(x) == fs.t[x].name # Basename(p) \/ (fs.t[x].type = "dir" /\ ~recursive)
    IN [t |-> [fs.t EXCEPT ![d].kids = SelectSeq(@, keep)], n |-> fs.n, ok |-> "ok"]


(* A link to nothing cannot be removed: get_path(pname) follows it. *)
Rm == Turn("shell") /\ \E s \in Sources, recursive \in BOOLEAN :
        LET p == Target(s)
        IN /\ GetPath(fs.t, Dirname(p)) # None /\ GetPath(fs.t, p) # None
           /\ Did("rm", <<>>, p, recursive, RmEntries(p, recursive))
           /\ UNCHANGED cwd

(* Where cp and mv put things: into a directory under the name of the source, *)
(* or under the name of the destination.  A name typed with a slash at its    *)
(* end is the empty one, except that of cp's destination.                     *)
Into(s, d, slash) ==
    LET to == IF IsDir(fs.t, Target(d)) THEN Append(Target(d), Basename(s)) ELSE Target(d)
    IN IF slash THEN Append(Dirname(to), "") ELSE to

Ready(s, d) == /\ IsDir(fs.t, Target(d)) \/ (Target(d) # <<>> /\ Exists(fs.t, Dirname(Target(d))))
               /\ Exists(fs.t, Target(s))

(* cp, and cp -r of a directory. *)
Cp == Turn("shell") /\ \E s \in Sources, d \in Specs, slash \in BOOLEAN :
        LET to == Into(s, d, slash)
            dir == GetPath(fs.t, Dirname(to))
            src == GetFile(fs.t, Target(s), TRUE)
            c == CopyOf(fs.t, src)
        IN /\ Ready(s, d)
           /\ slash => IsDir(fs.t, Target(d))
           /\ Room(Cardinality(Below(fs.t, src)))
           /\ dir # None
           /\ Did("cp", Target(s), to, FALSE,
                  [t |-> Put([DropNamed(c.t, dir, Basename(to)) EXCEPT ![c.node].name = Basename(to)],
                             dir, c.node),
                   n |-> fs.n, ok |-> "ok"])
           /\ UNCHANGED cwd

(* The list of the destination is compared with the path of the source, so  *)
(* every move appends and removes.  The source is what its links lead to:   *)
(* when nothing like it is in sdir, remove() raises and the entry is in     *)
(* both; when sdir has an equal entry first, that one goes.                 *)
MvEntry(s, to) ==
    LET dir == GetPath(fs.t, Dirname(to))
        sdir == GetPath(fs.t, Dirname(Target(s)))
        n == GetFile(fs.t, Target(s), TRUE)
        there == Put([fs.t EXCEPT ![n].name = Basename(to)], dir, n)
    IN IF sdir = None \/ ~Holds(there, sdir, n)
       THEN [t |-> there, n |-> fs.n, ok |-> "raises"]
       ELSE [t |-> Drop(there, sdir, n), n |-> fs.n, ok |-> "ok"]

Mv == Turn("shell") /\ \E s \in Sources, d \in Specs, slash \in BOOLEAN :
        LET to == Into(s, d, slash)
        IN /\ Ready(s, d) /\ GetPath(fs.t, Dirname(to)) # None
           /\ GetFile(fs.t, Target(s), TRUE) # Root
           /\ Did("mv", Target(s), to, FALSE, MvEntry(s, to))
           /\ UNCHANGED cwd

(* A missing parent raises OSError, which the command does not catch. *)
MkdirCommand == Turn("shell") /\ \E s \in Sources :
        /\ Room(1)
        /\ ~Exists(fs.t, Target(s))
        /\ Did("mkdir", <<>>, Target(s), FALSE, Mkdir(fs, Target(s), FALSE))
        /\ UNCHANGED cwd

(* The first entry of the name goes, which get_path() has found empty; after *)
(* a slash it is the first with the empty name, whatever that one holds.     *)
RmdirEmpty(p) == LET n == GetPath(fs.t, p) IN n # None /\ fs.t[n].kids = <<>>
Rmdir == Turn("shell") /\ \E s \in Sources, slash \in BOOLEAN :
        LET p == Target(s)
            d == GetPath(fs.t, Dirname(p))
            name == IF slash THEN "" ELSE Basename(s)
            found == Named(fs.t, d, name)
        IN /\ RmdirEmpty(p) /\ d # None /\ found # <<>>
           /\ fs.t[Head(found)].type = "dir"
           /\ Did("rmdir", <<>>, Append(Dirname(p), name), FALSE,
                  [t |-> Drop(fs.t, d, Head(found)), n |-> fs.n, ok |-> "ok"])
           /\ UNCHANGED cwd

Touch == Turn("shell") /\ \E s \in Sources :
        LET p == Target(s)
        IN /\ Room(1)
           /\ Exists(fs.t, Dirname(p)) /\ ~Exists(fs.t, p)
           /\ \A q \in SpecialPaths : ~IsPrefix(q, p)
           /\ Did("touch", <<>>, p, FALSE, Mkfile(fs, p, FALSE))
           /\ UNCHANGED cwd

Chmod == Turn("shell") /\ \E s \in Sources :
        LET n == GetFile(fs.t, Target(s), TRUE)
        IN /\ n # None
           /\ Did("chmod", <<>>, Target(s), FALSE,
                  [t |-> [fs.t EXCEPT ![n].meta = 1], n |-> fs.n, ok |-> "ok"])
           /\ UNCHANGED cwd

(* mkfullpath(): the directories above a member, one after the other, unless *)
(* they exist; an OSError of mkdir() ends the command.                       *)
Mkfullpath(f, p, given) ==
    LET level(r, i) == IF r.ok # "ok" \/ Exists(r.t, SubSeq(p, 1, i)) THEN r
                       ELSE Mkdir(r, SubSeq(p, 1, i), given)
    IN FoldLeft(level, Refuse(f, "ok"), [i \in 1..Len(p) |-> i])

Extract(p, isdir, given) ==
    IF isdir THEN Mkdir(fs, p, given)
    ELSE LET above == Mkfullpath(fs, Dirname(p), given)
         IN IF above.ok = "ok" THEN Mkfile(above, p, given) ELSE above

(* tar and unzip, one member of an archive that has a file behind it; tar *)
(* gives what it makes the member's time.                                 *)
Archives == {a \in {GetFile(fs.t, Target(s), TRUE) : s \in Sources} \ {None} : fs.t[a].real # "none"}
Unpack == Turn("shell") /\ \E m \in Sources, isdir \in BOOLEAN, given \in BOOLEAN :
        /\ Archives # {} /\ Room(Len(Target(m)))
        /\ Did("unpack", <<>>, Target(m), isdir, Extract(Target(m), isdir, given))
        /\ UNCHANGED cwd

ShellNext == Cd \/ Rm \/ Cp \/ Mv \/ MkdirCommand \/ Rmdir \/ Touch \/ Chmod \/ Unpack
=============================================================================
