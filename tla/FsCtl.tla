------------------------------- MODULE FsCtl -------------------------------
(***************************************************************************)
(* fsctl, the editor of fs.pickle.  It looks entries up without following  *)
(* links, refuses to make what exists, and saves the whole tree after      *)
(* every change.  A command line that walks below an entry with bytes as   *)
(* contents raises and ends the editor; it changes nothing.                *)
(***************************************************************************)
EXTENDS Vfs

VARIABLE saved   \* what the pickle holds

FsctlInit == saved = GetTree

RECURSIVE WalkPickle(_, _, _)
Lookup(t, p) == WalkPickle(t, Root, p)
WalkPickle(t, n, p) ==
    IF p = <<>> THEN n
    ELSE LET found == Named(t, n, Head(p))
         IN IF found = <<>> THEN None ELSE WalkPickle(t, Head(found), Tail(p))

Raises(t, p) == \E i \in 0..(Len(p) - 1) :
                   LET n == Lookup(t, SubSeq(p, 1, i)) IN n # None /\ t[n].data

Reference(spec) == ResolvePath(spec, cwd)
Operands == {s \in Specs : Reference(s) # <<>>}

Command(P) == \A p \in P : ~Raises(fs.t, p)
Saves(op, src, dst, flag, t) ==
    /\ Did(op, src, dst, flag, [t |-> t, n |-> fs.n, ok |-> "ok"])
    /\ saved' = Collect(t)

DoCd == Turn("fsctl") /\ \E s \in Specs :
    LET p == Reference(s)
    IN /\ Command({p}) /\ Lookup(fs.t, p) # None /\ fs.t[Lookup(fs.t, p)].type = "dir"
       /\ cwd' = p
       /\ Did("cd", <<>>, p, FALSE, Refuse(fs, "ok")) /\ UNCHANGED saved

(* Parents that are missing are made first, and saved, as directories. *)
MkPath(t, p, type) ==
    LET level(u, i) == LET q == SubSeq(p, 1, i)
                       IN IF Lookup(u, q) # None THEN u
                          ELSE Attach(u, Lookup(u, Dirname(q)), Basename(q),
                                      IF i = Len(p) THEN [Null EXCEPT !.type = type] ELSE Dir("", <<>>))
    IN FoldLeft(level, t, [i \in 1..Len(p) |-> i])

DoMkfile == Turn("fsctl") /\ \E s \in Operands, type \in {"dir", "file"} :
    LET p == Reference(s)
    IN /\ Command({p}) /\ Room(Len(p))
       /\ Saves("fsmk", <<>>, p, FALSE, MkPath(fs.t, p, type))
       /\ UNCHANGED cwd

DoRm == Turn("fsctl") /\ \E s \in Operands, recursive \in BOOLEAN :
    LET p == Reference(s)
        n == Lookup(fs.t, p)
    IN /\ Command({p}) /\ n # None
       /\ fs.t[n].type # "dir" \/ recursive
       /\ Saves("fsrm", <<>>, p, recursive, Drop(fs.t, Lookup(fs.t, Dirname(p)), n))
       /\ UNCHANGED cwd

PwdAfterRmdir(p) == IF cwd = p THEN Dirname(p) ELSE cwd

DoRmdir == Turn("fsctl") /\ \E s \in Operands :
    LET p == Reference(s)
        n == Lookup(fs.t, p)
    IN /\ Command({p}) /\ n # None
       /\ fs.t[n].type = "dir" /\ fs.t[n].kids = <<>> /\ ~fs.t[n].data
       /\ Saves("fsrmdir", <<>>, p, FALSE, Drop(fs.t, Lookup(fs.t, Dirname(p)), n))
       /\ cwd' = PwdAfterRmdir(p)

(* Where mv and cp put things, and when they do. *)
Dest(p, q) == LET n == Lookup(fs.t, q)
              IN IF n # None /\ fs.t[n].type = "dir" THEN Append(q, fs.t[Lookup(fs.t, p)].name) ELSE q
Clear(p, q) == /\ Lookup(fs.t, p) # None
               /\ ~Raises(fs.t, Dest(p, q))
               /\ Dest(p, q) # <<>>
               /\ Lookup(fs.t, Dest(p, q)) = None
               /\ Lookup(fs.t, Dirname(Dest(p, q))) # None

(* What is removed is the entry under its old name, which no other there has. *)
(* The test whether the working directory moves compares a path without its *)
(* leading slash with one that has it: it never does.                       *)
DoMv == Turn("fsctl") /\ \E s \in Operands, d \in Specs :
    LET p == Reference(s)
        q == Reference(d)
        n == Lookup(fs.t, p)
        to == Dest(p, q)
        gone == Drop(fs.t, Lookup(fs.t, Dirname(p)), n)
    IN /\ Command({p, q}) /\ Clear(p, q)
       /\ Saves("fsmv", p, to, FALSE,
             Put([gone EXCEPT ![n].name = Basename(to)], Lookup(fs.t, Dirname(to)), n))
       /\ UNCHANGED cwd

DoCp == Turn("fsctl") /\ \E s \in Operands, d \in Specs :
    LET p == Reference(s)
        q == Reference(d)
        to == Dest(p, q)
        c == CopyOf(fs.t, Lookup(fs.t, p))
    IN /\ Command({p, q}) /\ Clear(p, q) /\ Room(Cardinality(Below(fs.t, Lookup(fs.t, p))))
       /\ Saves("fscp", p, to, FALSE, 
             Put([c.t EXCEPT ![c.node].name = Basename(to)], Lookup(fs.t, Dirname(to)), c.node))
       /\ UNCHANGED cwd

(* chown, chgrp and chmod; the last leaves a link alone. *)

DoChange == Turn("fsctl") /\ \E s \in Operands :
    LET n == Lookup(fs.t, Reference(s))
    IN /\ Command({Reference(s)}) /\ n # None
       /\ Saves("fschange", <<>>, Reference(s), FALSE, [fs.t EXCEPT ![n].meta = 1])
       /\ UNCHANGED cwd

(* load: bytes as the contents of an entry of any type, a directory's too. *)
DoLoad == Turn("fsctl") /\ \E s \in Operands :
    LET n == Lookup(fs.t, Reference(s))
    IN /\ Command({Reference(s)}) /\ n # None
       /\ Saves("fsload", <<>>, Reference(s), FALSE, [fs.t EXCEPT ![n].kids = <<>>, ![n].data = TRUE])
       /\ UNCHANGED cwd

(* embed: a directory of the host with one file in it.  Only files take it. *)
EmbedDirectory(t, p) ==
    LET n == Lookup(t, p)
    IN IF n = None \/ t[n].type # "file" THEN t ELSE [t EXCEPT ![n].kids = <<>>, ![n].data = TRUE]

DoEmbed == Turn("fsctl") /\ \E s \in Operands :
    /\ Command({Reference(s)})
    /\ Saves("fsembed", <<>>, Reference(s), FALSE, EmbedDirectory(fs.t, Reference(s)))
    /\ UNCHANGED cwd

(* Leaving the editor, or being thrown out of it, and starting it again. *)
Restart == /\ Turn("fsctl")
           /\ fs' = [fs EXCEPT !.t = saved] /\ cwd' = <<>>
           /\ last' = [Nothing EXCEPT !.op = "restart"] /\ ops' = ops + 1
           /\ UNCHANGED <<mode, saved>>

FsctlNext == DoCd \/ DoMkfile \/ DoRm \/ DoRmdir \/ DoMv \/ DoCp \/ DoChange \/ DoLoad \/ DoEmbed \/ Restart
=============================================================================
