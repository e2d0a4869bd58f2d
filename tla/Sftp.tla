-------------------------------- MODULE Sftp --------------------------------
(***************************************************************************)
(* The SFTP server on the virtual filesystem.  An upload goes to a file of *)
(* the host named after the second and the path it was opened at; closing  *)
(* the handle renames it to the hash of what it holds and reports it.  A   *)
(* client may hold several handles, on one path too, and remove, rename    *)
(* and replace what they stand for while they are open.                    *)
(*                                                                         *)
(* The host's files are inodes and names for them: a handle keeps its      *)
(* inode whatever becomes of the name.  A hash is the contents it is of.   *)
(* A handle whose close raised is still the client's: it can be written to *)
(* and closed again.                                                       *)
(***************************************************************************)
EXTENDS Vfs

CONSTANTS Paths,      \* absolute paths a client names
          MaxHandles, \* bound on the handles open at a time
          FlagSets,   \* sets of open flags clients send
          Bytes,      \* data of a chunk
          Offsets,    \* where chunks are written
          Quota,      \* download_limit_size in chunks, 0 for none
          MaxTime     \* bound on the seconds that pass

ASSUME SftpAssumption ==
    /\ {MaxHandles, Quota, MaxTime} \subseteq Nat /\ Offsets \subseteq Nat
    /\ \A F \in FlagSets : F \subseteq {"write", "append", "creat", "trunc", "excl"}

VARIABLES handles,   \* openFiles, numbered in the order of opening
          inode,     \* contents of the host's files
          names,     \* names of the host's files
          events,    \* hashes reported as uploaded
          second,    \* the clock, in the resolution of the names
          opens,     \* how many handles an inode was opened by (history)
          loose      \* inodes hashed while a handle had them open (history)

sftpVars == <<handles, inode, names, events, second, opens, loose>>

SftpInit == /\ handles = <<>> /\ inode = <<>> /\ names = <<>> /\ events = {}
            /\ second = 0 /\ opens = <<>> /\ loose = {}

Temp(p) == [kind |-> "temp", at |-> second, of |-> p]
Hash(c) == [kind |-> "hash", at |-> 0, of |-> c]
OnHost(nm) == nm \in DOMAIN names
Content(nm) == inode[names[nm]]

SetReal(t, n, real) == IF t[n].real = "none" THEN [t EXCEPT ![n].real = real] ELSE t

With(f, k, v) == [x \in DOMAIN f \cup {k} |-> IF x = k THEN v ELSE f[x]]
Without(f, k) == [x \in DOMAIN f \ {k} |-> f[x]]

(***************************************************************************)
(* openFile for writing.  mkfile() comes before os.open(): an entry is     *)
(* made, and one of the same name thrown away, even when the host's file   *)
(* cannot be opened.  That mkfile() made nothing because there are too     *)
(* many new files is not noticed: without an older entry the call raises   *)
(* after os.open() and leaves the host's file behind.                      *)
(***************************************************************************)
HostOpens(F, nm) == IF OnHost(nm) THEN ~({"creat", "excl"} \subseteq F) ELSE "creat" \in F

OpenFile == Turn("sftp") /\ \E p \in Paths \ {<<>>}, F \in FlagSets :
    LET nm == Temp(p)
        made == Mkfile(fs, p, FALSE)
        n == GetFile(made.t, p, TRUE)
        i == IF OnHost(nm) THEN names[nm] ELSE Cardinality(DOMAIN inode) + 1
        fd == Max(DOMAIN handles \cup {0}) + 1
        before == IF i \in DOMAIN opens THEN opens[i] ELSE 0
        hosted == made.ok \in {"ok", "full"} /\ HostOpens(F, nm)
        opened == hosted /\ n # None
    IN /\ "write" \in F
       /\ Cardinality(DOMAIN handles) < MaxHandles /\ Room(1)
       /\ Did("open", <<>>, p, opened, IF opened THEN [made EXCEPT !.t = SetReal(@, n, "temp")] ELSE made)
       /\ handles' = IF ~opened THEN handles
                     ELSE With(handles, fd,
                               [path |-> p, temp |-> nm, ino |-> i, got |-> 0, 
                                append |-> "append" \in F, stuck |-> FALSE])
       /\ IF hosted
          THEN /\ inode' = With(inode, i, IF OnHost(nm) /\ "trunc" \notin F THEN inode[i] ELSE <<>>)
               /\ names' = With(names, nm, i)
               /\ opens' = With(opens, i, IF opened THEN before + 1 ELSE before)
          ELSE UNCHANGED <<inode, names, opens>>
       /\ UNCHANGED <<cwd, events, second, loose>>

(***************************************************************************)
(* writeChunk and close.                                                   *)
(***************************************************************************)
Patched(c, at, b) == [i \in 1..(IF at + 1 > Len(c) THEN at + 1 ELSE Len(c)) |->
                        IF i = at + 1 THEN b ELSE IF i <= Len(c) THEN c[i] ELSE "hole"]

OverQuota(h) == Quota # 0 /\ h.got + 1 > Quota

WriteChunk == Turn("sftp") /\ \E fd \in DOMAIN handles, at \in Offsets, b \in Bytes :
    LET h == handles[fd]
        pos == IF h.append THEN Len(inode[h.ino]) ELSE at
    IN /\ Did("write", <<>>, h.path, ~OverQuota(h), Refuse(fs, "ok"))
       /\ handles' = [handles EXCEPT ![fd].got = @ + 1]
       /\ inode' = IF OverQuota(h) THEN inode ELSE [inode EXCEPT ![h.ino] = Patched(@, pos, b)]
       /\ UNCHANGED <<cwd, names, events, second, opens, loose>>

(* What is left of the names when the temporary file is hashed and put away. *)
PutAway(held, nm) ==
    LET kept == Without(held, nm)
        hash == Hash(inode[held[nm]])
    IN IF hash \in DOMAIN held THEN kept ELSE With(kept, hash, held[nm])

CloseQuiet(s, fd) ==
    LET h == s.handles[fd]
        n == GetFile(s.t, h.path, TRUE)
        i == s.names[h.temp]
        left == Without(s.handles, fd)
        put == [s EXCEPT !.names = PutAway(@, h.temp), !.handles = left,
                         !.loose = @ \cup {j \in {i} : \E g \in DOMAIN left : left[g].ino = i}]
    IN IF h.temp \notin DOMAIN s.names
       THEN [s EXCEPT !.handles[fd].stuck = TRUE, !.ok = "raises"]
       ELSE IF n = None THEN [put EXCEPT !.ok = "raises"]
       ELSE [put EXCEPT !.events = @ \cup {inode[i]}, !.t = SetReal(@, n, "hash")]

(* The host's name is gone when another handle on the same file was closed    *)
(* first; the entry is gone when the path was removed or renamed: both raise, *)
(* before the event, and leave the descriptor and the handle.  The entry's    *)
(* backing stays the temporary name, as update_realfile() never replaces one. *)
Close(s, fd) ==
    LET h == s.handles[fd]
        n == GetFile(s.t, h.path, TRUE)
        i == s.names[h.temp]
        left == IF n = None THEN [s.handles EXCEPT ![fd].stuck = TRUE] ELSE Without(s.handles, fd)
        put == [s EXCEPT !.names = PutAway(@, h.temp), !.handles = left,
                         !.loose = @ \cup {j \in {i} : \E g \in DOMAIN left : left[g].ino = i}]
    IN IF h.temp \notin DOMAIN s.names
       THEN [s EXCEPT !.handles[fd].stuck = TRUE, !.ok = "raises"]
       ELSE IF n = None THEN [put EXCEPT !.ok = "raises"]
       ELSE [put EXCEPT !.events = @ \cup {inode[i]}, !.t = SetReal(@, n, "hash")]

Open == [handles |-> handles, names |-> names, events |-> events, loose |-> loose,
         t |-> fs.t, n |-> fs.n, ok |-> "ok"]
Becomes(s) == /\ handles' = s.handles /\ names' = s.names /\ events' = s.events /\ loose' = s.loose
              /\ UNCHANGED <<cwd, inode, second, opens>>

CloseFile == Turn("sftp") /\ \E fd \in DOMAIN handles :
    LET s == Close(Open, fd)
    IN /\ Becomes(s)
       /\ Did("close", <<>>, handles[fd].path, s.ok = "ok", s)

(* FileTransferServer closes what is open, up to the first that raises. *)
ConnectionLost ==
    LET next(s, fd) == IF s.ok = "ok" THEN Close(s, fd) ELSE s
        s == FoldLeft(next, Open, SetToSortSeq(DOMAIN handles, <))
    IN /\ mode = "sftp" /\ mode' = "over" /\ Becomes(s)
       /\ fs' = [t |-> Collect(s.t), n |-> s.n]
       /\ last' = [Nothing EXCEPT !.op = "lost"] /\ UNCHANGED ops

(***************************************************************************)
(* The other requests.                                                     *)
(***************************************************************************)
Entries == Paths \ {<<>>}

RemoveEntry(p) == 
    LET n == GetFile(fs.t, p, FALSE)
        d == GetPath(fs.t, Dirname(p))
    IN [t |-> Drop(fs.t, d, n), n |-> fs.n, ok |-> "ok"]

RemoveFile == Turn("sftp") /\ \E p \in Entries :
    LET n == GetFile(fs.t, p, FALSE)
        d == GetPath(fs.t, Dirname(p))
    IN /\ n # None /\ d # None /\ Holds(fs.t, d, n)
       /\ Did("remove", <<>>, p, FALSE, RemoveEntry(p))
       /\ UNCHANGED <<cwd, sftpVars>>

(* remove() raises before anything is changed when the path is a link to an *)
(* entry of another directory; a new parent that is missing raises after it.*)
RenameFile == Turn("sftp") /\ \E p \in Entries, q \in Entries :
    LET n == GetFile(fs.t, p, TRUE)
        d == GetPath(fs.t, Dirname(p))
        out == [Drop(fs.t, d, n) EXCEPT ![n].name = Basename(q)]
        e == GetPath(out, Dirname(q))
    IN /\ n # None /\ GetFile(fs.t, q, TRUE) = None
       /\ d # None /\ Holds(fs.t, d, n)
       /\ Did("rename", p, q, FALSE,
              IF e = None THEN [t |-> out, n |-> fs.n, ok |-> "raises"]
              ELSE [t |-> Put(out, e, n), n |-> fs.n, ok |-> "ok"])
       /\ UNCHANGED <<cwd, sftpVars>>

MakeDirectory == Turn("sftp") /\ \E p \in Entries :
    /\ Room(1) /\ GetFile(fs.t, p, TRUE) = None
    /\ Did("mkdir", <<>>, p, FALSE, Mkdir(fs, p, FALSE))
    /\ UNCHANGED <<cwd, sftpVars>>

(* Asked of the last entry of the name, done to the first. *)
RemoveDirectory == Turn("sftp") /\ \E p \in Entries :
    LET n == GetFile(fs.t, p, FALSE)
        d == GetPath(fs.t, Dirname(p))
        g == GetPath(fs.t, p)
    IN /\ n # None /\ fs.t[n].type = "dir"
       /\ g # None /\ fs.t[g].kids = <<>> /\ d # None
       /\ Named(fs.t, d, Basename(p)) # <<>>
       /\ Did("rmdir", <<>>, p, FALSE,
              [t |-> Drop(fs.t, d, Head(Named(fs.t, d, Basename(p)))), n |-> fs.n, ok |-> "ok"])
       /\ UNCHANGED <<cwd, sftpVars>>

(* Of an entry, or given with the request that made it. *)
SetAttrs == Turn("sftp") /\ \E p \in Entries, times \in BOOLEAN :
    LET n == GetFile(fs.t, p, TRUE)
    IN /\ n # None
       /\ Did("setattrs", <<>>, p, FALSE,
              [t |-> IF times THEN [fs.t EXCEPT ![n].time = 0] ELSE [fs.t EXCEPT ![n].meta = 1],
               n |-> fs.n, ok |-> "ok"])
       /\ UNCHANGED <<cwd, sftpVars>>

Second == /\ mode = "sftp" /\ second < MaxTime /\ second' = second + 1
          /\ UNCHANGED <<vfsVars, handles, inode, names, events, opens, loose>>

SftpNext == OpenFile \/ WriteChunk \/ CloseFile \/ ConnectionLost \/ RemoveFile \/ RenameFile \/ MakeDirectory
            \/ RemoveDirectory \/ SetAttrs \/ Second
=============================================================================
