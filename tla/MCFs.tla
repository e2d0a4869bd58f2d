-------------------------------- MODULE MCFs --------------------------------
(***************************************************************************)
(* The virtual filesystem in the hands of the shell, of an SFTP client or  *)
(* of fsctl: one of them works on a tree, as each has a tree of its own.   *)
(***************************************************************************)
EXTENDS FsCommands, Sftp, FsCtl

vars == <<vfsVars, sftpVars, saved>>

Init == VfsInit /\ SftpInit /\ FsctlInit
Next == \/ ShellNext /\ UNCHANGED <<sftpVars, saved>>
        \/ SftpNext /\ UNCHANGED saved
        \/ FsctlNext /\ UNCHANGED sftpVars
Spec == Init /\ [][Next]_vars

MCPaths == {<<"a">>, <<"f">>, <<"k">>, <<"z", "f">>}
MCSpecs == {<<"a">>, <<"l">>, <<"k">>, <<"/", "z">>, <<"a", "f">>, <<"z", "f">>, <<"..">>}
MCSpecial == {<<"z">>}
MCMaxOps == [m \in Modes |-> IF m = "sftp" THEN 4 ELSE 3]
MCFlagSets == {{"write", "creat", "trunc"}, {"write", "creat", "excl"}, {"write", "append"}}
AllPaths == MCPaths \cup {<<>>, <<"l">>, <<"a", "f">>, <<"l", "f">>, <<"z">>, <<"a", "l">>, <<"k", "f">>}

(* What operations leave is collected: the nodes in use are those in the tree. *)
Live(t) == {n \in Nodes : t[n].type # "none"}

TypeOK == /\ mode \in Modes \cup {"over"}
          /\ \A n \in Nodes : /\ fs.t[n].type \in {"none", "dir", "file", "link"}
                              /\ ToSet(fs.t[n].kids) \subseteq {m \in Nodes : fs.t[m].type # "none"}
          /\ Live(fs.t) = Alive(fs.t)
          /\ fs.n \in 0..(NewLimit + 1)
          /\ \A h \in DOMAIN handles : handles[h].ino \in DOMAIN inode
          /\ DOMAIN opens = DOMAIN inode /\ loose \subseteq DOMAIN inode
          /\ \A nm \in DOMAIN names : names[nm] \in DOMAIN inode

Dup(t) == \E d \in Live(t) : \E i, j \in DOMAIN t[d].kids :
             i < j /\ t[t[d].kids[i]].name = t[t[d].kids[j]].name

(* The entries an operation names by its destination. *)
Place(t, p) == IF mode = "fsctl" THEN Lookup(t, p) ELSE GetPath(t, p)
Aimed(t, p) == IF p = <<>> \/ Place(t, Dirname(p)) = None THEN {}
               ELSE ToSet(Named(t, Place(t, Dirname(p)), Basename(p)))

(* A link to nothing on the way. *)
Blocked(t, p) == \E i \in 1..Len(p) : LET q == SubSeq(p, 1, i)
                                      IN GetFile(t, q, TRUE) = None /\ Aimed(t, q) # {}

(* Two entries of a directory have the same name only after mv put one over   *)
(* another, after an archive held a directory that exists, or after a         *)
(* directory was made, or an entry renamed, over a link to nothing: touch,    *)
(* cp, uploads and redirections replace, and fsctl refuses (fs.py mkfile,     *)
(* commands/fs.py cp and mv, fsctl.py mkfile, do_mv and do_cp).               *)
NoNewDuplicates ==
    [][Dup(fs'.t) => \/ Dup(fs.t)
                     \/ last'.op = "mv"
                     \/ last'.op = "unpack" /\ last'.flag
                     \/ last'.op \in {"mkdir", "rename", "unpack"} /\ Blocked(fs.t, last'.dst)]_vars

Moved == IF mode = "fsctl" THEN Lookup(fs.t, last'.src) ELSE GetFile(fs.t, last'.src, TRUE)
BelowItself == Place(fs.t, Dirname(last'.dst)) \in Below(fs.t, Moved)

(* list.remove() takes an equal entry for the one that is moved: mv gives the *)
(* new name before it removes, rename after.                                  *)
Twins == IF last'.op \notin {"mv", "rename"} \/ GetPath(fs.t, Dirname(last'.src)) = None THEN {}
         ELSE LET named == IF last'.op = "mv" THEN [fs.t EXCEPT ![Moved].name = Basename(last'.dst)] ELSE fs.t
              IN {x \in ToSet(fs.t[GetPath(fs.t, Dirname(last'.src))].kids) \ {Moved} : Same(named, x, Moved)}

(* No entry is lost but what the operation names: rm, replacing and loading  *)
(* take what is below with it, rmdir takes one empty entry, or after a slash *)
(* one with an empty name, and a move loses what is moved only when it goes  *)
(* below itself or, over SFTP, when the new parent is missing.  The one      *)
(* other thing a move can lose is an entry equal to the moved one, which was *)
(* beside it.  Everything else that was in the tree still is.                *)
NothingLost ==
    [][\A n \in Live(fs.t) \ Live(fs'.t) :
         \/ /\ last'.op \in {"rm", "cp", "open", "remove", "touch", "unpack", "fsrm", "fsload", "fsembed"}
            /\ \E x \in Aimed(fs.t, last'.dst) : n \in Below(fs.t, x)
         \/ /\ last'.op \in {"rmdir", "fsrmdir"} 
            /\ \E x \in Aimed(fs.t, last'.dst) : n \in Below(fs.t, x) /\ (fs.t[x].kids = <<>> \/ fs.t[x].name = "")
         \/ \E x \in Twins : n \in Below(fs.t, x)
         \/ /\ last'.op \in {"mv", "fsmv", "rename"}
            /\ n \in Below(fs.t, Moved)
            /\ BelowItself \/ (mode = "sftp" /\ GetPath(fs.t, Dirname(last'.dst)) = None)]_vars

(* As many places in contents lists as entries beside the root. *)
Shape(t) == /\ \A n \in Live(t) : ~Holds(t, n, Root)
            /\ FoldSet(LAMBDA n, k : k + Len(t[n].kids), 1, Live(t)) = Cardinality(Live(t))

(* The entries stay a tree: every one is in one contents list, once.  The two *)
(* ways out are a mv whose source is a link into another directory, and a mv  *)
(* or rename that removed an equal entry for the one it moved.                *)
OnePlace == [][Shape(fs.t) => Shape(fs'.t) \/ (last'.op = "mv" /\ ~last'.ok) \/ Twins # {}]_vars

(* getfile() takes the last entry of a name and get_path() the first; while   *)
(* names are unique the two find the same entry for every path, links in the  *)
(* middle and at the end included.                                            *)
LookupsAgree == mode # "fsctl" /\ ~Dup(fs.t) => \A p \in AllPaths : GetFile(fs.t, p, TRUE) = GetPath(fs.t, p)

(* What touch, mkdir, cp, mv, an archive, an upload or a rename made is found *)
(* where it was put, unless a link to nothing hides it, the new name was      *)
(* empty, or a directory was moved below itself.                              *)
MadeIsFound ==
    [][last'.ok /\ last'.op \in {"touch", "mkdir", "cp", "mv", "unpack", "rename", "open"} =>
         \/ Exists(fs'.t, last'.dst)
         \/ Blocked(fs'.t, last'.dst)
         \/ Basename(last'.dst) = ""
         \/ last'.op \in {"mv", "rename"} /\ BelowItself]_vars

(* After rm -r, no entry of that name is left at that path, however many mv *)
(* or archives had put there.                                               *)
RemovedIsGone == last.op = "rm" /\ last.flag => Aimed(fs.t, last.dst) = {}

(* The working directory of fsctl exists, also after rmdir removed it; rm -r, *)
(* mv and load can take it away, which the editor does not notice.            *)
PwdExists == [][Lookup(fs.t, cwd) # None /\ mode = "fsctl" =>
                   Lookup(fs'.t, cwd') # None \/ last'.op \in {"fsrm", "fsmv", "fsload"}]_vars

(* Whatever was typed, leaving fsctl loses nothing: the pickle holds the tree. *)
SavedIsTree == mode = "fsctl" => saved = fs.t

(* A host file named by a hash holds what the hash is of, unless a handle had *)
(* it open when it was hashed, another one or the one whose close raised: the *)
(* client still writes through that.                                          *)
HashNamesContent == \A nm \in DOMAIN names :
    nm.kind = "hash" => names[nm] \in loose \/ Content(nm) = nm.of

(* What is put away under its hash is reported, but for such a file, and for  *)
(* one that no handle was ever opened on, as the open raised.                 *)
StoredIsReported == \A nm \in DOMAIN names :
    nm.kind = "hash" => nm.of \in events \/ names[nm] \in loose \/ opens[names[nm]] = 0

(* A handle never puts more on the disk than download_limit_size, at whatever *)
(* offsets it writes, and after a close that raised.                          *)
QuotaHolds == Quota # 0 => \A i \in DOMAIN inode :
                 Cardinality({j \in DOMAIN inode[i] : inode[i][j] # "hole"}) <= Quota * opens[i]

(* The end of the session closes what the client left open: temporary files   *)
(* stay on the host only of an open that raised, or of a handle that was      *)
(* opened after one whose close raises.                                       *)
NothingLeftBehind == mode = "over" =>
    \A nm \in DOMAIN names :
        nm.kind = "temp" => \/ opens[names[nm]] = 0
                            \/ \E fd, e \in DOMAIN handles :
                                  handles[fd].temp = nm /\ e < fd /\ handles[e].stuck

(* Lookups find one entry, what was removed is gone, and fsctl has saved it. *)
FsInv == TypeOK /\ LookupsAgree /\ RemovedIsGone /\ SavedIsTree

(* What uploads leave on the host: hashes that fit, all reported, within the *)
(* limit, and no temporary file that could have been put away.               *)
UploadsAreKept == HashNamesContent /\ StoredIsReported /\ QuotaHolds /\ NothingLeftBehind

(* No operation spoils the tree beyond what it names: nothing is lost, in two *)
(* places or hidden, names stay unique but for the ways the code has, and the *)
(* editor stays in a directory that exists.                                   *)
TreeIsKept == NoNewDuplicates /\ NothingLost /\ OnePlace /\ MadeIsFound /\ PwdExists
=============================================================================
